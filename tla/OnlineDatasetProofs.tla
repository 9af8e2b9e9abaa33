------------------------- MODULE OnlineDatasetProofs -------------------------
(***************************************************************************)
(* Every safety property of OnlineDataset that the runs check, for every   *)
(* number of partitions, size, prefetch depth and request limit.           *)
(* And, in the second half, of StorageService, which the dataset's threads *)
(* ask for their samples: that every file in its database is on disk, and  *)
(* that the workers' shares of a dataset hold each of its samples once.    *)
(***************************************************************************)
EXTENDS OnlineDataset, StorageService, DataLemmas

Reading == pc \in {"poll", "read", "join"}

(* What a partition's generator reads exists.                              *)
TypeInv ==
  /\ TypeOK
  /\ pc \in {"direct", "poll", "read", "join"} => partition_id < num_partitions

(* A partition marked valid is complete and stays so; what the generator   *)
(* of the current partition has yielded is what it saw up to last_idx.     *)
ValidIsComplete ==
  \A p \in Partitions :
    /\ partition_valid_until[p] < size[p]
    /\ partition_valid[p] => /\ partition_valid_until[p] = size[p] - 1
                             /\ thread[p] # "fetching"
GeneratorPosition ==
  /\ pc \in {"start", "direct"} =>
       \A p \in Partitions : p >= partition_id => YieldedUpTo(p, 0)
  /\ Reading => /\ YieldedUpTo(partition_id, last_idx + 1)
                /\ IF Launched(partition_id)
                     THEN last_idx <= partition_valid_until[partition_id]
                     ELSE last_idx = -1
  /\ pc = "join" => Launched(partition_id) /\ partition_valid[partition_id]
OrderInv == ValidIsComplete /\ GeneratorPosition /\ InOrderExactlyOnce

(* Every launch is one of the start, of a callback or of the consumer.     *)
Chained == num_prefetched_partitions > parallel_prefetch_requests
StartLaunches == IF Chained THEN launched_prefetches
                 ELSE num_prefetched_partitions - start_calls
ConsumerLaunches ==
  IF Reading \/ pc = "key_error" THEN partition_id + 1 ELSE partition_id

CallbacksChained ==
  \A p \in Partitions :
    /\ has_callback[p] => Chained /\ epoch > 0
    /\ thread[p] \in {"callback", "prefetching"} => has_callback[p]
LaunchCounts ==
  /\ epoch = 0 => launched_prefetches = 0 /\ next_partition_to_fetch = 0 /\ pc = "idle"
  /\ epoch > 0 => num_prefetched_partitions <= num_partitions
  /\ launched_prefetches <= num_prefetched_partitions
  /\ start_calls <= StartCalls(num_prefetched_partitions)
  /\ pc # "start" => start_calls = 0
  /\ partition_id > 0 => start_calls = 0
  /\ epoch > 0 => next_partition_to_fetch <= StartLaunches + ConsumerLaunches
  /\ num_prefetched_partitions = 0 => next_partition_to_fetch = 0
  /\ Reading => num_prefetched_partitions > 0
  /\ pc \in {"direct", "fetch_error"} => num_prefetched_partitions = 0
LaunchInv == CallbacksChained /\ LaunchCounts

(* Data is held for partitions that were launched and not yet read.        *)
HeldInv ==
  /\ container \subseteq partition_id .. next_partition_to_fetch - 1
  /\ num_prefetched_partitions > 0 => partition_id <= next_partition_to_fetch
  /\ \A p \in Partitions :
       /\ p >= next_partition_to_fetch => thread[p] = "none"
       /\ p < partition_id => thread[p] \in {"none", "finished"}
  /\ pc = "idle" /\ epoch > 0 => partition_id >= num_partitions

(* In the first epoch the consumer is never ahead of the launches.         *)
FirstEpochInv ==
  epoch <= 1 =>
    /\ launched_prefetches <= next_partition_to_fetch
    /\ (pc = "start" /\ num_prefetched_partitions > 0
          /\ start_calls < StartCalls(num_prefetched_partitions))
         => next_partition_to_fetch >= Smaller(num_partitions, partition_id + 1)
    /\ Reading => next_partition_to_fetch >= Smaller(num_partitions, partition_id + 2)
    /\ pc # "key_error"
-----------------------------------------------------------------------------
(* Yielding on from an index extends what was yielded so far.              *)
LEMMA ItemsType ==
  ASSUME NEW lo \in Nat \cup {-1}, NEW hi \in Nat \cup {-1}
  PROVE  Items(lo, hi) \in Seq(Nat)
<1>1. CASE hi <= lo
  <2>1. 1 .. hi - lo = {}
    BY <1>1
  <2>2. Items(lo, hi) = <<>>
    BY <2>1 DEF Items
  <2> QED BY <2>2
<1>2. CASE hi > lo
  <2>1. hi - lo \in Nat
    BY <1>2
  <2>2. \A i \in 1 .. hi - lo : lo + i \in Nat
    BY SMT
  <2>3. Items(lo, hi) \in [1 .. hi - lo -> Nat]
    BY <2>2 DEF Items
  <2> QED BY <2>1, <2>3
<1> QED BY <1>1, <1>2

LEMMA ItemsConcat ==
  ASSUME NEW mid \in Nat \cup {-1}, NEW hi \in Nat \cup {-1}, mid <= hi
  PROVE  Items(-1, mid) \o Items(mid, hi) = Items(-1, hi)
<1>1. /\ Items(-1, mid) \in Seq(Nat) /\ Items(mid, hi) \in Seq(Nat)
      /\ Items(-1, hi) \in Seq(Nat)
  BY ItemsType
<1>2. Len(Items(-1, mid)) = mid + 1 /\ Len(Items(mid, hi)) = hi - mid /\ Len(Items(-1, hi)) = hi + 1
  BY <1>1 DEF Items
<1>3. Len(Items(-1, mid) \o Items(mid, hi)) = hi + 1
  BY <1>1, <1>2
<1>4. ASSUME NEW i \in 1 .. hi + 1
      PROVE  (Items(-1, mid) \o Items(mid, hi))[i] = Items(-1, hi)[i]
  BY <1>1, <1>2 DEF Items
<1>5. Items(-1, mid) \o Items(mid, hi) \in Seq(Nat)
  BY <1>1
<1> QED BY <1>1, <1>2, <1>3, <1>4, <1>5, SeqEqual
-----------------------------------------------------------------------------
(* Type correctness.                                                       *)
LEMMA TypeInit == Init => TypeInv
BY DatasetAssumption DEF Init, TypeInv, TypeOK, ThreadState, Partitions

LEMMA ConfigType ==
  TypeOK => /\ num_partitions \in Nat /\ parallel_prefetch_requests \in Nat \ {0}
            /\ \A p \in Partitions : size[p] \in Nat
<1> SUFFICES ASSUME TypeOK PROVE /\ num_partitions \in Nat
                                 /\ parallel_prefetch_requests \in Nat \ {0}
                                 /\ \A p \in Partitions : size[p] \in Nat
  OBVIOUS
<1>1. /\ num_partitions \in PartitionCounts /\ size \in [Partitions -> Sizes]
      /\ parallel_prefetch_requests \in ParallelRequests
  BY DEF TypeOK
<1>2. num_partitions \in Nat
  BY <1>1, DatasetAssumption
<1>3. parallel_prefetch_requests \in Nat \ {0}
  BY <1>1, DatasetAssumption
<1>4. ASSUME NEW p \in Partitions PROVE size[p] \in Nat
  BY <1>1, DatasetAssumption
<1> QED BY <1>2, <1>3, <1>4

LEMMA PrefetchType ==
  ASSUME TypeOK, NEW m \in BOOLEAN, NEW t \in [Partitions -> ThreadState], Prefetch(m, t)
  PROVE  /\ launched_prefetches' \in Nat
         /\ next_partition_to_fetch' \in 0 .. num_partitions
         /\ has_callback' \in [Partitions -> BOOLEAN]
         /\ thread' \in [Partitions -> ThreadState]
         /\ partition_valid' \in [Partitions -> BOOLEAN]
         /\ partition_valid_until' \in [Partitions -> Nat \cup {-1}]
         /\ container' \subseteq Partitions
<1>1. CASE MayPrefetch(m)
  <2>1. next_partition_to_fetch \in Partitions /\ num_partitions \in Nat
    BY <1>1, DatasetAssumption DEF TypeOK, MayPrefetch, Partitions
  <2>2. launched_prefetches' \in Nat
    BY <1>1 DEF TypeOK, Prefetch
  <2>3. next_partition_to_fetch' \in 0 .. num_partitions
    BY <1>1, <2>1 DEF TypeOK, Prefetch, MayPrefetch
  <2>4. thread' \in [Partitions -> ThreadState]
    BY <1>1 DEF Prefetch, ThreadState
  <2>5. partition_valid_until' \in [Partitions -> Nat \cup {-1}]
    BY <1>1 DEF TypeOK, Prefetch
  <2>6. /\ has_callback' \in [Partitions -> BOOLEAN]
        /\ partition_valid' \in [Partitions -> BOOLEAN]
    BY <1>1, Zenon DEF TypeOK, Prefetch
  <2>7. container' \subseteq Partitions
    BY <1>1, <2>1 DEF TypeOK, Prefetch
  <2> QED BY <2>2, <2>3, <2>4, <2>5, <2>6, <2>7
<1>2. CASE ~MayPrefetch(m)
  BY <1>2 DEF TypeOK, Prefetch, launchVars, dataVars
<1> QED BY <1>1, <1>2

LEMMA TypeStep == TypeInv /\ [Next]_vars => TypeInv'
<1> SUFFICES ASSUME TypeInv, [Next]_vars PROVE TypeInv'
  OBVIOUS
<1>0. /\ TypeOK /\ num_partitions \in Nat /\ parallel_prefetch_requests \in Nat
      /\ \A p \in Partitions : size[p] \in Nat
  BY ConfigType DEF TypeInv
<1>a. partition_id < num_partitions => partition_id \in Partitions
  BY DatasetAssumption DEF TypeInv, TypeOK, Partitions
<1>1. CASE BeginEpoch
  BY <1>0, <1>1, DatasetAssumption DEF BeginEpoch, TypeInv, TypeOK, StartCalls, Smaller, ThreadState, LaunchedAtStart
<1>2. CASE StartPrefetching
  <2>1. Prefetch(num_prefetched_partitions > parallel_prefetch_requests, thread)
    BY <1>2 DEF StartPrefetching
  <2>2. /\ (num_prefetched_partitions > parallel_prefetch_requests) \in BOOLEAN
        /\ thread \in [Partitions -> ThreadState]
    BY <1>0 DEF TypeOK
  <2>3. /\ launched_prefetches' \in Nat
        /\ next_partition_to_fetch' \in 0 .. num_partitions
        /\ has_callback' \in [Partitions -> BOOLEAN]
        /\ thread' \in [Partitions -> ThreadState]
        /\ partition_valid' \in [Partitions -> BOOLEAN]
        /\ partition_valid_until' \in [Partitions -> Nat \cup {-1}]
        /\ container' \subseteq Partitions
    BY <1>0, <2>1, <2>2, PrefetchType
  <2> QED BY <1>0, <1>2, <2>3 DEF StartPrefetching, TypeInv, TypeOK, configVars
<1>3. CASE BeginPartition
  <2>1. CASE Prefetch(FALSE, thread)
    BY <1>0, <1>3, <2>1, PrefetchType DEF BeginPartition, TypeInv, TypeOK, configVars
  <2>2. CASE UNCHANGED <<launchVars, thread, dataVars>>
    BY <1>0, <1>3, <2>2 DEF BeginPartition, TypeInv, TypeOK, configVars, launchVars, dataVars
  <2> QED BY <1>3, <2>1, <2>2 DEF BeginPartition
<1>4. CASE EndEpoch
  BY <1>0, <1>4 DEF EndEpoch, TypeInv, TypeOK, configVars, launchVars, dataVars
<1>5. CASE FetchDirectly
  <2>1. partition_id \in Partitions
    BY <1>a, <1>5 DEF FetchDirectly, TypeInv
  <2>2. size[partition_id] - 1 \in Nat \cup {-1}
    BY <1>0, <2>1
  <2>3. Items(-1, size[partition_id] - 1) \in Seq(Nat)
    BY <2>2, ItemsType
  <2> QED BY <2>3, <1>0, <1>5, <2>1 DEF FetchDirectly, TypeInv, TypeOK, configVars, launchVars, dataVars
<1>6. CASE PollPartition
  BY <1>0, <1>6 DEF PollPartition, TypeInv, TypeOK, configVars, launchVars, dataVars
<1>7. CASE ReadAvailable
  <2>1. partition_id \in Partitions
    BY <1>0, <1>a, <1>7 DEF ReadAvailable, TypeInv, TypeOK
  <2>2. Items(last_idx, partition_valid_until[partition_id]) \in Seq(Nat)
    BY <1>0, <2>1, ItemsType DEF TypeOK
  <2>3. yielded' \in [Partitions -> Seq(Nat)]
    <3>1. yielded \in [Partitions -> Seq(Nat)]
      BY <1>0 DEF TypeOK
    <3>2. CASE Launched(partition_id)
      <4>1. YieldFrom(last_idx, partition_valid_until[partition_id])
        BY <1>7, <3>2 DEF ReadAvailable
      <4>2. yielded[partition_id] \o Items(last_idx, partition_valid_until[partition_id]) \in Seq(Nat)
        BY <2>1, <2>2, <3>1
      <4> QED BY <3>1, <4>1, <4>2 DEF YieldFrom
    <3>3. CASE ~Launched(partition_id)
      BY <1>7, <3>1, <3>3 DEF ReadAvailable
    <3> QED BY <3>2, <3>3
  <2>4. last_idx' \in Nat \cup {-1}
    BY <1>0, <1>7, <2>1 DEF ReadAvailable, LastIdxAfterRead, TypeOK
  <2> QED BY <1>0, <1>7, <2>3, <2>4 DEF ReadAvailable, TypeInv, TypeOK, configVars, launchVars, dataVars
<1>8. CASE JoinAndClear
  <2>1. partition_id \in Partitions
    BY <1>0, <1>a, <1>8 DEF JoinAndClear, TypeInv, TypeOK
  <2>2. Items(last_idx, partition_valid_until[partition_id]) \in Seq(Nat)
    BY <1>0, <2>1, ItemsType DEF TypeOK
  <2>3. yielded' \in [Partitions -> Seq(Nat)]
    BY <1>0, <1>8, <2>1, <2>2 DEF JoinAndClear, YieldFrom, TypeOK
  <2>4. /\ partition_valid' \in [Partitions -> BOOLEAN]
        /\ partition_valid_until' \in [Partitions -> Nat \cup {-1}]
        /\ container' \subseteq Partitions
    BY <1>0, <1>8 DEF JoinAndClear, ContainerCleared, TypeOK
  <2>5. partition_id' \in 0 .. num_partitions
    BY <1>0, <1>8 DEF JoinAndClear, TypeInv, TypeOK
  <2> QED BY <1>0, <1>8, <2>3, <2>4, <2>5 DEF JoinAndClear, TypeInv, TypeOK, configVars, launchVars
<1>9. CASE FetchDirectlyFails
  BY <1>0, <1>9 DEF FetchDirectlyFails, TypeInv, TypeOK, configVars, launchVars, dataVars
<1>10. ASSUME NEW p \in Partitions, ReceiveResponse(p) PROVE TypeInv'
  <2>1. partition_valid_until' \in [Partitions -> Nat \cup {-1}]
    <3>1. PICK n \in 1 .. size[p] - 1 - partition_valid_until[p] :
            partition_valid_until' = [partition_valid_until EXCEPT ![p] = @ + n]
      BY <1>10 DEF ReceiveResponse
    <3>2. n \in Nat \ {0} /\ partition_valid_until[p] \in Nat \cup {-1}
      BY <1>0, <3>1 DEF TypeOK
    <3>3. partition_valid_until[p] + n \in Nat
      BY <3>2
    <3> QED BY <1>0, <3>1, <3>3 DEF TypeOK
  <2> QED BY <1>0, <1>10, <2>1 DEF ReceiveResponse, TypeInv, TypeOK, configVars, launchVars, consumerVars
<1>11. ASSUME NEW p \in Partitions, MarkValid(p) PROVE TypeInv'
  BY <1>0, <1>11 DEF MarkValid, TypeInv, TypeOK, ThreadState, configVars, launchVars, consumerVars
<1>12. ASSUME NEW p \in Partitions, CallbackCheck(p) PROVE TypeInv'
  BY <1>0, <1>12 DEF CallbackCheck, TypeInv, TypeOK, ThreadState, configVars, launchVars, dataVars,
                     consumerVars
<1>13. ASSUME NEW p \in Partitions, CallbackPrefetch(p) PROVE TypeInv'
  <2>1. [thread EXCEPT ![p] = "finished"] \in [Partitions -> ThreadState]
    BY <1>0 DEF TypeOK, ThreadState
  <2> QED BY <1>0, <1>13, <2>1, PrefetchType DEF CallbackPrefetch, TypeInv, TypeOK, configVars,
                                                 consumerVars
<1>14. ASSUME NEW p \in Partitions, FetchFails(p) PROVE TypeInv'
  BY <1>0, <1>14 DEF FetchFails, TypeInv, TypeOK, ThreadState, configVars, launchVars, dataVars,
                     consumerVars
<1>15. CASE UNCHANGED vars
  BY <1>15 DEF vars, TypeInv, TypeOK, configVars, launchVars, dataVars, consumerVars
<1> QED
  BY <1>1, <1>2, <1>3, <1>4, <1>5, <1>6, <1>7, <1>8, <1>9, <1>10, <1>11, <1>12, <1>13, <1>14, <1>15
  DEF Next, Consumer, FetchThread
-----------------------------------------------------------------------------
(* The launches of an epoch.                                               *)
LEMMA LaunchInit == Init => LaunchInv
BY DatasetAssumption DEF Init, LaunchInv, CallbacksChained, LaunchCounts, StartCalls, Smaller, Reading

LEMMA CountType ==
  TypeOK => /\ num_partitions \in Nat /\ parallel_prefetch_requests \in Nat \ {0}
            /\ num_prefetched_partitions \in Nat /\ launched_prefetches \in Nat
            /\ next_partition_to_fetch \in Nat /\ start_calls \in Nat
            /\ partition_id \in Nat /\ epoch \in Nat
            /\ next_partition_to_fetch <= num_partitions
            /\ next_partition_to_fetch < num_partitions => next_partition_to_fetch \in Partitions
<1> SUFFICES ASSUME TypeOK
             PROVE  /\ num_prefetched_partitions \in Nat /\ launched_prefetches \in Nat
                    /\ next_partition_to_fetch \in Nat /\ start_calls \in Nat
                    /\ partition_id \in Nat /\ epoch \in Nat
                    /\ next_partition_to_fetch <= num_partitions
                    /\ next_partition_to_fetch < num_partitions => next_partition_to_fetch \in Partitions
  BY ConfigType
<1>1. num_partitions \in Nat /\ num_partitions <= MaxPartitions /\ MaxPartitions \in Nat
  BY ConfigType, DatasetAssumption DEF TypeOK
<1> QED BY <1>1 DEF TypeOK, Partitions

LEMMA CallbackStep == TypeInv /\ LaunchInv /\ [Next]_vars => CallbacksChained'
<1> SUFFICES ASSUME TypeInv, LaunchInv, [Next]_vars PROVE CallbacksChained'
  OBVIOUS
<1>0. /\ TypeOK /\ CallbacksChained
      /\ has_callback \in [Partitions -> BOOLEAN] /\ thread \in [Partitions -> ThreadState]
  BY DEF TypeInv, TypeOK, LaunchInv
<1>a. ASSUME NEW m \in BOOLEAN, NEW t \in [Partitions -> ThreadState], m => Chained /\ epoch > 0, Prefetch(m, t),
             \A p \in Partitions : t[p] \in {"callback", "prefetching"} => has_callback[p],
             UNCHANGED <<configVars, epoch>>
      PROVE  CallbacksChained'
  <2>2. Chained' <=> Chained
    BY <1>a DEF Chained, configVars
  <2>3. CASE MayPrefetch(m)
    <3>1. next_partition_to_fetch \in Partitions
      BY <1>0, <2>3, CountType DEF MayPrefetch
    <3>2. /\ has_callback' = [has_callback EXCEPT ![next_partition_to_fetch] = m]
          /\ thread' = [t EXCEPT ![next_partition_to_fetch] = "fetching"]
      BY <1>a, <2>3 DEF Prefetch
    <3> QED BY <1>0, <1>a, <2>2, <3>1, <3>2, Zenon DEF CallbacksChained
  <2>4. CASE ~MayPrefetch(m)
    BY <1>0, <1>a, <2>2, <2>4 DEF CallbacksChained, Prefetch, launchVars
  <2> QED BY <2>3, <2>4
<1>1. CASE BeginEpoch
  BY <1>1 DEF BeginEpoch, CallbacksChained
<1>2. CASE StartPrefetching
  <2>1. Prefetch(Chained, thread) /\ UNCHANGED <<configVars, epoch>> /\ epoch > 0
    BY <1>0, <1>2, CountType DEF StartPrefetching, Chained, LaunchInv, LaunchCounts
  <2>2. Chained \in BOOLEAN
    BY DEF Chained
  <2> QED BY <1>0, <2>1, <2>2, <1>a, Zenon DEF CallbacksChained
<1>3. CASE BeginPartition
  <2>1. CASE Prefetch(FALSE, thread)
    BY <1>0, <1>3, <2>1, <1>a DEF BeginPartition, CallbacksChained
  <2>2. CASE UNCHANGED <<launchVars, thread, dataVars>>
    BY <1>0, <1>3, <2>2 DEF BeginPartition, CallbacksChained, Chained, configVars, launchVars, consumerVars
  <2> QED BY <1>3, <2>1, <2>2 DEF BeginPartition
<1>4. CASE EndEpoch \/ FetchDirectly \/ PollPartition \/ ReadAvailable \/ JoinAndClear \/ FetchDirectlyFails
  BY <1>0, <1>4 DEF EndEpoch, FetchDirectly, PollPartition, ReadAvailable, JoinAndClear, FetchDirectlyFails,
                    CallbacksChained, Chained, configVars, launchVars, consumerVars
<1>5. ASSUME NEW p \in Partitions, ReceiveResponse(p) \/ FetchFails(p) PROVE CallbacksChained'
  BY <1>0, <1>5, Zenon DEF ReceiveResponse, FetchFails, CallbacksChained, Chained, configVars, launchVars, consumerVars
<1>6. ASSUME NEW p \in Partitions, MarkValid(p) PROVE CallbacksChained'
  BY <1>0, <1>6, Zenon DEF MarkValid, CallbacksChained, Chained, configVars, launchVars, consumerVars
<1>7. ASSUME NEW p \in Partitions, CallbackCheck(p) PROVE CallbacksChained'
  BY <1>0, <1>7, Zenon DEF CallbackCheck, CallbacksChained, Chained, configVars, launchVars, consumerVars
<1>8. ASSUME NEW p \in Partitions, CallbackPrefetch(p) PROVE CallbacksChained'
  <2>1. /\ Prefetch(TRUE, [thread EXCEPT ![p] = "finished"]) /\ UNCHANGED <<configVars, epoch>>
        /\ Chained /\ epoch > 0
    BY <1>0, <1>8 DEF CallbackPrefetch, CallbacksChained, consumerVars
  <2>2. /\ [thread EXCEPT ![p] = "finished"] \in [Partitions -> ThreadState]
        /\ \A q \in Partitions : [thread EXCEPT ![p] = "finished"][q] \in {"callback", "prefetching"}
                                  => has_callback[q]
    BY <1>0 DEF ThreadState, CallbacksChained
  <2> QED BY <1>a, <2>1, <2>2
<1>9. CASE UNCHANGED vars
  BY <1>0, <1>9 DEF vars, CallbacksChained, Chained, configVars, launchVars, consumerVars
<1> QED BY <1>1, <1>2, <1>3, <1>4, <1>5, <1>6, <1>7, <1>8, <1>9 DEF Next, Consumer, FetchThread

LEMMA CountStep == TypeInv /\ LaunchInv /\ [Next]_vars => LaunchCounts'
<1> SUFFICES ASSUME TypeInv, LaunchInv, [Next]_vars PROVE LaunchCounts'
  OBVIOUS
<1> DEFINE NumType == /\ num_partitions \in Nat /\ parallel_prefetch_requests \in Nat \ {0}
                      /\ num_prefetched_partitions \in Nat /\ launched_prefetches \in Nat
                      /\ next_partition_to_fetch \in Nat /\ start_calls \in Nat
                      /\ partition_id \in Nat /\ epoch \in Nat
<1>0. TypeOK /\ NumType /\ LaunchCounts
  BY CountType DEF TypeInv, LaunchInv
<1> USE DEF LaunchCounts, StartLaunches, ConsumerLaunches, Reading, Chained, StartCalls, Smaller
<1>1. CASE BeginEpoch
  BY <1>0, <1>1 DEF BeginEpoch, LaunchedAtStart
<1>2. CASE StartPrefetching
  <2>3. \/ /\ next_partition_to_fetch' = next_partition_to_fetch + 1
           /\ launched_prefetches' = IF Chained THEN launched_prefetches + 1 ELSE launched_prefetches
           /\ launched_prefetches' <= num_prefetched_partitions
           /\ num_prefetched_partitions >= 1
        \/ UNCHANGED <<next_partition_to_fetch, launched_prefetches>>
    BY <1>0, <1>2 DEF StartPrefetching, Prefetch, MayPrefetch, launchVars
  <2> QED BY <1>0, <1>2, <2>3 DEF StartPrefetching, configVars
<1>3. CASE BeginPartition
  <2>1. launched_prefetches' = launched_prefetches
    <3>1. CASE Prefetch(FALSE, thread) /\ MayPrefetch(FALSE)
      BY <1>0, <3>1 DEF Prefetch
    <3>2. CASE Prefetch(FALSE, thread) /\ ~MayPrefetch(FALSE)
      BY <3>2 DEF Prefetch, launchVars
    <3>3. CASE UNCHANGED launchVars
      BY <3>3 DEF launchVars
    <3> QED BY <1>3, <3>1, <3>2, <3>3 DEF BeginPartition
  <2>2. CASE num_prefetched_partitions > 0
    <3>1. next_partition_to_fetch' \in {next_partition_to_fetch, next_partition_to_fetch + 1}
      BY <1>0, <1>3 DEF BeginPartition, LastPartition, Prefetch, launchVars
    <3> QED BY <1>0, <1>3, <2>1, <2>2, <3>1 DEF BeginPartition, configVars
  <2>3. CASE ~(num_prefetched_partitions > 0)
    BY <1>0, <1>3, <2>3 DEF BeginPartition, configVars, launchVars
  <2> QED BY <2>2, <2>3
<1>4. CASE EndEpoch
  BY <1>0, <1>4 DEF EndEpoch, configVars, launchVars
<1>5. CASE FetchDirectly
  BY <1>0, <1>5 DEF FetchDirectly, configVars, launchVars
<1>6. CASE PollPartition
  BY <1>0, <1>6 DEF PollPartition, configVars, launchVars
<1>7. CASE ReadAvailable
  BY <1>0, <1>7 DEF ReadAvailable, configVars, launchVars
<1>8. CASE JoinAndClear
  BY <1>0, <1>8 DEF JoinAndClear, configVars, launchVars
<1>9. CASE FetchDirectlyFails
  BY <1>0, <1>9 DEF FetchDirectlyFails, configVars, launchVars
<1>10. ASSUME NEW p \in Partitions, ReceiveResponse(p) \/ MarkValid(p) \/ CallbackCheck(p) \/ FetchFails(p)
       PROVE  LaunchCounts'
  BY <1>0, <1>10 DEF ReceiveResponse, MarkValid, CallbackCheck, FetchFails, configVars, launchVars,
                     consumerVars
<1>11. ASSUME NEW p \in Partitions, CallbackPrefetch(p) PROVE LaunchCounts'
  <2>1. Chained /\ epoch > 0
    BY <1>11 DEF CallbackPrefetch, LaunchInv, CallbacksChained
  <2>3. \/ /\ next_partition_to_fetch' = next_partition_to_fetch + 1
           /\ launched_prefetches' = launched_prefetches + 1
           /\ launched_prefetches' <= num_prefetched_partitions
           /\ num_prefetched_partitions >= 1
        \/ UNCHANGED <<next_partition_to_fetch, launched_prefetches>>
    BY <1>0, <1>11 DEF CallbackPrefetch, Prefetch, MayPrefetch, launchVars
  <2>4. UNCHANGED <<num_partitions, num_prefetched_partitions, parallel_prefetch_requests, epoch, pc,
                    start_calls, partition_id>>
    BY <1>11 DEF CallbackPrefetch, configVars, consumerVars
  <2> QED BY <1>0, <2>1, <2>3, <2>4
<1>12. CASE UNCHANGED vars
  BY <1>0, <1>12 DEF vars, configVars, launchVars, consumerVars
<1> QED BY <1>1, <1>2, <1>3, <1>4, <1>5, <1>6, <1>7, <1>8, <1>9, <1>10, <1>11, <1>12
        DEF Next, Consumer, FetchThread
-----------------------------------------------------------------------------
(* Every item once and in order.                                           *)

(* One call of _prefetch_partition touches the next partition or nothing.  *)
LEMMA PrefetchNext ==
  ASSUME TypeOK, NEW m \in BOOLEAN, NEW t \in [Partitions -> ThreadState], Prefetch(m, t)
  PROVE  \/ /\ next_partition_to_fetch \in Partitions
            /\ next_partition_to_fetch < num_partitions
            /\ num_prefetched_partitions > 0
            /\ next_partition_to_fetch' = next_partition_to_fetch + 1
            /\ partition_valid' = [partition_valid EXCEPT ![next_partition_to_fetch] = FALSE]
            /\ partition_valid_until' = [partition_valid_until EXCEPT ![next_partition_to_fetch] = -1]
            /\ container' = container \cup {next_partition_to_fetch}
            /\ thread' = [t EXCEPT ![next_partition_to_fetch] = "fetching"]
         \/ /\ UNCHANGED <<next_partition_to_fetch, dataVars>>
            /\ thread' = t
<1>1. CASE MayPrefetch(m)
  BY <1>1, CountType DEF Prefetch, MayPrefetch
<1>2. CASE ~MayPrefetch(m)
  BY <1>2 DEF Prefetch, launchVars
<1> QED BY <1>1, <1>2

LEMMA ValidStep == TypeInv /\ ValidIsComplete /\ [Next]_vars => ValidIsComplete'
<1> SUFFICES ASSUME TypeInv, ValidIsComplete, [Next]_vars PROVE ValidIsComplete'
  OBVIOUS
<1>0. /\ TypeOK /\ thread \in [Partitions -> ThreadState]
      /\ partition_valid \in [Partitions -> BOOLEAN]
      /\ partition_valid_until \in [Partitions -> Nat \cup {-1}]
      /\ \A p \in Partitions : size[p] \in Nat
  BY ConfigType DEF TypeInv, TypeOK
<1>a. ASSUME NEW m \in BOOLEAN, NEW t \in [Partitions -> ThreadState], Prefetch(m, t), size' = size,
             \A p \in Partitions : t[p] = "fetching" => thread[p] = "fetching"
      PROVE  ValidIsComplete'
  <2>1. CASE UNCHANGED dataVars /\ thread' = t
    BY <1>0, <1>a, <2>1 DEF ValidIsComplete, dataVars
  <2>2. CASE /\ next_partition_to_fetch \in Partitions
             /\ partition_valid' = [partition_valid EXCEPT ![next_partition_to_fetch] = FALSE]
             /\ partition_valid_until' = [partition_valid_until EXCEPT ![next_partition_to_fetch] = -1]
             /\ thread' = [t EXCEPT ![next_partition_to_fetch] = "fetching"]
    <3> SUFFICES ASSUME NEW p \in Partitions
                 PROVE  /\ partition_valid_until'[p] < size[p]
                        /\ partition_valid'[p] => /\ partition_valid_until'[p] = size[p] - 1
                                                 /\ thread'[p] # "fetching"
      BY <1>a DEF ValidIsComplete
    <3>1. CASE p = next_partition_to_fetch
      BY <1>0, <2>2, <3>1
    <3>2. CASE p # next_partition_to_fetch
      BY <1>0, <1>a, <2>2, <3>2 DEF ValidIsComplete
    <3> QED BY <3>1, <3>2
  <2> QED BY <1>0, <1>a, <2>1, <2>2, PrefetchNext
<1>1. CASE BeginEpoch
  BY <1>0, <1>1 DEF BeginEpoch, ValidIsComplete
<1>2. CASE StartPrefetching
  <2>1. (num_prefetched_partitions > parallel_prefetch_requests) \in BOOLEAN
    OBVIOUS
  <2> QED BY <1>0, <1>2, <1>a, <2>1 DEF StartPrefetching, configVars
<1>3. CASE BeginPartition
  BY <1>0, <1>3, <1>a DEF BeginPartition, ValidIsComplete, configVars, dataVars
<1>4. CASE EndEpoch \/ FetchDirectly \/ PollPartition \/ ReadAvailable \/ FetchDirectlyFails
  BY <1>0, <1>4 DEF EndEpoch, FetchDirectly, PollPartition, ReadAvailable, FetchDirectlyFails,
                    ValidIsComplete, configVars, dataVars
<1>5. CASE JoinAndClear
  BY <1>0, <1>5 DEF JoinAndClear, ValidIsComplete, configVars
<1>6. ASSUME NEW p \in Partitions, ReceiveResponse(p) PROVE ValidIsComplete'
  <2>1. PICK n \in 1 .. size[p] - 1 - partition_valid_until[p] :
          partition_valid_until' = [partition_valid_until EXCEPT ![p] = @ + n]
    BY <1>6 DEF ReceiveResponse
  <2>2. ~partition_valid[p] /\ UNCHANGED <<size, partition_valid, thread>>
    BY <1>6 DEF ReceiveResponse, ValidIsComplete, configVars
  <2>3. partition_valid_until[p] + n < size[p]
    BY <1>0, <2>1
  <2> QED BY <1>0, <2>1, <2>2, <2>3 DEF ValidIsComplete
<1>7. ASSUME NEW p \in Partitions, MarkValid(p) PROVE ValidIsComplete'
  BY <1>0, <1>7 DEF MarkValid, StreamEnded, ValidIsComplete, configVars
<1>8. ASSUME NEW p \in Partitions, CallbackCheck(p) \/ FetchFails(p) PROVE ValidIsComplete'
  BY <1>0, <1>8 DEF CallbackCheck, FetchFails, ValidIsComplete, configVars, dataVars
<1>9. ASSUME NEW p \in Partitions, CallbackPrefetch(p) PROVE ValidIsComplete'
  <2>1. [thread EXCEPT ![p] = "finished"] \in [Partitions -> ThreadState]
    BY <1>0 DEF ThreadState
  <2>2. \A q \in Partitions : [thread EXCEPT ![p] = "finished"][q] = "fetching" => thread[q] = "fetching"
    BY <1>0
  <2> QED BY <1>9, <1>a, <2>1, <2>2 DEF CallbackPrefetch, configVars
<1>10. CASE UNCHANGED vars
  BY <1>10 DEF vars, ValidIsComplete, configVars, dataVars
<1> QED BY <1>1, <1>2, <1>3, <1>4, <1>5, <1>6, <1>7, <1>8, <1>9, <1>10 DEF Next, Consumer, FetchThread

LEMMA PositionStep == TypeInv /\ OrderInv /\ [Next]_vars => GeneratorPosition'
<1> SUFFICES ASSUME TypeInv, OrderInv, [Next]_vars PROVE GeneratorPosition'
  OBVIOUS
<1>0. /\ TypeOK /\ thread \in [Partitions -> ThreadState]
      /\ partition_valid \in [Partitions -> BOOLEAN]
      /\ partition_valid_until \in [Partitions -> Nat \cup {-1}]
      /\ yielded \in [Partitions -> Seq(Nat)]
      /\ last_idx \in Nat \cup {-1} /\ partition_id \in Nat /\ next_partition_to_fetch \in Nat
      /\ GeneratorPosition
      /\ Reading => partition_id \in Partitions
  BY CountType, DatasetAssumption DEF TypeInv, TypeOK, OrderInv, Reading, Partitions
<1>a. ASSUME NEW m \in BOOLEAN, NEW t \in [Partitions -> ThreadState], Prefetch(m, t),
             UNCHANGED <<pc, partition_id, last_idx, yielded>>
      PROVE  GeneratorPosition'
  <2>1. \A p, n : YieldedUpTo(p, n)' <=> YieldedUpTo(p, n)
    BY <1>a DEF YieldedUpTo
  <2>2. CASE UNCHANGED <<next_partition_to_fetch, dataVars>>
    BY <1>0, <1>a, <2>1, <2>2 DEF GeneratorPosition, Reading, Launched, dataVars
  <2>3. CASE /\ next_partition_to_fetch \in Partitions
             /\ next_partition_to_fetch' = next_partition_to_fetch + 1
             /\ partition_valid' = [partition_valid EXCEPT ![next_partition_to_fetch] = FALSE]
             /\ partition_valid_until' = [partition_valid_until EXCEPT ![next_partition_to_fetch] = -1]
    <3>1. pc \in {"start", "direct"} => \A p \in Partitions : p >= partition_id => YieldedUpTo(p, 0)'
      BY <1>0, <1>a, <2>1 DEF GeneratorPosition
    <3>2. Reading => IF Launched(partition_id)'
                       THEN last_idx <= partition_valid_until'[partition_id]
                       ELSE last_idx = -1
      BY <1>0, <1>a, <2>3 DEF GeneratorPosition, Launched
    <3>3. pc = "join" => Launched(partition_id)' /\ partition_valid'[partition_id]
      BY <1>0, <1>a, <2>3 DEF GeneratorPosition, Launched, Reading
    <3> QED BY <1>0, <1>a, <2>1, <3>1, <3>2, <3>3 DEF GeneratorPosition, Reading
  <2> QED BY <1>0, <1>a, <2>2, <2>3, PrefetchNext
<1>1. CASE BeginEpoch
  <2>1. Items(-1, -1) = <<>>
    <3>1. 1 .. (-1 - (-1)) = {}
      OBVIOUS
    <3> QED BY <3>1 DEF Items
  <2> QED BY <1>1, <2>1 DEF BeginEpoch, GeneratorPosition, YieldedUpTo, Reading
<1>2. CASE StartPrefetching
  <2>1. (num_prefetched_partitions > parallel_prefetch_requests) \in BOOLEAN
    OBVIOUS
  <2> QED BY <1>0, <1>2, <1>a, <2>1 DEF StartPrefetching
<1>3. CASE BeginPartition
  <2>1. partition_id \in Partitions
    BY <1>0, <1>3, CountType, DatasetAssumption DEF BeginPartition, TypeOK, Partitions
  <2>2. \A p \in Partitions : p >= partition_id => YieldedUpTo(p, 0)'
    BY <1>0, <1>3 DEF BeginPartition, GeneratorPosition, YieldedUpTo
  <2>3. last_idx' = -1 /\ partition_id' = partition_id /\ pc' \in {"poll", "direct"}
    BY <1>3 DEF BeginPartition
  <2>4. partition_valid_until' \in [Partitions -> Nat \cup {-1}]
    BY <1>3, TypeStep DEF TypeInv, TypeOK
  <2>5. -1 <= partition_valid_until'[partition_id]
    BY <2>1, <2>4
  <2> QED BY <1>0, <2>1, <2>2, <2>3, <2>5 DEF GeneratorPosition, Reading
<1>4. CASE EndEpoch
  BY <1>4 DEF EndEpoch, GeneratorPosition, Reading
<1>5. CASE FetchDirectly
  <2>1. partition_id' = partition_id + 1 /\ pc' = "start" /\ pc = "direct"
    BY <1>5 DEF FetchDirectly
  <2>2. ASSUME NEW p \in Partitions, p >= partition_id + 1 PROVE YieldedUpTo(p, 0)'
    <3>1. YieldedUpTo(p, 0) /\ p # partition_id
      BY <1>0, <2>1, <2>2 DEF GeneratorPosition, Partitions
    <3>2. yielded'[p] = yielded[p]
      BY <1>0, <1>5, <3>1 DEF FetchDirectly
    <3> QED BY <3>1, <3>2 DEF YieldedUpTo
  <2> QED BY <2>1, <2>2 DEF GeneratorPosition, Reading
<1>6. CASE PollPartition
  BY <1>0, <1>6 DEF PollPartition, GeneratorPosition, Reading, YieldedUpTo, Launched, launchVars, dataVars
<1>7. CASE ReadAvailable
  <2>1. CASE Launched(partition_id)
    <3>1. /\ YieldFrom(last_idx, partition_valid_until[partition_id])
          /\ last_idx' = partition_valid_until[partition_id] /\ pc' = "poll"
          /\ UNCHANGED <<next_partition_to_fetch, partition_valid_until, partition_id>>
      BY <1>7, <2>1 DEF ReadAvailable, LastIdxAfterRead, launchVars, dataVars
    <3>2. /\ partition_id \in Partitions /\ yielded[partition_id] = Items(-1, last_idx)
          /\ last_idx <= partition_valid_until[partition_id]
      BY <1>0, <1>7, <2>1 DEF ReadAvailable, Reading, GeneratorPosition, YieldedUpTo
    <3>3. yielded'[partition_id] = Items(-1, last_idx')
      BY <1>0, <3>1, <3>2, ItemsConcat DEF YieldFrom
    <3>4. YieldedUpTo(partition_id, last_idx + 1)'
      BY <1>0, <3>1, <3>2, <3>3 DEF YieldedUpTo
    <3>5. last_idx' <= partition_valid_until'[partition_id]
      BY <1>0, <3>1, <3>2
    <3>6. Launched(partition_id)'
      BY <2>1, <3>1 DEF Launched
    <3> QED BY <3>1, <3>4, <3>5, <3>6 DEF GeneratorPosition, Reading
  <2>2. CASE ~Launched(partition_id)
    BY <1>7, <2>2 DEF ReadAvailable, GeneratorPosition, Reading
  <2> QED BY <2>1, <2>2
<1>8. CASE JoinAndClear
  <2>1. partition_id' = partition_id + 1 /\ pc' = "start"
    BY <1>8 DEF JoinAndClear
  <2>2. ASSUME NEW p \in Partitions, p >= partition_id + 1 PROVE YieldedUpTo(p, 0)'
    <3>1. YieldedUpTo(p, 0)
      BY <1>0, <2>2 DEF OrderInv, InOrderExactlyOnce, Partitions
    <3>2. p # partition_id
      BY <1>0, <2>2 DEF Partitions
    <3>3. yielded'[p] = yielded[p]
      BY <1>0, <1>8, <3>2 DEF JoinAndClear, YieldFrom
    <3> QED BY <3>1, <3>3 DEF YieldedUpTo
  <2> QED BY <2>1, <2>2 DEF GeneratorPosition, Reading
<1>9. CASE FetchDirectlyFails
  BY <1>9 DEF FetchDirectlyFails, GeneratorPosition, Reading
<1>10. ASSUME NEW p \in Partitions, ReceiveResponse(p) PROVE GeneratorPosition'
  <2>1. PICK n \in 1 .. size[p] - 1 - partition_valid_until[p] :
          partition_valid_until' = [partition_valid_until EXCEPT ![p] = @ + n]
    BY <1>10 DEF ReceiveResponse
  <2>2. UNCHANGED <<next_partition_to_fetch, partition_valid, pc, partition_id, last_idx, yielded>>
    BY <1>10 DEF ReceiveResponse, launchVars, consumerVars
  <2>3. \A q \in Partitions : partition_valid_until[q] <= partition_valid_until'[q]
    <3>1. partition_valid_until[p] + n >= partition_valid_until[p]
      <4>1. partition_valid_until[p] \in Int /\ size[p] \in Int
        BY <1>0, ConfigType
      <4>2. n \in Nat
        BY <2>1, <4>1
      <4> QED BY <4>1, <4>2
    <3>2. \A q \in Partitions : partition_valid_until[q] \in Int
      BY <1>0
    <3> QED BY <1>0, <2>1, <3>1, <3>2
  <2>4. Reading /\ Launched(partition_id) => last_idx <= partition_valid_until'[partition_id]
    <3>1. partition_valid_until' \in [Partitions -> Nat \cup {-1}]
      BY <1>10, TypeStep DEF TypeInv, TypeOK
    <3> SUFFICES ASSUME Reading, Launched(partition_id)
                 PROVE  last_idx <= partition_valid_until'[partition_id]
      OBVIOUS
    <3>2. /\ partition_id \in Partitions /\ last_idx <= partition_valid_until[partition_id]
      BY <1>0 DEF GeneratorPosition
    <3>3. /\ partition_valid_until[partition_id] \in Int /\ partition_valid_until'[partition_id] \in Int
          /\ partition_valid_until[partition_id] <= partition_valid_until'[partition_id]
      BY <1>0, <2>3, <3>1, <3>2
    <3> QED BY <1>0, <3>2, <3>3
  <2> QED BY <1>0, <2>2, <2>4 DEF GeneratorPosition, Reading, Launched, YieldedUpTo
<1>11. ASSUME NEW p \in Partitions, MarkValid(p) PROVE GeneratorPosition'
  BY <1>0, <1>11 DEF MarkValid, GeneratorPosition, Reading, Launched, YieldedUpTo, launchVars, consumerVars
<1>12. ASSUME NEW p \in Partitions, CallbackCheck(p) \/ FetchFails(p) PROVE GeneratorPosition'
  BY <1>0, <1>12 DEF CallbackCheck, FetchFails, GeneratorPosition, Reading, Launched, YieldedUpTo,
                     launchVars, dataVars, consumerVars
<1>13. ASSUME NEW p \in Partitions, CallbackPrefetch(p) PROVE GeneratorPosition'
  <2>1. [thread EXCEPT ![p] = "finished"] \in [Partitions -> ThreadState]
    BY <1>0 DEF ThreadState
  <2> QED BY <1>13, <1>a, <2>1 DEF CallbackPrefetch, consumerVars
<1>14. CASE UNCHANGED vars
  BY <1>0, <1>14 DEF vars, GeneratorPosition, Reading, Launched, YieldedUpTo, launchVars, dataVars,
                     consumerVars
<1> QED BY <1>1, <1>2, <1>3, <1>4, <1>5, <1>6, <1>7, <1>8, <1>9, <1>10, <1>11, <1>12, <1>13, <1>14
        DEF Next, Consumer, FetchThread

LEMMA ExactStep == TypeInv /\ OrderInv /\ [Next]_vars => InOrderExactlyOnce'
<1> SUFFICES ASSUME TypeInv, OrderInv, [Next]_vars PROVE InOrderExactlyOnce'
  OBVIOUS
<1>0. /\ TypeOK /\ partition_valid_until \in [Partitions -> Nat \cup {-1}]
      /\ yielded \in [Partitions -> Seq(Nat)]
      /\ last_idx \in Nat \cup {-1} /\ partition_id \in Nat
      /\ \A p \in Partitions : size[p] \in Nat
      /\ ValidIsComplete /\ GeneratorPosition /\ InOrderExactlyOnce
  BY CountType, ConfigType DEF TypeInv, TypeOK, OrderInv
<1>a. pc \in {"direct", "poll", "read", "join"} => partition_id \in Partitions
  BY CountType, DatasetAssumption DEF TypeInv, TypeOK, Partitions
<1>1. CASE UNCHANGED <<size, partition_id, yielded>>
  BY <1>0, <1>1 DEF InOrderExactlyOnce, YieldedUpTo
<1>2. CASE BeginEpoch
  <2>1. Items(-1, -1) = <<>>
    <3>1. 1 .. (-1 - (-1)) = {}
      OBVIOUS
    <3> QED BY <3>1 DEF Items
  <2>2. \A p \in Partitions : YieldedUpTo(p, 0)' /\ p >= partition_id' /\ size'[p] \in Nat
    BY <1>0, <1>2, <2>1 DEF BeginEpoch, YieldedUpTo, Partitions
  <2>3. \A p \in Partitions : ~(p < partition_id')
    BY <1>2 DEF BeginEpoch, Partitions
  <2> QED BY <2>2, <2>3 DEF InOrderExactlyOnce
<1>b. ASSUME partition_id \in Partitions, size' = size,
             \A q \in Partitions : q # partition_id => yielded'[q] = yielded[q],
             NEW e \in Nat \cup {-1}, e < size[partition_id], yielded'[partition_id] = Items(-1, e),
             \/ partition_id' = partition_id
             \/ partition_id' = partition_id + 1 /\ e = size[partition_id] - 1
      PROVE  InOrderExactlyOnce'
  <2> SUFFICES ASSUME NEW p \in Partitions
               PROVE  /\ \E k \in 0 .. size[p] : YieldedUpTo(p, k)'
                      /\ p < partition_id' => YieldedUpTo(p, size[p])'
                      /\ p > partition_id' => YieldedUpTo(p, 0)'
    BY <1>b DEF InOrderExactlyOnce, YieldedUpTo
  <2>1. CASE p = partition_id
    <3>0. PICK n \in 0 .. size[p] : n - 1 = e
      <4>1. e + 1 \in 0 .. size[p] /\ (e + 1) - 1 = e
        BY <1>0, <1>b, <2>1
      <4> QED BY <4>1
    <3>1. YieldedUpTo(p, n)' /\ n \in 0 .. size[p]
      BY <1>b, <2>1, <3>0 DEF YieldedUpTo
    <3>2. ~(p > partition_id')
      BY <1>0, <1>b, <2>1
    <3>3. p < partition_id' => n = size[p]
      BY <1>0, <1>b, <2>1, <3>0
    <3> QED BY <1>b, <3>1, <3>2, <3>3 DEF YieldedUpTo
  <2>2. CASE p # partition_id
    <3>1. \A k : YieldedUpTo(p, k)' <=> YieldedUpTo(p, k)
      BY <1>b, <2>2 DEF YieldedUpTo
    <3>2. p \in Int
      BY DEF Partitions
    <3> QED BY <1>0, <1>b, <2>2, <3>1, <3>2 DEF InOrderExactlyOnce
  <2> QED BY <2>1, <2>2
<1>3. CASE FetchDirectly
  <2>1. partition_id \in Partitions /\ partition_id' = partition_id + 1 /\ size' = size
    BY <1>a, <1>3 DEF FetchDirectly, configVars
  <2>2. yielded' = [yielded EXCEPT ![partition_id] = Items(-1, size[partition_id] - 1)]
    BY <1>3 DEF FetchDirectly
  <2>3. yielded'[partition_id] = Items(-1, size[partition_id] - 1)
    BY <1>0, <2>1, <2>2
  <2>4. \A q \in Partitions : q # partition_id => yielded'[q] = yielded[q]
    BY <1>0, <2>2
  <2>5. size[partition_id] - 1 \in Nat \cup {-1} /\ size[partition_id] - 1 < size[partition_id]
    BY <1>0, <2>1
  <2> QED BY <1>b, <2>1, <2>3, <2>4, <2>5
<1>c. ASSUME Reading, last_idx <= partition_valid_until[partition_id],
             YieldFrom(last_idx, partition_valid_until[partition_id])
      PROVE  /\ \A q \in Partitions : q # partition_id => yielded'[q] = yielded[q]
             /\ yielded'[partition_id] = Items(-1, partition_valid_until[partition_id])
             /\ partition_valid_until[partition_id] \in Nat \cup {-1}
             /\ partition_valid_until[partition_id] < size[partition_id]
  <2>1. partition_id \in Partitions /\ yielded[partition_id] = Items(-1, last_idx)
    BY <1>0, <1>a, <1>c DEF Reading, GeneratorPosition, YieldedUpTo
  <2>2. yielded'[partition_id] = Items(-1, partition_valid_until[partition_id])
    BY <1>0, <1>c, <2>1, ItemsConcat DEF YieldFrom
  <2> QED BY <1>0, <1>c, <2>1, <2>2 DEF YieldFrom, ValidIsComplete
<1>4. CASE ReadAvailable
  <2>1. CASE Launched(partition_id)
    <3>1. /\ Reading /\ last_idx <= partition_valid_until[partition_id]
          /\ YieldFrom(last_idx, partition_valid_until[partition_id])
          /\ partition_id' = partition_id /\ size' = size /\ partition_id \in Partitions
      BY <1>0, <1>a, <1>4, <2>1 DEF ReadAvailable, Reading, GeneratorPosition, configVars
    <3> QED BY <1>b, <1>c, <3>1
  <2>2. CASE ~Launched(partition_id)
    BY <1>1, <1>4, <2>2 DEF ReadAvailable, configVars
  <2> QED BY <2>1, <2>2
<1>5. CASE JoinAndClear
  <2>1. /\ Reading /\ last_idx <= partition_valid_until[partition_id]
        /\ YieldFrom(last_idx, partition_valid_until[partition_id])
        /\ partition_id' = partition_id + 1 /\ size' = size /\ partition_id \in Partitions
        /\ partition_valid[partition_id]
    BY <1>0, <1>a, <1>5 DEF JoinAndClear, Reading, GeneratorPosition, configVars
  <2>2. partition_valid_until[partition_id] = size[partition_id] - 1
    BY <1>0, <2>1 DEF ValidIsComplete
  <2> QED BY <1>b, <1>c, <2>1, <2>2
<1>6. ASSUME NEW p \in Partitions, FetchThread(p) \/ FetchFails(p) PROVE UNCHANGED <<size, partition_id, yielded>>
  BY <1>6 DEF FetchThread, FetchFails, ReceiveResponse, MarkValid, CallbackCheck, CallbackPrefetch,
              configVars, consumerVars
<1>7. CASE StartPrefetching \/ BeginPartition \/ EndEpoch \/ PollPartition \/ FetchDirectlyFails \/ UNCHANGED vars
  <2>1. UNCHANGED <<size, partition_id, yielded>>
    BY <1>7 DEF StartPrefetching, BeginPartition, EndEpoch, PollPartition, FetchDirectlyFails, vars,
                configVars, consumerVars
  <2> QED BY <1>1, <2>1
<1> QED BY <1>1, <1>2, <1>3, <1>4, <1>5, <1>6, <1>7 DEF Next, Consumer
-----------------------------------------------------------------------------
(* What is held, and which threads run.                                    *)
LEMMA HeldStep == TypeInv /\ OrderInv /\ LaunchInv /\ HeldInv /\ [Next]_vars => HeldInv'
<1> SUFFICES ASSUME TypeInv, OrderInv, LaunchInv, HeldInv, [Next]_vars PROVE HeldInv'
  OBVIOUS
<1>0. /\ TypeOK /\ HeldInv /\ thread \in [Partitions -> ThreadState]
      /\ num_partitions \in Nat /\ num_prefetched_partitions \in Nat
      /\ next_partition_to_fetch \in Nat /\ partition_id \in Nat /\ epoch \in Nat
      /\ \A p \in Partitions : p \in Nat
  BY CountType DEF TypeInv, TypeOK, Partitions
<1>a. ASSUME NEW m \in BOOLEAN, NEW t \in [Partitions -> ThreadState], Prefetch(m, t),
             \A p \in Partitions : t[p] = thread[p] \/ (thread[p] # "none" /\ t[p] = "finished"),
             UNCHANGED <<num_partitions, num_prefetched_partitions, epoch, partition_id>>,
             pc' = "idle" => pc = "idle"
      PROVE  HeldInv'
  <2>1. CASE UNCHANGED <<next_partition_to_fetch, dataVars>> /\ thread' = t
    BY <1>0, <1>a, <2>1 DEF HeldInv, dataVars
  <2>2. CASE /\ next_partition_to_fetch \in Partitions /\ num_prefetched_partitions > 0
             /\ next_partition_to_fetch' = next_partition_to_fetch + 1
             /\ container' = container \cup {next_partition_to_fetch}
             /\ thread' = [t EXCEPT ![next_partition_to_fetch] = "fetching"]
    <3>1. container' \subseteq partition_id .. next_partition_to_fetch' - 1
      BY <1>0, <2>2 DEF HeldInv
    <3>2. ASSUME NEW p \in Partitions, p >= next_partition_to_fetch' PROVE thread'[p] = "none"
      BY <1>0, <1>a, <2>2, <3>2 DEF HeldInv
    <3>3. ASSUME NEW p \in Partitions, p < partition_id PROVE thread'[p] \in {"none", "finished"}
      BY <1>0, <1>a, <2>2, <3>3 DEF HeldInv
    <3> QED BY <1>0, <1>a, <2>2, <3>1, <3>2, <3>3 DEF HeldInv
  <2> QED BY <1>0, <1>a, <2>1, <2>2, PrefetchNext
<1>b. ASSUME NEW m \in BOOLEAN, Prefetch(m, thread),
             UNCHANGED <<num_partitions, num_prefetched_partitions, epoch, partition_id>>, pc' # "idle"
      PROVE  HeldInv'
  <2>1. \A p \in Partitions : thread[p] = thread[p] \/ (thread[p] # "none" /\ thread[p] = "finished")
    OBVIOUS
  <2> QED BY <1>0, <1>a, <1>b, <2>1, Zenon
<1>1. CASE BeginEpoch
  BY <1>0, <1>1 DEF BeginEpoch, HeldInv
<1>2. CASE StartPrefetching
  <2>1. (num_prefetched_partitions > parallel_prefetch_requests) \in BOOLEAN
    OBVIOUS
  <2>2. pc' # "idle"
    BY <1>2 DEF StartPrefetching
  <2> QED BY <1>2, <1>b, <2>1, <2>2 DEF StartPrefetching, configVars
<1>3. CASE BeginPartition
  <2>1. /\ UNCHANGED <<num_partitions, num_prefetched_partitions, epoch, partition_id>>
        /\ pc' # "idle"
    BY <1>3 DEF BeginPartition, configVars
  <2>2. CASE Prefetch(FALSE, thread)
    BY <1>b, <2>1, <2>2
  <2>3. CASE UNCHANGED <<launchVars, thread, dataVars>>
    BY <1>0, <2>1, <2>3 DEF HeldInv, launchVars, dataVars
  <2> QED BY <1>3, <2>2, <2>3 DEF BeginPartition
<1>4. CASE EndEpoch
  BY <1>0, <1>4 DEF EndEpoch, HeldInv, configVars, launchVars, dataVars
<1>5. CASE FetchDirectly
  <2>1. next_partition_to_fetch = 0 /\ num_prefetched_partitions = 0
    BY <1>5 DEF FetchDirectly, LaunchInv, LaunchCounts
  <2>2. /\ partition_id' = partition_id + 1 /\ pc' = "start"
        /\ UNCHANGED <<next_partition_to_fetch, container, thread, num_prefetched_partitions>>
    BY <1>5 DEF FetchDirectly, configVars, launchVars, dataVars
  <2>3. \A p \in Partitions : thread[p] = "none"
    BY <1>0, <2>1 DEF HeldInv
  <2> QED BY <1>0, <2>1, <2>2, <2>3 DEF HeldInv
<1>6. CASE JoinAndClear
  <2>1. /\ partition_id' = partition_id + 1 /\ pc' = "start" /\ thread[partition_id] = "finished"
        /\ container' = container \ {partition_id}
        /\ UNCHANGED <<next_partition_to_fetch, thread, num_prefetched_partitions>>
    BY <1>6 DEF JoinAndClear, ContainerCleared, configVars, launchVars
  <2>2. partition_id < next_partition_to_fetch
    BY <1>6 DEF JoinAndClear, OrderInv, GeneratorPosition, Launched
  <2>3. container' \subseteq partition_id + 1 .. next_partition_to_fetch - 1
    BY <1>0, <2>1 DEF HeldInv
  <2>4. ASSUME NEW p \in Partitions, p < partition_id + 1 PROVE thread[p] \in {"none", "finished"}
    BY <1>0, <2>1, <2>4 DEF HeldInv
  <2> QED BY <1>0, <2>1, <2>2, <2>3, <2>4 DEF HeldInv
<1>7. CASE PollPartition \/ ReadAvailable \/ FetchDirectlyFails
  BY <1>0, <1>7 DEF PollPartition, ReadAvailable, FetchDirectlyFails, HeldInv, configVars, launchVars, dataVars
<1>8. ASSUME NEW p \in Partitions, ReceiveResponse(p) PROVE HeldInv'
  BY <1>0, <1>8 DEF ReceiveResponse, HeldInv, configVars, launchVars, consumerVars
<1>9. ASSUME NEW p \in Partitions, MarkValid(p) \/ CallbackCheck(p) \/ FetchFails(p) PROVE HeldInv'
  <2>1. /\ UNCHANGED <<num_partitions, num_prefetched_partitions, next_partition_to_fetch, container,
                      epoch, pc, partition_id>>
        /\ thread[p] \in {"fetching", "callback"}
        /\ \A q \in Partitions : q # p => thread'[q] = thread[q]
    BY <1>0, <1>9 DEF MarkValid, CallbackCheck, FetchFails, configVars, launchVars, dataVars, consumerVars
  <2>2. p < next_partition_to_fetch /\ p >= partition_id
    BY <1>0, <2>1 DEF HeldInv
  <2> QED BY <1>0, <2>1, <2>2 DEF HeldInv
<1>10. ASSUME NEW p \in Partitions, CallbackPrefetch(p) PROVE HeldInv'
  <2> DEFINE t == [thread EXCEPT ![p] = "finished"]
  <2>0. thread[p] = "prefetching"
    BY <1>10 DEF CallbackPrefetch
  <2>1. /\ t \in [Partitions -> ThreadState]
        /\ \A q \in Partitions : t[q] = thread[q] \/ (thread[q] # "none" /\ t[q] = "finished")
    BY <1>0, <2>0 DEF ThreadState
  <2>2. Prefetch(TRUE, t) /\ UNCHANGED <<configVars, consumerVars>>
    BY <1>10 DEF CallbackPrefetch
  <2> HIDE DEF t
  <2> QED BY <1>a, <2>1, <2>2 DEF configVars, consumerVars
<1>11. CASE UNCHANGED vars
  BY <1>11 DEF vars, HeldInv, configVars, launchVars, dataVars, consumerVars
<1> QED BY <1>1, <1>2, <1>3, <1>4, <1>5, <1>6, <1>7, <1>8, <1>9, <1>10, <1>11 DEF Next, Consumer, FetchThread

LEMMA FirstEpochStep ==
  TypeInv /\ OrderInv /\ LaunchInv /\ FirstEpochInv /\ [Next]_vars => FirstEpochInv'
<1> SUFFICES ASSUME TypeInv, OrderInv, LaunchInv, FirstEpochInv, [Next]_vars PROVE FirstEpochInv'
  OBVIOUS
<1>0. /\ TypeOK /\ LaunchCounts
      /\ num_partitions \in Nat /\ parallel_prefetch_requests \in Nat \ {0}
      /\ num_prefetched_partitions \in Nat /\ launched_prefetches \in Nat
      /\ next_partition_to_fetch \in Nat /\ start_calls \in Nat
      /\ partition_id \in Nat /\ epoch \in Nat /\ next_partition_to_fetch <= num_partitions
  BY CountType DEF TypeInv, LaunchInv
<1> USE DEF FirstEpochInv, Reading, StartCalls, Smaller
<1>1. CASE BeginEpoch
  BY <1>0, <1>1 DEF BeginEpoch, LaunchCounts, LaunchedAtStart
<1>2. CASE StartPrefetching
  <2>1. /\ pc = "start" /\ pc' = "start" /\ start_calls > 0 /\ partition_id = 0
        /\ start_calls' = start_calls - 1
        /\ UNCHANGED <<num_partitions, num_prefetched_partitions, parallel_prefetch_requests, epoch,
                      partition_id>>
    BY <1>0, <1>2 DEF StartPrefetching, LaunchCounts, configVars
  <2>2. \/ /\ next_partition_to_fetch' = next_partition_to_fetch + 1
           /\ launched_prefetches' \in {launched_prefetches, launched_prefetches + 1}
        \/ /\ UNCHANGED <<next_partition_to_fetch, launched_prefetches>>
           /\ \/ num_prefetched_partitions < 1
              \/ next_partition_to_fetch >= num_partitions
              \/ launched_prefetches >= num_prefetched_partitions
    BY <1>0, <1>2 DEF StartPrefetching, Prefetch, MayPrefetch, launchVars
  <2> QED BY <1>0, <2>1, <2>2
<1>3. CASE BeginPartition
  <2>1. /\ pc = "start" /\ start_calls = 0 /\ partition_id < num_partitions
        /\ pc' = IF num_prefetched_partitions > 0 THEN "poll" ELSE "direct"
        /\ UNCHANGED <<num_partitions, num_prefetched_partitions, parallel_prefetch_requests, epoch,
                      start_calls, partition_id>>
    BY <1>3 DEF BeginPartition, configVars
  <2>2. \/ /\ next_partition_to_fetch' = next_partition_to_fetch + 1
           /\ launched_prefetches' = launched_prefetches
        \/ /\ UNCHANGED <<next_partition_to_fetch, launched_prefetches>>
           /\ \/ num_prefetched_partitions < 1
              \/ next_partition_to_fetch >= num_partitions
              \/ partition_id >= num_partitions - 1
    BY <1>0, <1>3 DEF BeginPartition, LastPartition, Prefetch, MayPrefetch, launchVars
  <2> QED BY <1>0, <2>1, <2>2
<1>4. CASE EndEpoch
  BY <1>0, <1>4 DEF EndEpoch, configVars, launchVars
<1>5. CASE FetchDirectly
  BY <1>0, <1>5 DEF FetchDirectly, LaunchCounts, configVars, launchVars
<1>6. CASE PollPartition
  BY <1>0, <1>6 DEF PollPartition, configVars, launchVars
<1>7. CASE ReadAvailable
  <2>1. epoch <= 1 => partition_id < next_partition_to_fetch
    BY <1>0, <1>7 DEF ReadAvailable, TypeInv
  <2>2. epoch <= 1 => pc' = "poll"
    BY <1>7, <2>1 DEF ReadAvailable, Launched
  <2> QED BY <1>0, <1>7, <2>2 DEF ReadAvailable, configVars, launchVars
<1>8. CASE JoinAndClear
  BY <1>0, <1>8 DEF JoinAndClear, configVars, launchVars
<1>9. CASE FetchDirectlyFails
  BY <1>0, <1>9 DEF FetchDirectlyFails, configVars, launchVars
<1>10. ASSUME NEW p \in Partitions, ReceiveResponse(p) \/ MarkValid(p) \/ CallbackCheck(p) \/ FetchFails(p)
       PROVE  FirstEpochInv'
  BY <1>0, <1>10 DEF ReceiveResponse, MarkValid, CallbackCheck, FetchFails, configVars, launchVars, consumerVars
<1>11. ASSUME NEW p \in Partitions, CallbackPrefetch(p) PROVE FirstEpochInv'
  <2>1. UNCHANGED <<num_partitions, num_prefetched_partitions, parallel_prefetch_requests, epoch, pc,
                    start_calls, partition_id>>
    BY <1>11 DEF CallbackPrefetch, configVars, consumerVars
  <2>2. \/ /\ next_partition_to_fetch' = next_partition_to_fetch + 1
           /\ launched_prefetches' = launched_prefetches + 1
        \/ UNCHANGED <<next_partition_to_fetch, launched_prefetches>>
    BY <1>0, <1>11 DEF CallbackPrefetch, Prefetch, launchVars
  <2> QED BY <1>0, <2>1, <2>2
<1>12. CASE UNCHANGED vars
  BY <1>0, <1>12 DEF vars, configVars, launchVars, consumerVars
<1> QED BY <1>1, <1>2, <1>3, <1>4, <1>5, <1>6, <1>7, <1>8, <1>9, <1>10, <1>11, <1>12
        DEF Next, Consumer, FetchThread
-----------------------------------------------------------------------------
(* The inductive invariant.                                                *)
IInv == TypeInv /\ OrderInv /\ LaunchInv /\ HeldInv /\ FirstEpochInv

LEMMA InitIInv == Init => IInv
<1> SUFFICES ASSUME Init PROVE IInv
  OBVIOUS
<1>1. TypeInv /\ LaunchInv
  BY TypeInit, LaunchInit
<1>2. \A p \in Partitions : size[p] \in Nat /\ p \in Nat
  BY <1>1, ConfigType DEF TypeInv, Partitions
<1>3. 1 .. (-1 - (-1)) = {}
  OBVIOUS
<1>4. OrderInv
  <2>1. ValidIsComplete
    BY <1>2 DEF Init, ValidIsComplete
  <2>2. GeneratorPosition
    BY DEF Init, GeneratorPosition, Reading
  <2>3. Items(-1, -1) = <<>>
    BY <1>3 DEF Items
  <2>4. InOrderExactlyOnce
    BY <1>2, <2>3 DEF Init, InOrderExactlyOnce, YieldedUpTo
  <2> QED BY <2>1, <2>2, <2>4 DEF OrderInv
<1>5. HeldInv
  BY <1>1, <1>2, CountType DEF Init, HeldInv, TypeInv
<1>6. FirstEpochInv
  BY DEF Init, FirstEpochInv, Reading
<1> QED BY <1>1, <1>4, <1>5, <1>6 DEF IInv

LEMMA StepIInv == IInv /\ [Next]_vars => IInv'
BY TypeStep, ValidStep, PositionStep, ExactStep, CallbackStep, CountStep, HeldStep, FirstEpochStep
DEF IInv, OrderInv, LaunchInv

THEOREM Invariance == Spec => []IInv
BY InitIInv, StepIInv, PTL DEF Spec

(* Type correctness of the dataset, for every number of partitions.        *)
THEOREM TypeCorrect == Spec => []TypeOK
<1>1. IInv => TypeOK
  BY DEF IInv, TypeInv
<1> QED BY <1>1, Invariance, PTL

(* The training loop gets every item of a partition once and in order,     *)
(* whatever the fetch threads and failures do: __iter__ and _get_data.     *)
THEOREM OrderCorrect == Spec => []InOrderExactlyOnce
<1>1. IInv => InOrderExactlyOnce
  BY DEF IInv, OrderInv
<1> QED BY <1>1, Invariance, PTL

(* The consumer of a first epoch never reads a partition whose prefetch    *)
(* was not launched (the KeyError of _partition_max_index).                *)
THEOREM FirstEpochCorrect == Spec => []FirstEpochLaunchesInTime
<1>1. IInv => FirstEpochLaunchesInTime
  BY CountType DEF IInv, FirstEpochInv, FirstEpochLaunchesInTime, TypeInv
<1> QED BY <1>1, Invariance, PTL

(* _thread_data_container never holds more than one partition beyond       *)
(* num_prefetched_partitions, in any epoch.                                *)
THEOREM MemoryCorrect == Spec => []MemoryBound
<1>1. ASSUME IInv PROVE MemoryBound
  <2>1. /\ num_prefetched_partitions \in Nat /\ next_partition_to_fetch \in Nat
        /\ partition_id \in Nat /\ epoch \in Nat /\ start_calls \in Nat /\ launched_prefetches \in Nat
    BY <1>1, CountType DEF IInv, TypeInv
  <2>2. container \subseteq partition_id .. next_partition_to_fetch - 1
    BY <1>1 DEF IInv, HeldInv
  <2>3. next_partition_to_fetch - partition_id <= num_prefetched_partitions + 1
    BY <1>1, <2>1 DEF IInv, LaunchInv, LaunchCounts, StartLaunches, ConsumerLaunches
  <2>4. /\ IsFiniteSet(partition_id .. next_partition_to_fetch - 1)
        /\ Cardinality(partition_id .. next_partition_to_fetch - 1) <= num_prefetched_partitions + 1
    <3>1. next_partition_to_fetch - 1 \in Int
      BY <2>1
    <3>2. /\ IsFiniteSet(partition_id .. next_partition_to_fetch - 1)
          /\ Cardinality(partition_id .. next_partition_to_fetch - 1)
               = IF partition_id > next_partition_to_fetch - 1 THEN 0
                 ELSE (next_partition_to_fetch - 1) - partition_id + 1
      BY <2>1, <3>1, FS_Interval
    <3> QED BY <2>1, <2>3, <3>2
  <2>5. Cardinality(container) <= Cardinality(partition_id .. next_partition_to_fetch - 1)
    BY <2>2, <2>4, FS_Subset
  <2>6. /\ Cardinality(container) \in Nat
        /\ Cardinality(partition_id .. next_partition_to_fetch - 1) \in Nat
    BY <2>2, <2>4, FS_Subset, FS_CardinalityType
  <2> QED BY <2>1, <2>4, <2>5, <2>6 DEF MemoryBound
<1> QED BY <1>1, Invariance, PTL

(* When an epoch has ended every item was yielded, no data is held and no  *)
(* fetch thread is left to touch the next epoch's structures.              *)
THEOREM EpochCorrect == Spec => []EpochLeavesNothing
<1>1. ASSUME IInv, pc = "idle", epoch > 0
      PROVE  /\ container = {}
             /\ \A p \in Partitions : thread[p] \in {"none", "finished"}
             /\ \A p \in 0 .. num_partitions - 1 : YieldedUpTo(p, size[p])
  <2>1. /\ num_partitions \in Nat /\ next_partition_to_fetch \in Nat /\ partition_id \in Nat
        /\ next_partition_to_fetch <= num_partitions /\ num_partitions <= partition_id
    BY <1>1, CountType DEF IInv, TypeInv, HeldInv
  <2>2. container = {}
    BY <1>1, <2>1 DEF IInv, HeldInv
  <2>3. \A p \in Partitions : p \in Nat
    BY DEF Partitions
  <2>4. \A p \in Partitions : thread[p] \in {"none", "finished"}
    BY <1>1, <2>1, <2>3 DEF IInv, HeldInv
  <2>5. \A p \in 0 .. num_partitions - 1 : p \in Partitions /\ p < partition_id
    BY <1>1, <2>1, DatasetAssumption DEF IInv, TypeInv, TypeOK, Partitions
  <2> QED BY <1>1, <2>2, <2>4, <2>5 DEF IInv, OrderInv, InOrderExactlyOnce
<1>2. IInv => EpochLeavesNothing
  BY <1>1 DEF EpochLeavesNothing
<1> QED BY <1>2, Invariance, PTL
-----------------------------------------------------------------------------
(* The storage server that the prefetching threads ask (StorageService):   *)
(* its database names no file that is not on disk, whatever requests read  *)
(* and delete while the watcher enters files, and wherever the process     *)
(* ends.                                                                   *)

(* The fields of the records that the steps change in part.                *)
Fields ==
  /\ next = [ds |-> next.ds, file |-> next.file, sample |-> next.sample]
  /\ next.ds \in Nat \ {0} /\ next.file \in Nat \ {0} /\ dataset \in 0 .. next.ds - 1
  /\ watcher = [pc |-> watcher.pc, ds |-> watcher.ds, path |-> watcher.path, file |-> watcher.file,
                doc |-> watcher.doc]
  /\ del = [pc |-> del.pc, ds |-> del.ds, keys |-> del.keys, ids |-> del.ids,
            paths |-> del.paths, count |-> del.count]

(* Ids are handed out once; a dataset has one row for a path; a sample and *)
(* its file, while it has a row, are of one dataset.                       *)
RowsAgree ==
  /\ DOMAIN files \subseteq 1 .. next.file - 1
  /\ \A f \in DOMAIN files :
       /\ files[f] = [ds |-> files[f].ds, path |-> files[f].path,
                          updated_at |-> files[f].updated_at,
                          number_of_samples |-> files[f].number_of_samples]
       /\ files[f].ds \in 1 .. next.ds - 1 /\ files[f].path \in Paths
  /\ \A f, g \in DOMAIN files :
       files[f].ds = files[g].ds /\ files[f].path = files[g].path => f = g
  /\ \A s \in DOMAIN samples :
       /\ samples[s].file \in 1 .. next.file - 1
       /\ samples[s].file \in DOMAIN files =>
            files[samples[s].file].ds = samples[s].ds

(* A watcher about to enter a file is the only one to enter it.            *)
WatcherEnters ==
  /\ watcher.pc \in {"idle", "found", "filed"} => watcher.ds \in 1 .. next.ds - 1
  /\ watcher.pc = "found" =>
       /\ watcher.path \in Paths
       /\ \A f \in DOMAIN files :
            files[f].ds = watcher.ds => files[f].path # watcher.path
  /\ watcher.pc = "filed" =>
       /\ watcher.file \in 1 .. next.file - 1
       /\ watcher.file \in DOMAIN files => files[watcher.file].ds = watcher.ds

(* A deletion is of the dataset that is registered.  Where queries return  *)
(* rows in one order, DeleteData has for every file whose row is still     *)
(* there that row's path; by the time it removes a file, only rows entered *)
(* in the meantime name it.                                                *)
FilePcs == {"open", "rows", "deleted", "unlink"}
DatasetPcs == {"remove", "files", "dataset"}
DeletionOn ==
  /\ del.pc \in {"idle"} \cup FilePcs \cup DatasetPcs
  /\ del.pc # "idle" => del.ds = dataset /\ dataset # 0
  /\ del.pc \in DatasetPcs => del.ds \in doomed
  /\ del.pc \in FilePcs =>
       /\ del.ids \in Seq(1 .. next.file - 1) /\ del.paths \in Seq(Paths)
       /\ Len(del.ids) = Len(del.paths) /\ del.ids # <<>>
       /\ \A i \in 1 .. Len(del.ids) : del.ids[i] \in DOMAIN files =>
            /\ files[del.ids[i]].ds = del.ds
            /\ UnorderedQueries \/ files[del.ids[i]].path = del.paths[i]
  /\ ~UnorderedQueries /\ del.pc = "unlink" =>
       \A f \in DOMAIN files :
         files[f].ds = del.ds /\ files[f].path = Head(del.paths) => f \in ghosts

OnDisk ==
  ~UnorderedQueries => \A f \in DOMAIN files :
    files[f].ds = dataset =>
      files[f].path \in DOMAIN disk \/ f \in ghosts \/ dataset \in doomed

ServiceInv == Fields /\ RowsAgree /\ WatcherEnters /\ DeletionOn /\ OnDisk
-----------------------------------------------------------------------------
(* A finite set of numbers has one order in which they ascend.             *)
Ascending(o) == \A i, j \in DOMAIN o : i < j => o[i] < o[j]

LEMMA OneAscendingOrder ==
  ASSUME NEW S, IsFiniteSet(S), S \subseteq Nat,
         NEW o \in [1 .. Cardinality(S) -> S], NEW q \in [1 .. Cardinality(S) -> S],
         Ascending(o), Ascending(q)
  PROVE  o = q
<1> DEFINE n == Cardinality(S)
           D == 1 .. n
           Differ == {i \in D : o[i] # q[i]}
<1>1. n \in Nat
  BY FS_CardinalityType
<1> HIDE DEF n
<1>2. o \in [D -> S] /\ q \in [D -> S] /\ DOMAIN o = D /\ DOMAIN q = D
  BY DEF n
<1>3. IsFiniteSet(D) /\ Cardinality(D) = Cardinality(S)
  BY <1>1, FS_Interval DEF n
<1>4. ASSUME NEW f \in [D -> S], Ascending(f)
      PROVE  \A x \in S : \E i \in D : f[i] = x
  <2>1. \A i, j \in D : f[i] = f[j] => i = j
    <3> SUFFICES ASSUME NEW i \in D, NEW j \in D, f[i] = f[j], i # j PROVE FALSE
      OBVIOUS
    <3>1. i \in Nat /\ j \in Nat /\ (i < j \/ j < i)
      BY <1>1
    <3>2. f[i] \in Nat /\ f[j] \in Nat
      OBVIOUS
    <3>3. f[i] < f[j] \/ f[j] < f[i]
      BY <1>4, <3>1 DEF Ascending
    <3> QED BY <3>2, <3>3
  <2>2. f \in Injection(D, S)
    BY <2>1 DEF Injection, IsInjective
  <2>3. f \in Surjection(D, S)
    <3> HIDE DEF D
    <3> QED BY <1>3, <2>2, FS_Injection
  <2> QED BY <2>3 DEF Surjection
<1> SUFFICES ASSUME o # q PROVE FALSE
  OBVIOUS
<1>5. Differ \subseteq Nat /\ Differ # {}
  <2>1. Differ # {}
    <3> SUFFICES ASSUME \A i \in D : o[i] = q[i] PROVE FALSE
      OBVIOUS
    <3>1. o = [i \in D |-> o[i]] /\ q = [i \in D |-> q[i]]
      BY <1>2
    <3>2. [i \in D |-> o[i]] = [i \in D |-> q[i]]
      OBVIOUS
    <3> HIDE DEF D
    <3> QED BY <3>1, <3>2
  <2> QED BY <1>1, <2>1
<1>6. PICK k \in Differ : \A m \in Differ : k <= m
  <2> HIDE DEF Differ
  <2> QED BY <1>5, LeastNatural
<1>7. k \in D /\ o[k] # q[k] /\ o[k] \in S /\ q[k] \in S /\ o[k] \in Nat /\ q[k] \in Nat
  BY <1>2, <1>6
<1>8. \A m \in D : m < k => o[m] = q[m]
  BY <1>1, <1>6, <1>7
<1>9. ASSUME NEW f \in [D -> S], NEW g \in [D -> S], Ascending(f), Ascending(g),
             \A m \in D : m < k => f[m] = g[m], f[k] < g[k]
      PROVE  FALSE
  <2>1. PICK m \in D : g[m] = f[k]
    BY <1>4, <1>7, <1>9
  <2>2. f[k] \in Nat /\ g[k] \in Nat /\ f[m] \in Nat /\ g[m] \in Nat /\ k \in Nat /\ m \in Nat
    <3>1. k \in D /\ f[k] \in S /\ g[k] \in S /\ f[m] \in S /\ g[m] \in S
      <4> HIDE DEF D, Differ
      <4> QED BY <1>7, <1>9
    <3>2. D \subseteq Nat
      BY <1>1
    <3> HIDE DEF D, Differ
    <3> QED BY <3>1, <3>2
  <2>3. CASE m < k
    BY <1>7, <1>9, <2>1, <2>2, <2>3 DEF Ascending
  <2>4. CASE m = k
    BY <1>9, <2>1, <2>2, <2>4
  <2>5. CASE k < m
    BY <1>7, <1>9, <2>1, <2>2, <2>5 DEF Ascending
  <2> QED BY <2>2, <2>3, <2>4, <2>5
<1>10. o[k] < q[k] \/ q[k] < o[k]
  BY <1>7
<1> QED BY <1>2, <1>8, <1>9, <1>10

LEMMA OneOrder ==
  ASSUME NEW S, S \subseteq 1 .. next.file - 1, next.file \in Nat,
         NEW o \in Orders(S), NEW q \in Orders(S)
  PROVE  /\ UnorderedQueries \/ o = q
         /\ o \in Seq(S) /\ q \in Seq(S) /\ Len(o) = Len(q)
         /\ DOMAIN o = 1 .. Len(o) /\ DOMAIN q = 1 .. Len(o)
         /\ S # {} => o # <<>>
<1>1. IsFiniteSet(S) /\ S \subseteq Nat
  <2> DEFINE ids == 1 .. next.file - 1
  <2>1. IsFiniteSet(ids)
    BY FS_Interval
  <2>2. ids \subseteq Nat /\ S \subseteq ids
    OBVIOUS
  <2> HIDE DEF ids
  <2> QED BY <2>1, <2>2, FS_Subset
<1>2. Cardinality(S) = Cardinality(S)
  BY Zenon DEF Cardinality, Cardinality
<1>3. /\ o \in [1 .. Cardinality(S) -> S] /\ q \in [1 .. Cardinality(S) -> S]
      /\ UnorderedQueries \/ (Ascending(o) /\ Ascending(q))
  BY <1>2 DEF Orders, SetToSeqs, Ascending
<1>4. Cardinality(S) \in Nat /\ (Cardinality(S) = 0 <=> S = {})
  BY <1>1, FS_CardinalityType, FS_EmptySet
<1>5. UnorderedQueries \/ o = q
  BY <1>1, <1>3, OneAscendingOrder
<1> DEFINE n == Cardinality(S)
<1>6. /\ n \in Nat /\ o \in [1 .. n -> S] /\ q \in [1 .. n -> S]
      /\ n = 0 <=> S = {}
  BY <1>3, <1>4
<1> HIDE DEF n
<1>7. o \in Seq(S) /\ q \in Seq(S)
  BY <1>6, SeqDef
<1>8. Len(o) = n /\ DOMAIN o = 1 .. n /\ Len(q) = n /\ DOMAIN q = 1 .. n
  BY <1>6, <1>7, LenProperties
<1>9. S # {} => Len(o) # 0
  BY <1>6, <1>8
<1> QED BY <1>5, <1>7, <1>8, <1>9
-----------------------------------------------------------------------------
(* Steps that leave disk and database alone, and at most end the watcher   *)
(* and the deletion with the process.                                      *)
LEMMA ServiceKept ==
  ASSUME ServiceInv, watcher' \in {watcher, NoWatcher}, del' \in {del, NoDel},
         UNCHANGED <<disk, dataset, files, samples, next, doomed, ghosts>>
  PROVE  ServiceInv'
<1>1. Fields'
  BY DEF ServiceInv, Fields, NoWatcher, NoDel
<1>2. RowsAgree' /\ OnDisk'
  BY DEF ServiceInv, RowsAgree, OnDisk
<1>3. WatcherEnters'
  BY DEF ServiceInv, WatcherEnters, NoWatcher
<1>4. DeletionOn'
  <2>1. CASE del' = del
    BY <2>1 DEF ServiceInv, DeletionOn
  <2>2. CASE del' = NoDel
    BY <2>2 DEF DeletionOn, NoDel, FilePcs, DatasetPcs
  <2> QED BY <2>1, <2>2
<1> QED BY <1>1, <1>2, <1>3, <1>4 DEF ServiceInv

LEMMA RequestStep ==
  ASSUME ServiceInv,
         \/ AddSampleDatasetPartition
         \/ \E keys \in KeySeqs : Get(keys)
         \/ \E t \in Threads : Query(t) \/ Open(t) \/ SendFile(t)
         \/ GetReturns
         \/ \E from, to \in Paths \cup {-1} : PollFiles(from, to)
         \/ PollSamples \/ PollReturns \/ Crash
  PROVE  ServiceInv'
<1> DEFINE Kept == /\ watcher' \in {watcher, NoWatcher} /\ del' \in {del, NoDel}
                   /\ UNCHANGED <<disk, dataset, files, samples, next, doomed, ghosts>>
<1>1. ASSUME AddSampleDatasetPartition PROVE Kept
  BY <1>1 DEF AddSampleDatasetPartition, dbVars
<1>2. ASSUME NEW keys, Get(keys) PROVE Kept
  BY <1>2 DEF Get, dbVars, marks
<1>3. ASSUME NEW t, Query(t) PROVE Kept
  BY <1>3 DEF Query, SetThread, dbVars, marks
<1>4. ASSUME NEW t, Throw(t), UNCHANGED <<disk, dbVars>> PROVE Kept
  BY <1>4 DEF Throw, Down, dbVars, marks
<1>5. ASSUME NEW t, Open(t) PROVE Kept
  <2>1. Throw(t) \/ UNCHANGED <<watcher, del, marks>>
    BY <1>5 DEF Open
  <2>2. UNCHANGED <<disk, dbVars>>
    BY <1>5 DEF Open
  <2> HIDE DEF Kept
  <2>3. ASSUME UNCHANGED <<watcher, del, marks>> PROVE Kept
    BY <2>2, <2>3 DEF Kept, dbVars, marks
  <2> QED BY <1>4, <2>1, <2>2, <2>3
<1>6. ASSUME NEW t, SendFile(t) PROVE Kept
  <2>1. Throw(t) \/ UNCHANGED <<watcher, del, marks>>
    BY <1>6 DEF SendFile
  <2>2. UNCHANGED <<disk, dbVars>>
    BY <1>6 DEF SendFile
  <2> HIDE DEF Kept
  <2>3. ASSUME UNCHANGED <<watcher, del, marks>> PROVE Kept
    BY <2>2, <2>3 DEF Kept, dbVars, marks
  <2> QED BY <1>4, <2>1, <2>2, <2>3
<1>7. ASSUME GetReturns PROVE Kept
  BY <1>7 DEF GetReturns, dbVars, marks
<1>8. ASSUME NEW from, NEW to, PollFiles(from, to) PROVE Kept
  BY <1>8 DEF PollFiles, dbVars, marks
<1>9. ASSUME PollSamples \/ PollReturns PROVE Kept
  BY <1>9 DEF PollSamples, PollReturns, dbVars, marks
<1>10. ASSUME Crash PROVE Kept
  BY <1>10 DEF Crash, Down, dbVars
<1>11. Kept
  <2> HIDE DEF Kept
  <2> QED BY <1>1, <1>2, <1>3, <1>5, <1>6, <1>7, <1>8, <1>9, <1>10
<1> QED BY <1>11, ServiceKept
-----------------------------------------------------------------------------
(* The watcher enters a path of its dataset that no row has, under an id   *)
(* that no row, sample or deletion has.                                    *)
LEMMA WatcherStep ==
  ASSUME ServiceInv,
         \/ RegisterNewDataset \/ StartWatcher \/ StopWatcher
         \/ \E p \in Paths : FindFile(p)
  PROVE  ServiceInv'
<1> USE DEF ServiceInv
<1>1. CASE RegisterNewDataset
  <2> USE <1>1 DEF RegisterNewDataset, AddDataset
  <2>0. next'.ds = next.ds + 1 /\ next'.file = next.file /\ dataset = 0 /\ dataset' = next.ds
        /\ UNCHANGED <<disk, files, samples, watcher, del, doomed, ghosts>>
    BY DEF Fields
  <2>1. Fields'
    BY DEF Fields
  <2> HIDE <1>1 DEF RegisterNewDataset, AddDataset
  <2>2. RowsAgree'
    BY <2>0 DEF RowsAgree, Fields
  <2>3. WatcherEnters'
    BY <2>0 DEF WatcherEnters, Fields
  <2>4. DeletionOn'
    BY <2>0 DEF DeletionOn, FilePcs, DatasetPcs
  <2>5. OnDisk'
    BY <2>0 DEF OnDisk, RowsAgree, Fields
  <2> QED BY <2>1, <2>2, <2>3, <2>4, <2>5
<1>2. ASSUME UNCHANGED <<disk, dataset, files, samples, next, del, doomed, ghosts>>,
             watcher' = [pc |-> watcher'.pc, ds |-> watcher'.ds, path |-> watcher'.path,
                         file |-> watcher'.file, doc |-> watcher'.doc],
             WatcherEnters'
      PROVE  ServiceInv'
  <2>1. Fields'
    BY <1>2 DEF Fields
  <2>2. RowsAgree' /\ DeletionOn' /\ OnDisk'
    BY <1>2 DEF RowsAgree, DeletionOn, OnDisk
  <2> QED BY <1>2, <2>1, <2>2
<1>3. CASE StartWatcher
  <2>1. /\ UNCHANGED <<disk, dataset, files, samples, next, del, doomed, ghosts>>
        /\ watcher' = [pc |-> "idle", ds |-> dataset, path |-> 0, file |-> 0, doc |-> <<>>]
        /\ dataset # 0
    BY <1>3 DEF StartWatcher, NoWatcher, dbVars, marks
  <2>2. WatcherEnters'
    BY <2>1 DEF WatcherEnters, Fields
  <2> QED BY <1>2, <2>1, <2>2
<1>4. CASE StopWatcher
  <2>1. /\ UNCHANGED <<disk, dataset, files, samples, next, del, doomed, ghosts>>
        /\ watcher' = [pc |-> "none", ds |-> 0, path |-> 0, file |-> 0, doc |-> <<>>]
    BY <1>4 DEF StopWatcher, NoWatcher, dbVars, marks
  <2>2. WatcherEnters'
    BY <2>1 DEF WatcherEnters, Fields
  <2> QED BY <1>2, <2>1, <2>2
<1>5. ASSUME NEW p \in Paths, FindFile(p) PROVE ServiceInv'
  <2>1. /\ UNCHANGED <<disk, dataset, files, samples, next, del, doomed, ghosts>>
        /\ watcher.pc = "idle"
        /\ watcher' = [pc |-> "found", ds |-> watcher.ds, path |-> p, file |-> watcher.file,
                        doc |-> watcher.doc]
    BY <1>5 DEF FindFile, Fields, dbVars, marks
  <2>2. \A f \in DOMAIN files : files[f].ds = watcher.ds => files[f].path # p
    BY <1>5 DEF FindFile, FilesIn
  <2>3. WatcherEnters'
    BY <2>1, <2>2 DEF WatcherEnters
  <2> QED BY <1>2, <2>1, <2>3
<1> QED BY <1>1, <1>3, <1>4, <1>5

LEMMA InsertFileStep ==
  ASSUME ServiceInv, InsertFile
  PROVE  ServiceInv'
<1> USE DEF ServiceInv
<1>0. /\ watcher.pc = "found"
      /\ UNCHANGED <<disk, dataset, samples, del, doomed>>
  BY DEF InsertFile
<1>1. CASE CannotOpen(watcher.path)
  <2>1. /\ UNCHANGED <<files, next, ghosts>>
        /\ watcher' = [pc |-> "exited", ds |-> watcher.ds, path |-> watcher.path,
                        file |-> watcher.file, doc |-> watcher.doc]
    BY <1>1 DEF InsertFile, Fields
  <2>2. Fields'
    BY <1>0, <2>1 DEF Fields
  <2>3. RowsAgree' /\ DeletionOn' /\ OnDisk'
    BY <1>0, <2>1 DEF RowsAgree, DeletionOn, OnDisk
  <2>4. WatcherEnters'
    BY <2>1 DEF WatcherEnters
  <2> QED BY <2>2, <2>3, <2>4
<1>2. CASE ~ CannotOpen(watcher.path)
  <2> DEFINE f == next.file
             row == [ds |-> watcher.ds, path |-> watcher.path, updated_at |-> watcher.path,
                     number_of_samples |-> GetNumberOfSamples(disk[watcher.path])]
             again == del.pc = "unlink" /\ Head(del.paths) = watcher.path
  <2>1. /\ files' = With(files, [x \in {f} |-> row])
        /\ next' = [ds |-> next.ds, file |-> next.file + 1, sample |-> next.sample]
        /\ watcher' = [pc |-> "filed", ds |-> watcher.ds, path |-> watcher.path, file |-> f,
                        doc |-> disk[watcher.path]]
        /\ ghosts' = IF again THEN ghosts \cup {f} ELSE ghosts
    BY <1>2 DEF InsertFile, Fields
  <2>2. /\ f \in Nat \ {0} /\ f \notin DOMAIN files /\ f \in 1 .. next'.file - 1
        /\ 1 .. next.file - 1 \subseteq 1 .. next'.file - 1 /\ next'.ds = next.ds
        /\ DOMAIN files \subseteq 1 .. next.file - 1
        /\ \A x \in 1 .. next.file - 1 : x # f
    BY <2>1 DEF Fields, RowsAgree
  <2> HIDE DEF f
  <2>3. /\ DOMAIN files' = DOMAIN files \cup {f} /\ files'[f] = row
        /\ \A x \in DOMAIN files : files'[x] = files[x]
    <3> HIDE DEF row
    <3> QED BY <2>1, <2>2 DEF With
  <2>4. row.ds = watcher.ds /\ row.path = watcher.path
        /\ row = [ds |-> row.ds, path |-> row.path, updated_at |-> row.updated_at,
                  number_of_samples |-> row.number_of_samples]
    OBVIOUS
  <2>5. /\ watcher.ds \in 1 .. next.ds - 1 /\ watcher.path \in Paths
        /\ \A x \in DOMAIN files :
             files[x].ds = watcher.ds => files[x].path # watcher.path
    BY <1>0 DEF WatcherEnters
  <2>6. watcher.path \in DOMAIN disk
    BY <1>2 DEF CannotOpen
  <2> HIDE DEF row
  <2>7. Fields'
    BY <1>0, <2>1 DEF Fields, f
  <2>8. RowsAgree'
    <3>1. DOMAIN files' \subseteq 1 .. next'.file - 1
      BY <2>2, <2>3
    <3>2. \A x \in DOMAIN files' :
            /\ files'[x] = [ds |-> files'[x].ds, path |-> files'[x].path,
                                updated_at |-> files'[x].updated_at,
                                number_of_samples |-> files'[x].number_of_samples]
            /\ files'[x].ds \in 1 .. next'.ds - 1 /\ files'[x].path \in Paths
      BY <2>2, <2>3, <2>4, <2>5 DEF RowsAgree
    <3>3. \A x, y \in DOMAIN files' :
            files'[x].ds = files'[y].ds /\ files'[x].path = files'[y].path => x = y
      BY <2>3, <2>4, <2>5 DEF RowsAgree
    <3>4. \A s \in DOMAIN samples' :
            /\ samples'[s].file \in 1 .. next'.file - 1
            /\ samples'[s].file \in DOMAIN files' =>
                 files'[samples'[s].file].ds = samples'[s].ds
      BY <1>0, <2>2, <2>3 DEF RowsAgree
    <3> QED BY <3>1, <3>2, <3>3, <3>4 DEF RowsAgree
  <2>9. WatcherEnters'
    BY <2>1, <2>2, <2>3, <2>4, <2>5 DEF WatcherEnters
  <2>10. DeletionOn'
    <3>1. /\ del.pc \in {"idle"} \cup FilePcs \cup DatasetPcs
          /\ del.pc # "idle" => del.ds = dataset /\ dataset # 0
          /\ del.pc \in DatasetPcs => del.ds \in doomed
      BY DEF DeletionOn
    <3>2. del.pc \in FilePcs =>
            /\ del.ids \in Seq(1 .. next.file - 1) /\ del.ids \in Seq(1 .. next'.file - 1)
            /\ del.paths \in Seq(Paths) /\ Len(del.ids) = Len(del.paths) /\ del.ids # <<>>
      <4> SUFFICES ASSUME del.pc \in FilePcs PROVE del.ids \in Seq(1 .. next'.file - 1)
        BY DEF DeletionOn
      <4> DEFINE A == 1 .. next.file - 1
                 B == 1 .. next'.file - 1
      <4>1. del.ids \in Seq(A) /\ A \subseteq B
        BY <2>2 DEF DeletionOn
      <4> HIDE DEF A, B
      <4>2. del.ids \in Seq(B)
        BY <4>1, SeqMonotonic
      <4> QED BY <4>2 DEF B
    <3>3. del.pc \in FilePcs =>
            \A i \in 1 .. Len(del.ids) : del.ids[i] \in DOMAIN files' =>
              /\ files'[del.ids[i]].ds = del.ds
              /\ UnorderedQueries \/ files'[del.ids[i]].path = del.paths[i]
      <4> SUFFICES ASSUME del.pc \in FilePcs, NEW i \in 1 .. Len(del.ids)
                   PROVE  del.ids[i] \in DOMAIN files' =>
                            /\ files'[del.ids[i]].ds = del.ds
                            /\ UnorderedQueries \/ files'[del.ids[i]].path = del.paths[i]
        OBVIOUS
      <4>1. del.ids[i] \in 1 .. next.file - 1
        <5> DEFINE A == 1 .. next.file - 1
        <5>1. del.ids \in Seq(A)
          BY <3>2
        <5> HIDE DEF A
        <5>2. del.ids[i] \in A
          BY <5>1
        <5> QED BY <5>2 DEF A
      <4>2. del.ids[i] # f
        BY <2>2, <4>1
      <4> QED BY <2>3, <4>2 DEF DeletionOn
    <3>4. ~UnorderedQueries /\ del.pc = "unlink" =>
            \A x \in DOMAIN files' :
              files'[x].ds = del.ds /\ files'[x].path = Head(del.paths) => x \in ghosts'
      BY <2>1, <2>3, <2>4 DEF DeletionOn
    <3> QED BY <1>0, <3>1, <3>2, <3>3, <3>4 DEF DeletionOn
  <2>11. OnDisk'
    BY <1>0, <2>1, <2>3, <2>4, <2>6 DEF OnDisk
  <2> QED BY <2>7, <2>8, <2>9, <2>10, <2>11
<1> QED BY <1>1, <1>2

LEMMA InsertSamplesStep ==
  ASSUME ServiceInv, InsertSamples
  PROVE  ServiceInv'
<1> USE DEF ServiceInv
<1>0. /\ watcher.pc = "filed"
      /\ UNCHANGED <<disk, dataset, files, del, doomed, ghosts>>
  BY DEF InsertSamples
<1>1. \E labels, new :
        /\ samples' = With(samples, [s \in new |->
             [ds |-> watcher.ds, file |-> watcher.file, index |-> s - next.sample,
              label |-> labels[(s - next.sample) + 1]]])
        /\ next' = [next EXCEPT !.sample = @ + Len(labels)]
        /\ watcher' = [watcher EXCEPT !.pc = "idle", !.path = 0, !.file = 0, !.doc = <<>>]
  BY DEF InsertSamples
<1>2. /\ next'.ds = next.ds /\ next'.file = next.file
      /\ next' = [ds |-> next'.ds, file |-> next'.file, sample |-> next'.sample]
      /\ watcher' = [pc |-> "idle", ds |-> watcher.ds, path |-> 0, file |-> 0, doc |-> <<>>]
  BY <1>1 DEF Fields
<1>3. \A s \in DOMAIN samples' :
        \/ s \in DOMAIN samples /\ samples'[s] = samples[s]
        \/ samples'[s].ds = watcher.ds /\ samples'[s].file = watcher.file
  BY <1>1 DEF With
<1>4. Fields'
  BY <1>0, <1>2 DEF Fields
<1>5. RowsAgree'
  BY <1>0, <1>2, <1>3 DEF RowsAgree, WatcherEnters
<1>6. WatcherEnters'
  BY <1>0, <1>2 DEF WatcherEnters
<1>7. DeletionOn' /\ OnDisk'
  BY <1>0, <1>2 DEF DeletionOn, OnDisk
<1> QED BY <1>4, <1>5, <1>6, <1>7
-----------------------------------------------------------------------------
(* The deletion of data, file by file.                                     *)
LEMMA DeletionStarts ==
  ASSUME ServiceInv, NEW keys, DeleteData(keys)
  PROVE  ServiceInv'
<1> USE DEF ServiceInv
<1> DEFINE F == FileIdsForSamples(keys)
           P == {f \in F : f \in DOMAIN files}
<1>0. /\ del.pc = "idle" /\ dataset # 0 /\ P # {}
      /\ UNCHANGED <<disk, dataset, files, samples, next, watcher, doomed, ghosts>>
      /\ \E o \in Orders(F), q \in Orders(P) :
           IF F # P THEN del' = NoDel
           ELSE del' = [NoDel EXCEPT
                  !.pc = "open", !.ds = dataset, !.keys = keys, !.ids = o,
                  !.paths = [i \in DOMAIN q |-> files[q[i]].path]]
  BY DEF DeleteData, DatasetExists, dbVars, marks
<1>1. \A f \in F : \E s \in DOMAIN samples : samples[s].ds = dataset /\ samples[s].file = f
  BY DEF FileIdsForSamples, SamplesIn
<1>2. /\ \A f \in P : f \in DOMAIN files /\ files[f].ds = dataset /\ files[f].path \in Paths
      /\ P \subseteq 1 .. next.file - 1 /\ next.file \in Nat
  BY <1>1 DEF RowsAgree, Fields
<1>3. CASE del' = NoDel
  BY <1>0, <1>3, ServiceKept
<1>4. CASE del' # NoDel
  <2>1. F = P
    BY <1>0, <1>4
  <2> HIDE DEF F, P
  <2>2. PICK o \in Orders(P), q \in Orders(P) :
          del' = [NoDel EXCEPT
                  !.pc = "open", !.ds = dataset, !.keys = keys, !.ids = o,
                  !.paths = [i \in DOMAIN q |-> files[q[i]].path]]
    BY <1>0, <2>1
  <2>3. /\ UnorderedQueries \/ o = q
        /\ o \in Seq(P) /\ q \in Seq(P) /\ Len(o) = Len(q)
        /\ DOMAIN o = 1 .. Len(o) /\ DOMAIN q = 1 .. Len(o) /\ o # <<>>
    BY <1>0, <1>2, OneOrder
  <2> DEFINE ps == [i \in 1 .. Len(o) |-> files[q[i]].path]
             A == 1 .. next.file - 1
  <2>4. del' = [pc |-> "open", ds |-> dataset, keys |-> keys, ids |-> o, paths |-> ps, count |-> 0]
    BY <2>2, <2>3 DEF NoDel
  <2>5. o \in Seq(A)
    <3> HIDE DEF A
    <3>1. P \subseteq A
      BY <1>2 DEF A
    <3> QED BY <2>3, <3>1, SeqMonotonic
  <2>6. \A i \in 1 .. Len(o) : o[i] \in P /\ q[i] \in P
    BY <2>3
  <2>7. Len(o) \in Nat
    BY <2>3
  <2>8. ps \in Seq(Paths) /\ Len(ps) = Len(o)
    <3> DEFINE n == Len(o)
    <3>1. ps = [i \in 1 .. n |-> files[q[i]].path] /\ n \in Nat
      BY <2>7
    <3>2. \A i \in 1 .. n : files[q[i]].path \in Paths
      BY <1>2, <2>6
    <3> HIDE DEF n, ps
    <3>3. ps \in Seq(Paths) /\ Len(ps) = n
      BY <3>1, <3>2
    <3> QED BY <3>3 DEF n
  <2>9. \A i \in 1 .. Len(o) : /\ files[o[i]].ds = dataset
                               /\ UnorderedQueries \/ files[o[i]].path = ps[i]
    BY <1>2, <2>3, <2>6
  <2> HIDE DEF ps
  <2>10. Fields' /\ RowsAgree' /\ WatcherEnters' /\ OnDisk'
    BY <1>0, <2>4 DEF Fields, RowsAgree, WatcherEnters, OnDisk
  <2>11. DeletionOn'
    <3>1. /\ del'.pc = "open" /\ del'.ds = dataset /\ del'.ids = o /\ del'.paths = ps
          /\ o # <<>> /\ o \in Seq(1 .. next'.file - 1)
      BY <1>0, <2>3, <2>4, <2>5 DEF A
    <3>2. \A i \in 1 .. Len(o) :
            /\ files'[o[i]].ds = dataset
            /\ UnorderedQueries \/ files'[o[i]].path = ps[i]
      BY <1>0, <2>9
    <3> QED BY <1>0, <2>8, <3>1, <3>2 DEF DeletionOn, FilePcs, DatasetPcs
  <2> QED BY <2>10, <2>11
<1> QED BY <1>3, <1>4

(* What NextFile leaves of a deletion is again one.                        *)
LEMMA NextFileOn ==
  ASSUME ServiceInv, del.pc \in FilePcs, del' = NextFile,
         UNCHANGED <<dataset, next, doomed>>, DOMAIN files' \subseteq DOMAIN files,
         \A f \in DOMAIN files' :
           files'[f].ds = files[f].ds /\ files'[f].path = files[f].path
  PROVE  /\ DeletionOn'
         /\ del' = [pc |-> del'.pc, ds |-> del'.ds, keys |-> del'.keys, ids |-> del'.ids,
                    paths |-> del'.paths, count |-> del'.count]
<1> USE DEF ServiceInv
<1>1. CASE Len(del.ids) = 1
  BY <1>1 DEF NextFile, NoDel, DeletionOn, FilePcs, DatasetPcs
<1>2. CASE Len(del.ids) # 1
  <2> DEFINE A == 1 .. next.file - 1
  <2>1. del' = [pc |-> "open", ds |-> del.ds, keys |-> del.keys, ids |-> Tail(del.ids),
                paths |-> Tail(del.paths), count |-> del.count]
    BY <1>2 DEF NextFile, Fields
  <2>2. /\ del.ids \in Seq(A) /\ del.paths \in Seq(Paths) /\ Len(del.ids) = Len(del.paths)
        /\ del.ids # <<>>
        /\ \A i \in 1 .. Len(del.ids) : del.ids[i] \in DOMAIN files =>
             /\ files[del.ids[i]].ds = del.ds
             /\ UnorderedQueries \/ files[del.ids[i]].path = del.paths[i]
    BY DEF DeletionOn
  <2> HIDE DEF A
  <2> DEFINE ids == Tail(del.ids)
             ps == Tail(del.paths)
             n == Len(del.ids)
  <2>3. n \in Nat /\ n > 1 /\ del.paths # <<>> /\ n = Len(del.paths)
    <3>1. n \in Nat /\ n # 0 /\ n = Len(del.paths)
      BY <2>2, EmptySeq
    <3>2. del.paths # <<>>
      BY <3>1
    <3> HIDE DEF n
    <3>3. n # 1
      BY <1>2 DEF n
    <3>4. \A m \in Nat : m # 0 /\ m # 1 => m > 1
      OBVIOUS
    <3>5. n > 1
      BY <3>1, <3>3, <3>4, Zenon
    <3> QED BY <3>1, <3>2, <3>5, Zenon
  <2>4. /\ ids \in Seq(A) /\ Len(ids) = n - 1 /\ ps \in Seq(Paths) /\ Len(ps) = n - 1
    BY <2>2, <2>3, HeadTailProperties
  <2>5. \A i \in 1 .. n - 1 :
          i + 1 \in 1 .. n /\ ids[i] = del.ids[i + 1] /\ ps[i] = del.paths[i + 1]
    <3> SUFFICES ASSUME NEW i \in 1 .. n - 1
                 PROVE  /\ i + 1 \in 1 .. n /\ ids[i] = del.ids[i + 1]
                        /\ ps[i] = del.paths[i + 1]
      OBVIOUS
    <3>1. i + 1 \in 1 .. n
      BY <2>3
    <3>2. ids[i] = del.ids[i + 1]
      BY <2>2, <2>3
    <3>3. ps[i] = del.paths[i + 1]
      BY <2>2, <2>3
    <3> QED BY <3>1, <3>2, <3>3
  <2> HIDE DEF ids, ps, n
  <2>6. \A i \in 1 .. Len(ids) : ids[i] \in DOMAIN files' =>
          /\ files'[ids[i]].ds = del.ds
          /\ UnorderedQueries \/ files'[ids[i]].path = ps[i]
    <3> SUFFICES ASSUME NEW i \in 1 .. n - 1, ids[i] \in DOMAIN files'
                 PROVE  /\ files'[ids[i]].ds = del.ds
                        /\ UnorderedQueries \/ files'[ids[i]].path = ps[i]
      BY <2>4
    <3>1. i + 1 \in 1 .. n /\ ids[i] = del.ids[i + 1] /\ ps[i] = del.paths[i + 1]
      BY <2>5
    <3>2. /\ files[del.ids[i + 1]].ds = del.ds
          /\ UnorderedQueries \/ files[del.ids[i + 1]].path = del.paths[i + 1]
      BY <2>2, <3>1 DEF n
    <3> QED BY <3>1, <3>2
  <2>7. del.ds = dataset /\ dataset # 0 /\ ids # <<>>
    BY <2>3, <2>4 DEF DeletionOn, FilePcs
  <2>8. /\ del'.pc = "open" /\ del'.ds = del.ds /\ del'.ids = ids /\ del'.paths = ps
        /\ del' = [pc |-> del'.pc, ds |-> del'.ds, keys |-> del'.keys, ids |-> del'.ids,
                   paths |-> del'.paths, count |-> del'.count]
    BY <2>1 DEF ids, ps
  <2>9. ids \in Seq(1 .. next'.file - 1)
    BY <2>4 DEF A
  <2>10. DeletionOn'
    BY <2>4, <2>6, <2>7, <2>8, <2>9 DEF DeletionOn, FilePcs, DatasetPcs
  <2> QED BY <2>8, <2>10
<1> QED BY <1>1, <1>2

(* Rows that keep their dataset and their path, and may go.                *)
LEMMA RowsStay ==
  ASSUME ServiceInv, UNCHANGED <<dataset, next, watcher, doomed, ghosts>>,
         DOMAIN disk' = DOMAIN disk,
         DOMAIN files' \subseteq DOMAIN files,
         \A f \in DOMAIN files' :
           /\ files'[f] = [ds |-> files[f].ds, path |-> files[f].path,
                               updated_at |-> files[f].updated_at,
                               number_of_samples |-> files'[f].number_of_samples]
           /\ files'[f].ds = files[f].ds /\ files'[f].path = files[f].path,
         DOMAIN samples' \subseteq DOMAIN samples,
         \A s \in DOMAIN samples' : samples'[s] = samples[s]
  PROVE  RowsAgree' /\ WatcherEnters' /\ OnDisk'
<1> USE DEF ServiceInv
<1>1. RowsAgree'
  <2>1. \A f \in DOMAIN files' :
          /\ f \in 1 .. next.file - 1
          /\ files'[f] = [ds |-> files'[f].ds, path |-> files'[f].path,
                              updated_at |-> files'[f].updated_at,
                              number_of_samples |-> files'[f].number_of_samples]
          /\ files'[f].ds \in 1 .. next.ds - 1 /\ files'[f].path \in Paths
    BY DEF RowsAgree
  <2>2. \A f, g \in DOMAIN files' :
          files'[f].ds = files'[g].ds /\ files'[f].path = files'[g].path => f = g
    BY DEF RowsAgree
  <2>3. \A s \in DOMAIN samples' :
          /\ samples'[s].file \in 1 .. next.file - 1
          /\ samples'[s].file \in DOMAIN files' =>
               files'[samples'[s].file].ds = samples'[s].ds
    BY DEF RowsAgree
  <2> QED BY <2>1, <2>2, <2>3 DEF RowsAgree
<1>2. WatcherEnters'
  BY DEF WatcherEnters
<1>3. OnDisk'
  BY DEF OnDisk
<1> QED BY <1>1, <1>2, <1>3

LEMMA DeletionKept ==
  ASSUME ServiceInv, UNCHANGED <<dataset, files, next, doomed, ghosts>>,
         \/ del.pc = "open" /\ \E n : del' = [del EXCEPT !.pc = "rows", !.count = n]
         \/ del.pc = "rows" /\ del' = [del EXCEPT !.pc = "deleted"]
  PROVE  /\ DeletionOn'
         /\ del' = [pc |-> del'.pc, ds |-> del'.ds, keys |-> del'.keys, ids |-> del'.ids,
                    paths |-> del'.paths, count |-> del'.count]
<1> USE DEF ServiceInv
<1>1. /\ del'.pc \in {"rows", "deleted"} /\ del'.ds = del.ds /\ del'.ids = del.ids
      /\ del'.paths = del.paths /\ del.pc \in {"open", "rows"}
      /\ del' = [pc |-> del'.pc, ds |-> del'.ds, keys |-> del'.keys, ids |-> del'.ids,
                 paths |-> del'.paths, count |-> del'.count]
  BY DEF Fields
<1>2. DeletionOn'
  BY <1>1 DEF DeletionOn, FilePcs, DatasetPcs
<1> QED BY <1>1, <1>2

LEMMA DeleteFromFileStep ==
  ASSUME ServiceInv, DeleteFromFile
  PROVE  ServiceInv'
<1>0. /\ del.pc = "open"
      /\ UNCHANGED <<dataset, files, samples, next, watcher, doomed, ghosts>>
  BY DEF DeleteFromFile, dbVars, marks
<1>1. CASE del' = NoDel /\ UNCHANGED disk
  BY <1>0, <1>1, ServiceKept
<1>2. CASE ~(del' = NoDel /\ UNCHANGED disk)
  <2>1. /\ \E p, x : disk' = [disk EXCEPT ![p] = x]
        /\ \E n : del' = [del EXCEPT !.pc = "rows", !.count = n]
    BY <1>2 DEF DeleteFromFile
  <2>2. DOMAIN disk' = DOMAIN disk
    BY <2>1
  <2>4. /\ DeletionOn'
        /\ del' = [pc |-> del'.pc, ds |-> del'.ds, keys |-> del'.keys, ids |-> del'.ids,
                   paths |-> del'.paths, count |-> del'.count]
    BY <1>0, <2>1, DeletionKept
  <2>5. Fields'
    BY <1>0, <2>4 DEF ServiceInv, Fields
  <2>6. RowsAgree' /\ WatcherEnters' /\ OnDisk'
    BY <1>0, <2>2 DEF ServiceInv, RowsAgree, WatcherEnters, OnDisk
  <2> QED BY <2>4, <2>5, <2>6 DEF ServiceInv
<1> QED BY <1>1, <1>2

LEMMA DeleteRowsStep ==
  ASSUME ServiceInv, DeleteRows
  PROVE  ServiceInv'
<1>0. /\ del.pc = "rows" /\ del' = [del EXCEPT !.pc = "deleted"]
      /\ samples' = Without(samples, DelKeys)
      /\ UNCHANGED <<disk, dataset, files, next, watcher, doomed, ghosts>>
  BY DEF DeleteRows, marks
<1>1. /\ DeletionOn'
      /\ del' = [pc |-> del'.pc, ds |-> del'.ds, keys |-> del'.keys, ids |-> del'.ids,
                 paths |-> del'.paths, count |-> del'.count]
  BY <1>0, DeletionKept
<1>2. Fields'
  BY <1>0, <1>1 DEF ServiceInv, Fields
<1>3. DOMAIN samples' \subseteq DOMAIN samples
      /\ \A s \in DOMAIN samples' : samples'[s] = samples[s]
  BY <1>0 DEF Without
<1>4. RowsAgree' /\ WatcherEnters' /\ OnDisk'
  BY <1>0, <1>3 DEF ServiceInv, RowsAgree, WatcherEnters, OnDisk
<1> QED BY <1>1, <1>2, <1>4 DEF ServiceInv

LEMMA DeleteFileRowStep ==
  ASSUME ServiceInv, DeleteFileRow
  PROVE  ServiceInv'
<1> DEFINE f == Head(del.ids)
           left == files[f].number_of_samples - del.count
           Whole == del' = [pc |-> del'.pc, ds |-> del'.ds, keys |-> del'.keys, ids |-> del'.ids,
                            paths |-> del'.paths, count |-> del'.count]
<1>0. /\ del.pc = "deleted" /\ del.pc \in FilePcs
      /\ UNCHANGED <<disk, dataset, samples, next, watcher, doomed, ghosts>>
      /\ IF f \notin DOMAIN files THEN del' = NextFile /\ UNCHANGED files
         ELSE IF left = 0
         THEN /\ files' = Without(files, {f})
              /\ del' = [del EXCEPT !.pc = "unlink"]
         ELSE /\ files' = [files EXCEPT ![f].number_of_samples = left]
              /\ del' = NextFile
  BY DEF DeleteFileRow, marks, FilePcs
<1> HIDE DEF f, left
<1>1. /\ DOMAIN files' \subseteq DOMAIN files
      /\ \A x \in DOMAIN files' :
           /\ files'[x] = [ds |-> files[x].ds, path |-> files[x].path,
                               updated_at |-> files[x].updated_at,
                               number_of_samples |-> files'[x].number_of_samples]
           /\ files'[x].ds = files[x].ds /\ files'[x].path = files[x].path
  <2>1. \A x \in DOMAIN files :
          files[x] = [ds |-> files[x].ds, path |-> files[x].path,
                          updated_at |-> files[x].updated_at,
                          number_of_samples |-> files[x].number_of_samples]
    BY DEF ServiceInv, RowsAgree
  <2>2. CASE f \notin DOMAIN files
    BY <1>0, <2>1, <2>2
  <2>3. CASE f \in DOMAIN files /\ left = 0
    BY <1>0, <2>1, <2>3 DEF Without
  <2>4. CASE f \in DOMAIN files /\ left # 0
    <3>1. files' = [files EXCEPT ![f].number_of_samples = left]
      BY <1>0, <2>4
    <3> QED BY <2>1, <2>4, <3>1
  <2> QED BY <2>2, <2>3, <2>4
<1>2. RowsAgree' /\ WatcherEnters' /\ OnDisk'
  BY <1>0, <1>1, RowsStay
<1>3. DeletionOn' /\ Whole
  <2>1. CASE del' = NextFile
    BY <1>0, <1>1, <2>1, NextFileOn
  <2>2. CASE f \in DOMAIN files /\ left = 0
    <3>1. /\ DOMAIN files' = DOMAIN files \ {f}
          /\ \A x \in DOMAIN files' : files'[x] = files[x]
          /\ del' = [pc |-> "unlink", ds |-> del.ds, keys |-> del.keys, ids |-> del.ids,
                     paths |-> del.paths, count |-> del.count]
      BY <1>0, <2>2 DEF Without, ServiceInv, Fields
    <3>2. /\ del.ids # <<>> /\ del.ids \in Seq(1 .. next.file - 1) /\ del.paths \in Seq(Paths)
          /\ Len(del.ids) = Len(del.paths) /\ del.ds = dataset /\ dataset # 0
          /\ \A i \in 1 .. Len(del.ids) : del.ids[i] \in DOMAIN files =>
               /\ files[del.ids[i]].ds = del.ds
               /\ UnorderedQueries \/ files[del.ids[i]].path = del.paths[i]
      BY <1>0 DEF ServiceInv, DeletionOn
    <3>3. files[f].ds = del.ds /\ (UnorderedQueries \/ files[f].path = Head(del.paths))
      <4>1. Len(del.ids) \in Nat \ {0}
        BY <3>2, EmptySeq
      <4>2. 1 \in 1 .. Len(del.ids) /\ f = del.ids[1] /\ Head(del.paths) = del.paths[1]
        BY <3>2, <4>1 DEF f
      <4> QED BY <2>2, <3>2, <4>2
    <3>4. UnorderedQueries \/ \A x \in DOMAIN files' :
            ~(files'[x].ds = del.ds /\ files'[x].path = Head(del.paths))
      BY <2>2, <3>1, <3>3 DEF ServiceInv, RowsAgree
    <3>5. DeletionOn'
      BY <1>0, <3>1, <3>2, <3>4 DEF DeletionOn, FilePcs, DatasetPcs
    <3> QED BY <3>1, <3>5
  <2> QED BY <1>0, <2>1, <2>2
<1>4. Fields'
  BY <1>0, <1>3 DEF ServiceInv, Fields
<1> QED BY <1>2, <1>3, <1>4 DEF ServiceInv

(* The file goes when at most rows entered in the meantime name it.        *)
LEMMA UnlinkStep ==
  ASSUME ServiceInv, Unlink
  PROVE  ServiceInv'
<1>0. /\ del.pc = "unlink" /\ del.pc \in FilePcs /\ del' = NextFile
      /\ disk' = Without(disk, {Head(del.paths)})
      /\ UNCHANGED <<dataset, files, samples, next, watcher, doomed, ghosts>>
  BY DEF Unlink, RemoveFromDisk, dbVars, marks, FilePcs
<1>1. /\ DeletionOn'
      /\ del' = [pc |-> del'.pc, ds |-> del'.ds, keys |-> del'.keys, ids |-> del'.ids,
                 paths |-> del'.paths, count |-> del'.count]
  BY <1>0, NextFileOn
<1>2. Fields'
  BY <1>0, <1>1 DEF ServiceInv, Fields
<1>3. RowsAgree' /\ WatcherEnters'
  BY <1>0 DEF ServiceInv, RowsAgree, WatcherEnters
<1>4. DOMAIN disk' = DOMAIN disk \ {Head(del.paths)}
  BY <1>0 DEF Without
<1>5. /\ del.ds = dataset
      /\ UnorderedQueries \/ \A x \in DOMAIN files :
           files[x].ds = del.ds /\ files[x].path = Head(del.paths) => x \in ghosts
  BY <1>0 DEF ServiceInv, DeletionOn
<1>6. OnDisk'
  BY <1>0, <1>4, <1>5 DEF ServiceInv, OnDisk
<1> QED BY <1>1, <1>2, <1>3, <1>6 DEF ServiceInv

(* The deletion of a dataset: from its start on the dataset is doomed.     *)
LEMMA DatasetDeletionStep ==
  ASSUME ServiceInv, DeleteDataset \/ RemoveFile \/ DropTables
  PROVE  ServiceInv'
<1> DEFINE Whole == del' = [pc |-> del'.pc, ds |-> del'.ds, keys |-> del'.keys, ids |-> del'.ids,
                            paths |-> del'.paths, count |-> del'.count]
<1>1. CASE DeleteDataset
  <2>1. /\ \E ps : del' = [pc |-> "remove", ds |-> dataset, keys |-> {}, ids |-> <<>>,
                           paths |-> ps, count |-> 0]
        /\ dataset # 0 /\ doomed' = doomed \cup {dataset}
        /\ UNCHANGED <<disk, dataset, files, samples, next, watcher, ghosts>>
    BY <1>1 DEF DeleteDataset, DatasetExists, NoDel, dbVars
  <2>2. Whole /\ del'.pc = "remove" /\ del'.ds = dataset
    BY <2>1
  <2>3. Fields'
    BY <2>1, <2>2 DEF ServiceInv, Fields
  <2>4. RowsAgree' /\ WatcherEnters' /\ OnDisk'
    BY <2>1 DEF ServiceInv, RowsAgree, WatcherEnters, OnDisk
  <2>5. DeletionOn'
    BY <2>1, <2>2 DEF DeletionOn, FilePcs, DatasetPcs
  <2> QED BY <2>3, <2>4, <2>5 DEF ServiceInv
<1>2. CASE RemoveFile
  <2>1. /\ del.pc = "remove" /\ del'.pc = "remove" /\ del'.ds = del.ds /\ Whole
        /\ UNCHANGED <<dataset, files, samples, next, watcher, doomed, ghosts>>
    BY <1>2 DEF RemoveFile, dbVars, marks, ServiceInv, Fields
  <2>2. del.ds = dataset /\ dataset \in doomed /\ dataset # 0
    BY <2>1 DEF ServiceInv, DeletionOn, DatasetPcs
  <2>3. Fields'
    BY <2>1 DEF ServiceInv, Fields
  <2>4. RowsAgree' /\ WatcherEnters'
    BY <2>1 DEF ServiceInv, RowsAgree, WatcherEnters
  <2>5. OnDisk'
    BY <2>1, <2>2 DEF OnDisk
  <2>6. DeletionOn'
    BY <2>1, <2>2 DEF DeletionOn, FilePcs, DatasetPcs
  <2> QED BY <2>3, <2>4, <2>5, <2>6 DEF ServiceInv
<1>3. CASE DropTables
  <2>0. /\ UNCHANGED <<disk, next, watcher, doomed, ghosts>> /\ del.pc \in DatasetPcs
    BY <1>3 DEF DropTables, marks, DatasetPcs
  <2>1. del.ds = dataset /\ dataset \in doomed /\ dataset # 0
    BY <2>0 DEF ServiceInv, DeletionOn, DatasetPcs
  <2>2. CASE UNCHANGED dataset
    <3>1. /\ DOMAIN files' \subseteq DOMAIN files
          /\ \A f \in DOMAIN files' : files'[f] = files[f]
          /\ DOMAIN samples' \subseteq DOMAIN samples
          /\ \A s \in DOMAIN samples' : samples'[s] = samples[s]
      BY <1>3, <2>1, <2>2 DEF DropTables, Without
    <3>2. /\ del'.pc \in {"files", "dataset"} /\ del'.ds = del.ds /\ Whole
      BY <1>3, <2>1, <2>2 DEF DropTables, ServiceInv, Fields
    <3>3. Fields'
      BY <2>0, <2>2, <3>2 DEF ServiceInv, Fields
    <3>4. RowsAgree'
      BY <2>0, <3>1 DEF ServiceInv, RowsAgree
    <3>5. WatcherEnters'
      BY <2>0, <3>1 DEF ServiceInv, WatcherEnters
    <3>6. OnDisk'
      BY <2>0, <2>1, <2>2 DEF OnDisk
    <3>7. DeletionOn'
      BY <2>0, <2>1, <2>2, <3>2 DEF DeletionOn, FilePcs, DatasetPcs
    <3> QED BY <3>3, <3>4, <3>5, <3>6, <3>7 DEF ServiceInv
  <2>3. CASE dataset' = 0 /\ del' = NoDel /\ UNCHANGED <<files, samples>>
    <3>1. Fields'
      BY <2>0, <2>3 DEF ServiceInv, Fields, NoDel
    <3>2. RowsAgree' /\ WatcherEnters'
      BY <2>0, <2>3 DEF ServiceInv, RowsAgree, WatcherEnters
    <3>3. OnDisk'
      BY <2>0, <2>3 DEF ServiceInv, OnDisk, RowsAgree
    <3>4. DeletionOn'
      BY <2>3 DEF DeletionOn, FilePcs, DatasetPcs, NoDel
    <3> QED BY <3>1, <3>2, <3>3, <3>4 DEF ServiceInv
  <2> QED BY <1>3, <2>2, <2>3 DEF DropTables
<1> QED BY <1>1, <1>2, <1>3

LEMMA ServiceInit == SSInit => ServiceInv
<1> SUFFICES ASSUME SSInit PROVE ServiceInv
  OBVIOUS
<1>1. /\ dataset = 0 /\ files = <<>> /\ samples = <<>>
      /\ next = [ds |-> 1, file |-> 1, sample |-> 1]
      /\ watcher = NoWatcher /\ del = NoDel
  BY DEF SSInit
<1>2. Fields
  BY <1>1 DEF Fields, NoWatcher, NoDel
<1>3. RowsAgree /\ OnDisk
  BY <1>1 DEF RowsAgree, OnDisk
<1>4. WatcherEnters /\ DeletionOn
  BY <1>1 DEF WatcherEnters, DeletionOn, FilePcs, DatasetPcs, NoWatcher, NoDel
<1> QED BY <1>2, <1>3, <1>4 DEF ServiceInv

LEMMA ServiceNext ==
  ASSUME ServiceInv, [SSNext]_ssVars
  PROVE  ServiceInv'
<1>1. CASE UNCHANGED ssVars
  BY <1>1, ServiceKept DEF ssVars, dbVars, marks
<1>2. CASE SSNext
  BY <1>2, RequestStep, WatcherStep, InsertFileStep, InsertSamplesStep, DeletionStarts,
     DeleteFromFileStep, DeleteRowsStep, DeleteFileRowStep, UnlinkStep, DatasetDeletionStep
     DEF SSNext
<1> QED BY <1>1, <1>2

(* Where queries return rows in one order, every file that the database    *)
(* names is on disk -- but for a file a watcher entered again during its   *)
(* deletion, or in a dataset whose deletion was begun -- for any files,    *)
(* formats, numbers of threads, requests and ends of the process.          *)
THEOREM FilesStayOnDisk ==
  ASSUME ~UnorderedQueries
  PROVE  SSSpec => []FilesOnDisk
<1>1. SSInit => ServiceInv
  BY ServiceInit
<1>2. ServiceInv /\ [SSNext]_ssVars => ServiceInv'
  BY ServiceNext
<1>3. ServiceInv => FilesOnDisk
  BY DEF ServiceInv, OnDisk, FilesOnDisk, FilesIn
<1> QED BY <1>1, <1>2, <1>3, PTL DEF SSSpec
-----------------------------------------------------------------------------
(* GetDataPerWorker: the workers' shares of the samples are cut from the   *)
(* sum of the counts in table files.  First what Partition cuts.           *)

(* The position after which the share of worker w begins.                  *)
ShareFrom(w, n, total) ==
  w * (total \div n) + (IF w < total % n THEN w ELSE total % n)

(* A share ends where the next one begins.                                 *)
LEMMA ShareIsNext ==
  ASSUME NEW n \in Nat \ {0}, NEW total \in Nat, NEW w \in 0 .. n - 1
  PROVE  /\ ShareFrom(w, n, total) \in Nat
         /\ Partition(w, n, total).start = ShareFrom(w, n, total)
         /\ Partition(w, n, total).limit \in Nat
         /\ Partition(w, n, total).start + Partition(w, n, total).limit = ShareFrom(w + 1, n, total)
<1> DEFINE share == total \div n
           over == total % n
<1>1. share \in Nat /\ over \in 0 .. n - 1
  BY DivMod
<1>2. Partition(w, n, total) = IF w < over THEN [start |-> w * (share + 1), limit |-> share + 1]
                               ELSE [start |-> over * (share + 1) + (w - over) * share, limit |-> share]
  BY DEF Partition
<1>3. /\ ShareFrom(w, n, total) = w * share + (IF w < over THEN w ELSE over)
      /\ ShareFrom(w + 1, n, total) = (w + 1) * share + (IF w + 1 < over THEN w + 1 ELSE over)
  BY DEF ShareFrom
<1> HIDE DEF share, over
<1>4. (w + 1) * share = w * share + share /\ w * share \in Nat
  BY <1>1, Distribute
<1>5. CASE w < over
  <2>1. w * (share + 1) = w * share + w
    BY <1>1, Distribute
  <2> QED BY <1>1, <1>2, <1>3, <1>4, <1>5, <2>1
<1>6. CASE over <= w
  <2>1. w - over \in Nat /\ over + (w - over) = w /\ over \in Nat
    BY <1>1, <1>6
  <2>2. (over + (w - over)) * share = over * share + (w - over) * share
        /\ (w - over) * share \in Nat /\ over * share \in Nat
    BY <1>1, <2>1, Distribute
  <2>3. over * (share + 1) = over * share + over
    BY <1>1, <2>1, Distribute
  <2> QED BY <1>1, <1>2, <1>3, <1>4, <1>6, <2>1, <2>2, <2>3
<1> QED BY <1>1, <1>5, <1>6

(* The shares go from the first position to the last, in the order of the  *)
(* workers.                                                                *)
LEMMA SharesAscend ==
  ASSUME NEW n \in Nat \ {0}, NEW total \in Nat
  PROVE  /\ ShareFrom(0, n, total) = 0 /\ ShareFrom(n, n, total) = total
         /\ \A v, w \in 0 .. n : v <= w => ShareFrom(v, n, total) <= ShareFrom(w, n, total)
         /\ \A w \in 0 .. n : ShareFrom(w, n, total) \in Nat
<1> DEFINE share == total \div n
           over == total % n
<1>1. share \in Nat /\ over \in 0 .. n - 1 /\ share * n \in Nat /\ total = share * n + over
  BY DivMod
<1>2. \A w : ShareFrom(w, n, total) = w * share + (IF w < over THEN w ELSE over)
  BY DEF ShareFrom
<1> HIDE DEF share, over
<1>3. ShareFrom(0, n, total) = 0 /\ ShareFrom(n, n, total) = total
  <2>1. n * share = share * n /\ 0 * share = 0
    BY <1>1
  <2> QED BY <1>1, <1>2, <2>1
<1>4. ASSUME NEW v \in 0 .. n, NEW w \in 0 .. n, v <= w
      PROVE  ShareFrom(v, n, total) <= ShareFrom(w, n, total)
  <2>1. w - v \in Nat /\ v + (w - v) = w
    BY <1>4
  <2>2. (v + (w - v)) * share = v * share + (w - v) * share
        /\ v * share \in Nat /\ (w - v) * share \in Nat
    BY <1>1, <2>1, Distribute
  <2> QED BY <1>1, <1>2, <1>4, <2>1, <2>2
<1>5. ASSUME NEW w \in 0 .. n PROVE ShareFrom(w, n, total) \in Nat
  <2>1. w * share \in Nat
    BY <1>1
  <2> QED BY <1>1, <1>2, <2>1
<1> QED BY <1>3, <1>4, <1>5

(* The shares of n workers hold every position once.                       *)
InShare(k, w, n, total) ==
  LET part == Partition(w, n, total) IN k \in part.start + 1 .. part.start + part.limit

LEMMA SharesTile ==
  ASSUME NEW n \in Nat \ {0}, NEW total \in Nat, NEW k \in 1 .. total
  PROVE  /\ \E w \in 0 .. n - 1 : InShare(k, w, n, total)
         /\ \A v, w \in 0 .. n - 1 :
              InShare(k, v, n, total) /\ InShare(k, w, n, total) => v = w
<1> DEFINE from(w) == ShareFrom(w, n, total)
<1>1. \A w \in 0 .. n - 1 : InShare(k, w, n, total) <=> from(w) < k /\ k <= from(w + 1)
  <2> SUFFICES ASSUME NEW w \in 0 .. n - 1
               PROVE  InShare(k, w, n, total) <=> from(w) < k /\ k <= from(w + 1)
    OBVIOUS
  <2>1. /\ from(w) \in Nat /\ Partition(w, n, total).start = from(w)
        /\ Partition(w, n, total).limit \in Nat
        /\ Partition(w, n, total).start + Partition(w, n, total).limit = from(w + 1)
    BY ShareIsNext
  <2> HIDE DEF from
  <2> QED BY <2>1 DEF InShare
<1>2. /\ from(0) = 0 /\ from(n) = total
      /\ \A v, w \in 0 .. n : v <= w => from(v) <= from(w)
      /\ \A w \in 0 .. n : from(w) \in Nat
  BY SharesAscend
<1> HIDE DEF from
<1>3. \E w \in 0 .. n - 1 : from(w) < k /\ k <= from(w + 1)
  <2> DEFINE T == {w \in 0 .. n - 1 : from(w) < k}
  <2>1. 0 \in T /\ T \subseteq 0 .. n - 1
    BY <1>2
  <2>2. Max(T) \in T /\ \A x \in T : x <= Max(T)
    <3>1. 0 \in Int /\ n - 1 \in Int /\ T # {}
      BY <2>1
    <3> HIDE DEF T
    <3> QED BY <2>1, <3>1, MaxBounded
  <2> DEFINE w == Max(T)
  <2>3. w \in 0 .. n - 1 /\ from(w) < k /\ w + 1 \notin T
    <3>1. w \in T /\ \A x \in T : x <= w
      BY <2>2
    <3> HIDE DEF w
    <3>2. w \in 0 .. n - 1 /\ from(w) < k
      BY <3>1
    <3>3. ~(w + 1 <= w)
      BY <3>2
    <3> QED BY <3>1, <3>2, <3>3
  <2> HIDE DEF w
  <2>4. k <= from(w + 1)
    <3>1. CASE w = n - 1
      BY <1>2, <3>1
    <3>2. CASE w # n - 1
      <4>1. w + 1 \in 0 .. n - 1 /\ w + 1 \in 0 .. n
        BY <2>3, <3>2
      <4>2. ~(from(w + 1) < k) /\ from(w + 1) \in Nat
        BY <1>2, <2>3, <4>1
      <4> QED BY <4>2
    <3> QED BY <3>1, <3>2
  <2> QED BY <2>3, <2>4
<1>4. \A v, w \in 0 .. n - 1 : v < w => from(v + 1) <= from(w)
  BY <1>2
<1>5. ASSUME NEW v \in 0 .. n - 1, NEW w \in 0 .. n - 1, v < w,
             from(w) < k, k <= from(v + 1)
      PROVE  FALSE
  <2>1. from(v + 1) <= from(w) /\ from(v + 1) \in Nat /\ from(w) \in Nat
    BY <1>2, <1>4, <1>5
  <2> QED BY <1>5, <2>1
<1> QED BY <1>1, <1>3, <1>5

(* Sorted lists every element of a finite set of numbers once.             *)
LEMMA SortedListsOnce ==
  ASSUME NEW S, IsFiniteSet(S), S \subseteq Nat
  PROVE  /\ DOMAIN Sorted(S) = 1 .. Cardinality(S)
         /\ \A i \in 1 .. Cardinality(S) : Sorted(S)[i] \in S
         /\ \A x \in S : \E i \in 1 .. Cardinality(S) : Sorted(S)[i] = x
         /\ \A i, j \in 1 .. Cardinality(S) : Sorted(S)[i] = Sorted(S)[j] => i = j
<1> DEFINE upto(x) == {y \in S : y <= x}
           rank == [x \in S |-> Cardinality(upto(x))]
           D == 1 .. Cardinality(S)
<1>1. Cardinality(S) \in Nat
  BY FS_CardinalityType
<1>2. \A x \in S : /\ IsFiniteSet(upto(x)) /\ Cardinality(upto(x)) \in D
  <2> SUFFICES ASSUME NEW x \in S PROVE IsFiniteSet(upto(x)) /\ Cardinality(upto(x)) \in D
    OBVIOUS
  <2>1. upto(x) \subseteq S /\ x \in upto(x)
    OBVIOUS
  <2> HIDE DEF upto
  <2>2. IsFiniteSet(upto(x)) /\ Cardinality(upto(x)) <= Cardinality(S)
    BY <2>1, FS_Subset
  <2>3. Cardinality(upto(x)) \in Nat /\ Cardinality(upto(x)) # 0
    BY <2>1, <2>2, FS_CardinalityType, FS_EmptySet
  <2> QED BY <1>1, <2>2, <2>3
<1>3. \A x, y \in S : x < y => Cardinality(upto(x)) < Cardinality(upto(y))
  <2> SUFFICES ASSUME NEW x \in S, NEW y \in S, x < y
               PROVE  Cardinality(upto(x)) < Cardinality(upto(y))
    OBVIOUS
  <2>1. upto(x) \subseteq upto(y) /\ y \in upto(y) /\ y \notin upto(x)
    <3>1. x \in Nat /\ y \in Nat /\ \A z \in S : z \in Nat
      OBVIOUS
    <3>2. \A z \in S : z <= x => z <= y
      BY <3>1
    <3>3. ~(y <= x) /\ y <= y
      BY <3>1
    <3>4. y \in upto(y) /\ y \notin upto(x)
      BY <3>3
    <3> QED BY <3>2, <3>4
  <2>2. IsFiniteSet(upto(x)) /\ IsFiniteSet(upto(y))
    BY <1>2
  <2> HIDE DEF upto
  <2>3. upto(x) # upto(y)
    BY <2>1
  <2> QED BY <2>1, <2>2, <2>3, FS_Subset, FS_CardinalityType
<1>4. rank \in [S -> D] /\ \A x \in S : rank[x] = Cardinality(upto(x))
  <2> HIDE DEF upto, D
  <2> QED BY <1>2
<1> HIDE DEF rank
<1>5. \A x, y \in S : rank[x] = rank[y] => x = y
  <2> SUFFICES ASSUME NEW x \in S, NEW y \in S, rank[x] = rank[y], x # y PROVE FALSE
    OBVIOUS
  <2>1. x < y \/ y < x
    OBVIOUS
  <2>2. rank[x] \in Nat /\ rank[y] \in Nat
    BY <1>1, <1>4
  <2>3. rank[x] < rank[y] \/ rank[y] < rank[x]
    <3> HIDE DEF upto
    <3> QED BY <1>3, <1>4, <2>1
  <2> QED BY <2>2, <2>3
<1>6. \A i \in D : \E x \in S : rank[x] = i
  <2>1. rank \in Injection(S, D)
    BY <1>4, <1>5 DEF Injection, IsInjective
  <2>2. IsFiniteSet(D) /\ Cardinality(D) = Cardinality(S)
    BY <1>1, FS_Interval
  <2> HIDE DEF D
  <2>3. rank \in Surjection(S, D)
    BY <2>1, <2>2, FS_Injection
  <2> QED BY <2>3 DEF Surjection
<1>7. /\ DOMAIN Sorted(S) = D
      /\ \A i \in D : Sorted(S)[i] = CHOOSE x \in S : Cardinality(upto(x)) = i
  BY DEF Sorted
<1> HIDE DEF upto, D
<1>8. \A i \in D : Sorted(S)[i] \in S /\ rank[Sorted(S)[i]] = i
  <2> SUFFICES ASSUME NEW i \in D PROVE Sorted(S)[i] \in S /\ rank[Sorted(S)[i]] = i
    OBVIOUS
  <2>1. PICK x \in S : Cardinality(upto(x)) = i
    BY <1>4, <1>6
  <2>2. Sorted(S)[i] \in S /\ Cardinality(upto(Sorted(S)[i])) = i
    BY <1>7, <2>1
  <2> QED BY <1>4, <2>2
<1>9. \A x \in S : rank[x] \in D /\ Sorted(S)[rank[x]] = x
  BY <1>4, <1>5, <1>8
<1> QED BY <1>7, <1>8, <1>9 DEF D

(* Shares of the sorted samples that hold every position once give every   *)
(* sample to one worker.                                                   *)
LEMMA WorkersShareOnce ==
  ASSUME NEW n \in Nat \ {0}, IsFiniteSet(SamplesIn(dataset)), SamplesIn(dataset) \subseteq Nat,
         GetDatasetSize \in Nat, Cardinality(SamplesIn(dataset)) <= GetDatasetSize
  PROVE  SharedBy(n)
<1> DEFINE S == SamplesIn(dataset)
           rows == Sorted(S)
           total == GetDatasetSize
           last == Cardinality(S)
           D == 1 .. last
<1>1. last \in Nat /\ last <= total
  BY FS_CardinalityType
<1>2. \A w : DataPerWorker(w, n) =
        LET part == Partition(w, n, total)
        IN {rows[i] : i \in (part.start + 1 .. part.start + part.limit) \cap DOMAIN rows}
  BY DEF DataPerWorker, GetDatasetSize
<1>3. /\ DOMAIN rows = D /\ \A i \in D : rows[i] \in S
      /\ \A x \in S : \E i \in D : rows[i] = x
      /\ \A i, j \in D : rows[i] = rows[j] => i = j
  BY SortedListsOnce
<1> HIDE DEF S, rows, total, last
<1>4. \A w : DataPerWorker(w, n) = {rows[i] : i \in {k \in D : InShare(k, w, n, total)}}
  <2>1. \A w : (Partition(w, n, total).start + 1 .. Partition(w, n, total).start +
                 Partition(w, n, total).limit) \cap D = {k \in D : InShare(k, w, n, total)}
    BY DEF InShare
  <2> HIDE DEF D
  <2> QED BY <1>2, <1>3, <2>1
<1>5. \A k \in D : /\ \E w \in 0 .. n - 1 : InShare(k, w, n, total)
                   /\ \A v, w \in 0 .. n - 1 :
                         InShare(k, v, n, total) /\ InShare(k, w, n, total) => v = w
  <2> SUFFICES ASSUME NEW k \in D
               PROVE  /\ \E w \in 0 .. n - 1 : InShare(k, w, n, total)
                      /\ \A v, w \in 0 .. n - 1 :
                           InShare(k, v, n, total) /\ InShare(k, w, n, total) => v = w
    OBVIOUS
  <2>1. k \in 1 .. total /\ total \in Nat
    BY <1>1 DEF total
  <2> QED BY <2>1, SharesTile
<1> HIDE DEF D
<1>6. UNION {DataPerWorker(w, n) : w \in 0 .. n - 1} = S
  BY <1>3, <1>4, <1>5
<1>7. \A w, v \in 0 .. n - 1 : w # v => DataPerWorker(w, n) \cap DataPerWorker(v, n) = {}
  BY <1>3, <1>4, <1>5
<1> QED BY <1>6, <1>7 DEF SharedBy, S
-----------------------------------------------------------------------------
(* Then the counts.  What a deletion took from a file whose row is still   *)
(* to be updated, the file that is being entered, and the files whose      *)
(* counts are exact.                                                       *)
Pending(f) == IF del.pc = "deleted" /\ f = Head(del.ids) THEN del.count ELSE 0
Entering(f) == watcher.pc = "filed" /\ watcher.file = f
Settled(f) == f \notin unfinished /\ ~Entering(f) /\ files[f].ds \notin doomed

(* Ids of samples are handed out once, in ascending order.                 *)
SamplesTyped ==
  /\ next.sample \in Nat \ {0} /\ DOMAIN samples \subseteq 1 .. next.sample - 1
  /\ \A s \in DOMAIN samples : samples[s].ds \in 1 .. next.ds - 1
  /\ \A p \in DOMAIN disk : Len(disk[p]) \in Nat

(* A sample has its file's row, unless its dataset is being deleted.       *)
OwnersStay ==
  \A s \in DOMAIN samples : samples[s].ds \in doomed \/ samples[s].file \in DOMAIN files

(* The count of a file is that of its samples, or runs ahead of it while   *)
(* they are being entered or if they were lost.                            *)
CountHolds(f) ==
  /\ files[f].number_of_samples \in Nat
  /\ files[f].number_of_samples >= Cardinality(SamplesOf(f)) + Pending(f)
  /\ Settled(f) => files[f].number_of_samples = Cardinality(SamplesOf(f)) + Pending(f)
CountsHold == \A f \in DOMAIN files : CountHolds(f)

(* The file being entered has no sample yet, its row counts those that the *)
(* wrapper will read, and no deletion has chosen it.                       *)
EntersWhole ==
  watcher.pc = "filed" =>
    /\ SamplesOf(watcher.file) = {} /\ GetNumberOfSamples(watcher.doc) \in Nat
    /\ watcher.file \in DOMAIN files =>
         files[watcher.file].number_of_samples = GetNumberOfSamples(watcher.doc)
    /\ watcher.ds \in doomed \/ watcher.file \in DOMAIN files
    /\ del.pc \in FilePcs => \A i \in 1 .. Len(del.ids) : del.ids[i] # watcher.file

(* A deletion takes from the count what it takes from the samples.         *)
CountKept ==
  /\ del.pc \in {"rows", "deleted"} => del.count \in Nat
  /\ del.pc = "rows" => del.count = Cardinality(DelKeys)

CountsInv == SamplesTyped /\ OwnersStay /\ CountsHold /\ EntersWhole /\ CountKept

(* There are finitely many samples.                                        *)
LEMMA SamplesCounted ==
  ASSUME SamplesTyped
  PROVE  /\ IsFiniteSet(DOMAIN samples)
         /\ \A S \in SUBSET DOMAIN samples : IsFiniteSet(S) /\ Cardinality(S) \in Nat
<1> DEFINE ids == 1 .. next.sample - 1
<1>1. IsFiniteSet(ids)
  BY FS_Interval DEF SamplesTyped
<1>2. DOMAIN samples \subseteq ids
  BY DEF SamplesTyped
<1> HIDE DEF ids
<1>3. IsFiniteSet(DOMAIN samples)
  BY <1>1, <1>2, FS_Subset
<1> QED BY <1>3, FS_Subset, FS_CardinalityType

(* Steps that leave the rows alone; what is given up half done counts as   *)
(* unfinished.                                                             *)
LEMMA CountsKept ==
  ASSUME CountsInv, UNCHANGED <<files, samples>>,
         next'.sample = next.sample, \A d \in 1 .. next.ds - 1 : d \in 1 .. next'.ds - 1,
         \A p \in DOMAIN disk' : Len(disk'[p]) \in Nat,
         doomed \subseteq doomed', unfinished \subseteq unfinished',
         \/ watcher' = watcher
         \/ /\ watcher'.pc # "filed"
            /\ watcher.pc = "filed" => watcher.file \in unfinished',
         \/ del' = del
         \/ /\ del'.pc # "deleted"
            /\ del'.pc = "rows" => del'.count \in Nat /\ del'.count = Cardinality(DelKeys)'
            /\ del.pc = "deleted" => Head(del.ids) \in unfinished' \/ Head(del.ids) \notin DOMAIN files
            /\ watcher'.pc = "filed" /\ del'.pc \in FilePcs =>
                 \A i \in 1 .. Len(del'.ids) : del'.ids[i] # watcher'.file
  PROVE  CountsInv'
<1>1. SamplesTyped'
  BY DEF CountsInv, SamplesTyped
<1>2. OwnersStay'
  BY DEF CountsInv, OwnersStay
<1>3. CountsHold'
  <2> SUFFICES ASSUME NEW f \in DOMAIN files PROVE CountHolds(f)'
    BY DEF CountsHold
  <2> DEFINE n == files[f].number_of_samples
             c == Cardinality(SamplesOf(f))
  <2>1. CountHolds(f) /\ c \in Nat
    <3>1. SamplesOf(f) \in SUBSET DOMAIN samples
      BY DEF SamplesOf
    <3> QED BY <3>1, SamplesCounted DEF CountsInv, CountsHold
  <2>2. /\ n \in Nat /\ n >= c + Pending(f)
        /\ Settled(f) => n = c + Pending(f)
    BY <2>1 DEF CountHolds
  <2>3. files'[f].number_of_samples = n /\ Cardinality(SamplesOf(f)') = c
    BY DEF SamplesOf
  <2> HIDE DEF n, c
  <2>4. Pending(f) \in Nat
    BY DEF Pending, CountsInv, CountKept
  <2>5. Settled(f)' => Settled(f)
    BY DEF Settled, Entering
  <2>6. CASE del' = del
    <3>1. Pending(f)' = Pending(f)
      BY <2>6 DEF Pending
    <3> QED BY <2>2, <2>3, <2>5, <3>1 DEF CountHolds
  <2>7. CASE del' # del
    <3>1. Pending(f)' = 0
      BY <2>7 DEF Pending
    <3>2. Settled(f)' => Pending(f) = 0
      BY <2>7 DEF Settled, Pending
    <3>3. n >= c + 0 /\ (Settled(f)' => n = c + 0)
      BY <2>1, <2>2, <2>4, <2>5, <3>2
    <3> QED BY <2>2, <2>3, <3>1, <3>3 DEF CountHolds
  <2> QED BY <2>6, <2>7
<1>4. EntersWhole'
  <2> SUFFICES ASSUME watcher'.pc = "filed"
               PROVE  EntersWhole'
    BY DEF EntersWhole
  <2>1. watcher' = watcher /\ watcher.pc = "filed"
    OBVIOUS
  <2>2. SamplesOf(watcher.file)' = SamplesOf(watcher.file)
    BY <2>1 DEF SamplesOf
  <2> QED BY <2>1, <2>2 DEF CountsInv, EntersWhole
<1>5. CountKept'
  <2>1. CASE del' = del
    BY <2>1 DEF CountsInv, CountKept, DelKeys, SamplesOf
  <2>2. CASE del' # del
    BY <2>2 DEF CountKept
  <2> QED BY <2>1, <2>2
<1> QED BY <1>1, <1>2, <1>3, <1>4, <1>5 DEF CountsInv
-----------------------------------------------------------------------------
(* Requests that only read, and the end of the process.                    *)
LEMMA CountsRequestStep ==
  ASSUME CountsInv,
         \/ UNCHANGED ssVars
         \/ AddSampleDatasetPartition
         \/ \E keys \in KeySeqs : Get(keys)
         \/ \E t \in Threads : Query(t) \/ Open(t) \/ SendFile(t)
         \/ GetReturns
         \/ \E from, to \in Paths \cup {-1} : PollFiles(from, to)
         \/ PollSamples \/ PollReturns \/ Crash
  PROVE  CountsInv'
<1> DEFINE Same == UNCHANGED <<disk, files, samples, next, doomed, unfinished, watcher, del>>
           Ends == /\ UNCHANGED <<disk, dbVars>> /\ Down
<1>1. ASSUME Same PROVE CountsInv'
  BY <1>1, CountsKept DEF CountsInv, SamplesTyped
<1>2. ASSUME Ends PROVE CountsInv'
  <2>1. /\ UNCHANGED <<disk, files, samples, next, doomed>>
        /\ watcher' = NoWatcher /\ del' = NoDel
        /\ unfinished' = unfinished \cup (IF watcher.pc = "filed" THEN {watcher.file} ELSE {})
             \cup (IF del.pc \in {"deleted", "unlink"} THEN {Head(del.ids)} ELSE {})
    BY <1>2 DEF Down, dbVars
  <2>2. watcher'.pc # "filed" /\ del'.pc \notin {"rows", "deleted"} /\ del'.pc \notin FilePcs
    BY <2>1 DEF NoWatcher, NoDel, FilePcs
  <2> HIDE DEF Ends
  <2> QED BY <2>1, <2>2, CountsKept DEF CountsInv, SamplesTyped
<1>3. ASSUME AddSampleDatasetPartition PROVE Same
  BY <1>3 DEF AddSampleDatasetPartition, dbVars
<1>4. ASSUME NEW keys, Get(keys) PROVE Same
  BY <1>4 DEF Get, dbVars, marks
<1>5. ASSUME NEW t, Query(t) PROVE Same
  BY <1>5 DEF Query, SetThread, dbVars, marks, counts
<1>6. ASSUME NEW t, Open(t) PROVE Same \/ Ends
  <2>1. UNCHANGED <<watcher, del, marks>> \/ Down
    BY <1>6 DEF Open, Throw
  <2>2. UNCHANGED <<disk, dbVars>>
    BY <1>6 DEF Open
  <2> QED BY <2>1, <2>2 DEF dbVars, marks
<1>7. ASSUME NEW t, SendFile(t) PROVE Same \/ Ends
  <2>1. UNCHANGED <<watcher, del, marks>> \/ Down
    BY <1>7 DEF SendFile, Throw
  <2>2. UNCHANGED <<disk, dbVars>>
    BY <1>7 DEF SendFile
  <2> QED BY <2>1, <2>2 DEF dbVars, marks
<1>8. ASSUME GetReturns \/ PollSamples \/ PollReturns PROVE Same
  BY <1>8 DEF GetReturns, PollSamples, PollReturns, dbVars, marks
<1>9. ASSUME NEW from, NEW to, PollFiles(from, to) PROVE Same
  BY <1>9 DEF PollFiles, dbVars, marks
<1>10. ASSUME Crash PROVE Ends
  BY <1>10 DEF Crash
<1>11. ASSUME UNCHANGED ssVars PROVE Same
  BY <1>11 DEF ssVars, dbVars, marks
<1>12. Same \/ Ends
  <2> HIDE DEF Same, Ends
  <2> QED BY <1>3, <1>4, <1>5, <1>6, <1>7, <1>8, <1>9, <1>10, <1>11
<1> HIDE DEF Same, Ends
<1> QED BY <1>1, <1>2, <1>12

(* The registration of a dataset, the watchdog, and a watcher that finds a *)
(* file or cannot open it.                                                 *)
LEMMA CountsWatcherStep ==
  ASSUME ServiceInv, CountsInv,
         \/ RegisterNewDataset \/ StartWatcher \/ StopWatcher
         \/ \E p \in Paths : FindFile(p)
         \/ InsertFile /\ CannotOpen(watcher.path)
  PROVE  CountsInv'
<1> DEFINE Same == UNCHANGED <<disk, files, samples, doomed, unfinished, del>>
           Leaves == watcher' = watcher \/ (watcher.pc # "filed" /\ watcher'.pc # "filed")
           Counts == /\ next'.sample = next.sample
                     /\ \A d \in 1 .. next.ds - 1 : d \in 1 .. next'.ds - 1
<1>1. Same
  BY DEF RegisterNewDataset, AddDataset, StartWatcher, StopWatcher, FindFile, InsertFile, dbVars, marks
<1>2. Leaves
  <2>1. ASSUME RegisterNewDataset PROVE Leaves
    BY <2>1 DEF RegisterNewDataset
  <2>2. ASSUME StartWatcher \/ StopWatcher PROVE Leaves
    <3>1. watcher.pc \in {"none", "idle", "exited"}
      BY <2>2 DEF StartWatcher, StopWatcher
    <3>2. \/ watcher' = [pc |-> "idle", ds |-> dataset, path |-> 0, file |-> 0, doc |-> <<>>]
          \/ watcher' = [pc |-> "none", ds |-> 0, path |-> 0, file |-> 0, doc |-> <<>>]
      BY <2>2 DEF StartWatcher, StopWatcher, NoWatcher
    <3> QED BY <3>1, <3>2
  <2>3. ASSUME NEW p, FindFile(p) PROVE Leaves
    BY <2>3 DEF FindFile, ServiceInv, Fields
  <2>4. ASSUME InsertFile, CannotOpen(watcher.path) PROVE Leaves
    BY <2>4 DEF InsertFile, ServiceInv, Fields
  <2> QED BY <2>1, <2>2, <2>3, <2>4
<1>3. Counts
  <2>1. next' = next \/ next' = [next EXCEPT !.ds = @ + 1]
    BY DEF RegisterNewDataset, AddDataset, StartWatcher, StopWatcher, FindFile, InsertFile, dbVars
  <2> QED BY <2>1 DEF ServiceInv, Fields
<1> HIDE DEF Same, Leaves, Counts
<1>4. \A p \in DOMAIN disk' : Len(disk'[p]) \in Nat
  BY <1>1 DEF Same, CountsInv, SamplesTyped
<1> QED BY <1>1, <1>2, <1>3, <1>4, CountsKept DEF Same, Leaves, Counts

(* A deletion moves on without a change of the rows.                       *)
LEMMA NextIds ==
  ASSUME ServiceInv, del.pc \in FilePcs, del' = NextFile
  PROVE  /\ del'.pc \notin {"rows", "deleted"}
         /\ del'.pc \in FilePcs =>
              \A i \in 1 .. Len(del'.ids) :
                \E k \in 1 .. Len(del.ids) : del'.ids[i] = del.ids[k]
<1>1. CASE Len(del.ids) = 1
  BY <1>1 DEF NextFile, NoDel, FilePcs
<1>2. CASE Len(del.ids) # 1
  <2> DEFINE A == 1 .. next.file - 1
  <2>1. del'.pc = "open" /\ del'.ids = Tail(del.ids)
    BY <1>2 DEF NextFile, ServiceInv, Fields
  <2>2. del.ids \in Seq(A) /\ del.ids # <<>>
    BY DEF ServiceInv, DeletionOn
  <2> HIDE DEF A
  <2>3. Len(del.ids) \in Nat
    BY <2>2
  <2>4. /\ Len(Tail(del.ids)) = Len(del.ids) - 1
        /\ \A i \in 1 .. Len(Tail(del.ids)) : Tail(del.ids)[i] = del.ids[i + 1]
    BY <2>2, HeadTailProperties
  <2>5. \A i \in 1 .. Len(Tail(del.ids)) : i + 1 \in 1 .. Len(del.ids)
    BY <2>3, <2>4
  <2> QED BY <2>1, <2>4, <2>5
<1> QED BY <1>1, <1>2

(* Deletions begin and files are removed.                                  *)
LEMMA CountsDeletionStep ==
  ASSUME ServiceInv, CountsInv,
         \/ \E keys \in SUBSET SamplesIn(dataset) : DeleteData(keys)
         \/ Unlink \/ DeleteDataset \/ RemoveFile
  PROVE  CountsInv'
<1> DEFINE Same == /\ UNCHANGED <<files, samples, watcher, next, unfinished>>
                   /\ doomed \subseteq doomed'
                   /\ \A p \in DOMAIN disk' : Len(disk'[p]) \in Nat
           Moves == /\ del'.pc \notin {"rows", "deleted"} /\ del.pc # "deleted"
                    /\ watcher.pc = "filed" /\ del'.pc \in FilePcs =>
                         \A i \in 1 .. Len(del'.ids) : del'.ids[i] # watcher.file
<1>1. ASSUME NEW keys, DeleteData(keys) PROVE Same /\ Moves
  <2>1. Same
    BY <1>1 DEF DeleteData, dbVars, marks, CountsInv, SamplesTyped
  <2>2. PICK o, ps :
          /\ o \in Orders(FileIdsForSamples(keys))
          /\ \/ del' = NoDel
             \/ del' = [NoDel EXCEPT !.pc = "open", !.ds = dataset, !.keys = keys, !.ids = o,
                                     !.paths = ps]
    BY <1>1 DEF DeleteData
  <2>3. del'.pc \in {"idle", "open"} /\ (del'.pc = "open" => del'.ids = o)
    <3>1. \/ del' = NoDel
          \/ del' = [pc |-> "open", ds |-> dataset, keys |-> keys, ids |-> o, paths |-> ps,
                     count |-> 0]
      BY <2>2 DEF NoDel
    <3> QED BY <3>1 DEF NoDel
  <2>4. del.pc = "idle"
    BY <1>1 DEF DeleteData
  <2>5. del'.pc = "open" => \A i \in DOMAIN o : o[i] \in FileIdsForSamples(keys)
    BY <2>2 DEF Orders, SetToSeqs
  <2>6. del'.pc = "open" => DOMAIN o = 1 .. Len(o)
    <3>1. \A f \in FileIdsForSamples(keys) : f \in 1 .. next.file - 1
      BY DEF FileIdsForSamples, SamplesIn, ServiceInv, RowsAgree
    <3>2. FileIdsForSamples(keys) \subseteq 1 .. next.file - 1 /\ next.file \in Nat
      BY <3>1 DEF ServiceInv, Fields
    <3> QED BY <3>2, OneOrder
  <2>7. watcher.pc = "filed" => watcher.file \notin FileIdsForSamples(keys)
    BY DEF FileIdsForSamples, SamplesIn, CountsInv, EntersWhole, SamplesOf
  <2>8. del'.pc = "open" => \A i \in 1 .. Len(o) : o[i] \in FileIdsForSamples(keys)
    BY <2>5, <2>6
  <2>9. watcher.pc = "filed" /\ del'.pc \in FilePcs =>
          \A i \in 1 .. Len(del'.ids) : del'.ids[i] # watcher.file
    BY <2>3, <2>7, <2>8 DEF FilePcs
  <2> QED BY <2>1, <2>3, <2>4, <2>9
<1>2. ASSUME Unlink PROVE Same /\ Moves
  <2>1. Same
    BY <1>2 DEF Unlink, RemoveFromDisk, Without, dbVars, marks, CountsInv, SamplesTyped
  <2>2. del.pc = "unlink" /\ del' = NextFile /\ del.pc \in FilePcs
    BY <1>2 DEF Unlink, FilePcs
  <2> QED BY <2>1, <2>2, NextIds DEF CountsInv, EntersWhole
<1>3. ASSUME DeleteDataset PROVE Same /\ Moves
  <2>1. Same
    BY <1>3 DEF DeleteDataset, dbVars, CountsInv, SamplesTyped
  <2>2. del.pc = "idle" /\ del'.pc = "remove"
    BY <1>3 DEF DeleteDataset, NoDel
  <2> QED BY <2>1, <2>2 DEF FilePcs
<1>4. ASSUME RemoveFile PROVE Same /\ Moves
  <2>1. Same
    BY <1>4 DEF RemoveFile, RemoveFromDisk, Without, dbVars, marks, CountsInv, SamplesTyped
  <2>2. del.pc = "remove" /\ del'.pc = "remove"
    BY <1>4 DEF RemoveFile, ServiceInv, Fields
  <2> QED BY <2>1, <2>2 DEF FilePcs
<1> HIDE DEF Same, Moves
<1>5. Same /\ Moves
  BY <1>1, <1>2, <1>3, <1>4
<1> QED BY <1>5, CountsKept DEF Same, Moves
-----------------------------------------------------------------------------
(* A file has a size after delete_samples, too.                            *)
LEMMA DeletedLength ==
  ASSUME NEW file, Len(file) \in Nat, NEW K, Cardinality(K) \in Nat
  PROVE  Len(DeleteSamples(file, K)) \in Nat
<1>1. CASE FileWrapperType = "csv"
  <2> DEFINE m == Len(file) - Cardinality(K)
             e(i) == file[CHOOSE k \in DOMAIN file :
                            /\ k - 1 \notin K
                            /\ Cardinality({j \in 1 .. k : j - 1 \notin K}) = i]
             n == IF m < 0 THEN 0 ELSE m
  <2>1. m \in Int /\ n \in Nat /\ 1 .. m = 1 .. n
    OBVIOUS
  <2>2. DeleteSamples(file, K) = [i \in 1 .. n |-> e(i)]
    BY <1>1, <2>1 DEF DeleteSamples
  <2> HIDE DEF m, n, e
  <2> DEFINE E == {e(i) : i \in 1 .. n}
  <2>3. \A i \in 1 .. n : e(i) \in E
    OBVIOUS
  <2> HIDE DEF E
  <2> DEFINE s == [i \in 1 .. n |-> e(i)]
  <2>4. s \in [1 .. n -> E]
    BY <2>3
  <2> HIDE DEF s
  <2>5. s \in Seq(E)
    BY <2>1, <2>4, SeqDef
  <2>6. Len(s) \in Nat
    BY <2>5
  <2> QED BY <2>2, <2>6 DEF s
<1>2. CASE FileWrapperType # "csv"
  BY <1>2 DEF DeleteSamples
<1> QED BY <1>1, <1>2

(* The rows of a file that a deletion takes are finitely many.             *)
LEMMA DelKeysCounted ==
  ASSUME SamplesTyped
  PROVE  IsFiniteSet(DelKeys) /\ Cardinality(DelKeys) \in Nat
<1>1. DelKeys \in SUBSET DOMAIN samples
  BY DEF DelKeys, SamplesOf
<1> QED BY <1>1, SamplesCounted

(* The samples that a deletion will take are counted before it does.       *)
LEMMA CountsDeleteFromFile ==
  ASSUME ServiceInv, CountsInv, DeleteFromFile
  PROVE  CountsInv'
<1>1. /\ del.pc = "open"
      /\ UNCHANGED <<files, samples, watcher, next, unfinished, doomed>>
  BY DEF DeleteFromFile, dbVars, marks
<1>2. Cardinality(DelKeys) \in Nat
  BY DelKeysCounted DEF CountsInv
<1>3. \A p \in DOMAIN disk' : Len(disk'[p]) \in Nat
  <2>1. \/ disk' = disk
        \/ disk' = [disk EXCEPT ![Head(del.paths)] = DeleteSamples(disk[Head(del.paths)], DelKeys)]
    BY DEF DeleteFromFile
  <2>2. \A p \in DOMAIN disk : Len(disk[p]) \in Nat /\ Len(DeleteSamples(disk[p], DelKeys)) \in Nat
    BY <1>2, DeletedLength DEF CountsInv, SamplesTyped
  <2> QED BY <2>1, <2>2
<1>4. \/ del' = NoDel
      \/ /\ del' = [pc |-> "rows", ds |-> del.ds, keys |-> del.keys, ids |-> del.ids,
                    paths |-> del.paths, count |-> Cardinality(DelKeys)]
         /\ DelKeys' = DelKeys
  <2>1. CASE del' = NoDel
    BY <2>1
  <2>2. CASE del' # NoDel
    <3>1. del' = [del EXCEPT !.pc = "rows", !.count = Cardinality(DelKeys)]
      BY <2>2 DEF DeleteFromFile
    <3>2. del' = [pc |-> "rows", ds |-> del.ds, keys |-> del.keys, ids |-> del.ids,
                  paths |-> del.paths, count |-> Cardinality(DelKeys)]
      BY <3>1 DEF ServiceInv, Fields
    <3>3. del'.ids = del.ids /\ del'.keys = del.keys
      BY <3>2
    <3>4. DelKeys' = DelKeys
      BY <1>1, <3>3 DEF DelKeys, SamplesOf
    <3> QED BY <3>2, <3>4
  <2> QED BY <2>1, <2>2
<1>5. /\ del'.pc \in {"idle", "rows"}
      /\ del'.pc = "rows" => /\ del'.ids = del.ids /\ del'.count = Cardinality(DelKeys)
                             /\ DelKeys' = DelKeys
  BY <1>4 DEF NoDel
<1>6. watcher.pc = "filed" /\ del'.pc \in FilePcs =>
        \A i \in 1 .. Len(del'.ids) : del'.ids[i] # watcher.file
  BY <1>1, <1>5 DEF CountsInv, EntersWhole, FilePcs
<1> QED BY <1>1, <1>2, <1>3, <1>5, <1>6, CountsKept

(* The rows of the keys go; they are counted until the file's row follows. *)
LEMMA CountsDeleteRows ==
  ASSUME ServiceInv, CountsInv, DeleteRows
  PROVE  CountsInv'
<1> DEFINE h == Head(del.ids)
<1>1. /\ del.pc = "rows" /\ samples' = Without(samples, DelKeys)
      /\ UNCHANGED <<disk, files, watcher, next, unfinished, doomed>>
      /\ del'.pc = "deleted" /\ del'.ids = del.ids /\ del'.count = del.count
  BY DEF DeleteRows, dbVars, marks, ServiceInv, Fields
<1>2. /\ DOMAIN samples' = DOMAIN samples \ DelKeys
      /\ \A s \in DOMAIN samples' : samples'[s] = samples[s]
  BY <1>1 DEF Without
<1>3. /\ IsFiniteSet(DelKeys) /\ del.count \in Nat /\ del.count = Cardinality(DelKeys)
      /\ DelKeys \subseteq SamplesOf(h)
  BY <1>1, DelKeysCounted DEF CountsInv, CountKept, DelKeys
<1>4. \A f : SamplesOf(f)' = SamplesOf(f) \ DelKeys
  BY <1>2 DEF SamplesOf
<1>5. SamplesTyped' /\ OwnersStay'
  BY <1>1, <1>2 DEF CountsInv, SamplesTyped, OwnersStay
<1>6. CountsHold'
  <2> SUFFICES ASSUME NEW f \in DOMAIN files PROVE CountHolds(f)'
    BY <1>1 DEF CountsHold
  <2>1. CountHolds(f) /\ Pending(f) = 0
    BY <1>1 DEF CountsInv, CountsHold, Pending
  <2>2. Settled(f)' <=> Settled(f)
    BY <1>1 DEF Settled, Entering
  <2>3. files'[f].number_of_samples = files[f].number_of_samples
    BY <1>1
  <2>4. IsFiniteSet(SamplesOf(f)) /\ Cardinality(SamplesOf(f)) \in Nat
    <3>1. SamplesOf(f) \in SUBSET DOMAIN samples
      BY DEF SamplesOf
    <3> QED BY <3>1, SamplesCounted DEF CountsInv
  <2>5. Cardinality(SamplesOf(f))' + Pending(f)' = Cardinality(SamplesOf(f))
    <3>1. CASE f = h
      <4>1. Pending(f)' = del.count
        BY <1>1, <3>1 DEF Pending
      <4>2. Cardinality(SamplesOf(f) \ DelKeys) = Cardinality(SamplesOf(f)) - Cardinality(DelKeys)
        <5>1. SamplesOf(f) \cap DelKeys = DelKeys
          BY <1>3, <3>1
        <5>2. Cardinality(SamplesOf(f) \ DelKeys)
                = Cardinality(SamplesOf(f)) - Cardinality(SamplesOf(f) \cap DelKeys)
          BY <1>3, <2>4, FS_Difference
        <5> QED BY <5>1, <5>2
      <4>3. Cardinality(SamplesOf(f))' = Cardinality(SamplesOf(f) \ DelKeys)
        BY <1>4
      <4> QED BY <1>3, <2>4, <4>1, <4>2, <4>3
    <3>2. CASE f # h
      <4>1. Pending(f)' = 0
        BY <1>1, <3>2 DEF Pending
      <4>2. SamplesOf(f) \ DelKeys = SamplesOf(f)
        BY <1>3, <3>2 DEF SamplesOf
      <4> QED BY <1>4, <2>4, <4>1, <4>2
    <3> QED BY <3>1, <3>2
  <2> QED BY <2>1, <2>2, <2>3, <2>4, <2>5 DEF CountHolds
<1>7. EntersWhole'
  BY <1>1, <1>4 DEF CountsInv, EntersWhole, FilePcs
<1>8. CountKept'
  BY <1>1, <1>3 DEF CountKept
<1> QED BY <1>5, <1>6, <1>7, <1>8 DEF CountsInv
-----------------------------------------------------------------------------
(* The samples of a file that has a row are counted.                       *)
LEMMA RowCounted ==
  ASSUME CountsInv, NEW f \in DOMAIN files
  PROVE  /\ CountHolds(f) /\ Cardinality(SamplesOf(f)) \in Nat
         /\ Cardinality(SamplesOf(f)) = 0 => SamplesOf(f) = {}
<1>1. SamplesOf(f) \in SUBSET DOMAIN samples
  BY DEF SamplesOf
<1>2. IsFiniteSet(SamplesOf(f)) /\ Cardinality(SamplesOf(f)) \in Nat
  BY <1>1, SamplesCounted DEF CountsInv
<1> QED BY <1>2, FS_EmptySet DEF CountsInv, CountsHold

(* The row of a file goes when its last samples went; otherwise it counts  *)
(* what is left.                                                           *)
LEMMA CountsDeleteFileRow ==
  ASSUME ServiceInv, CountsInv, DeleteFileRow
  PROVE  CountsInv'
<1> DEFINE f == Head(del.ids)
           left == files[f].number_of_samples - del.count
<1>0. /\ del.pc = "deleted" /\ del.pc \in FilePcs
      /\ UNCHANGED <<disk, samples, next, watcher, unfinished, doomed>>
      /\ IF f \notin DOMAIN files THEN del' = NextFile /\ UNCHANGED files
         ELSE IF left = 0
         THEN /\ files' = Without(files, {f})
              /\ del' = [del EXCEPT !.pc = "unlink"]
         ELSE /\ files' = [files EXCEPT ![f].number_of_samples = left]
              /\ del' = NextFile
  BY DEF DeleteFileRow, marks, FilePcs
<1>1. /\ del'.pc \notin {"rows", "deleted"}
      /\ del'.pc \in FilePcs =>
           \A i \in 1 .. Len(del'.ids) :
             \E k \in 1 .. Len(del.ids) : del'.ids[i] = del.ids[k]
  <2>1. CASE del' = NextFile
    BY <1>0, <2>1, NextIds
  <2>2. CASE del' = [del EXCEPT !.pc = "unlink"]
    BY <2>2 DEF ServiceInv, Fields
  <2> QED BY <1>0, <2>1, <2>2
<1>2. watcher.pc = "filed" =>
        /\ watcher.file # f
        /\ del'.pc \in FilePcs => \A i \in 1 .. Len(del'.ids) : del'.ids[i] # watcher.file
  <2>1. \E k \in 1 .. Len(del.ids) : f = del.ids[k]
    <3> DEFINE A == 1 .. next.file - 1
    <3>1. del.ids \in Seq(A) /\ del.ids # <<>>
      BY <1>0 DEF ServiceInv, DeletionOn
    <3> HIDE DEF A
    <3>2. 1 \in 1 .. Len(del.ids) /\ f = del.ids[1]
      BY <3>1
    <3> QED BY <3>2
  <2> QED BY <1>0, <1>1, <2>1 DEF CountsInv, EntersWhole
<1>3. CASE f \notin DOMAIN files
  <2>1. \A p \in DOMAIN disk' : Len(disk'[p]) \in Nat
    BY <1>0 DEF CountsInv, SamplesTyped
  <2> HIDE DEF f, left
  <2>2. UNCHANGED files /\ Head(del.ids) \notin DOMAIN files
    BY <1>0, <1>3 DEF f
  <2> QED BY <1>0, <1>1, <1>2, <2>1, <2>2, CountsKept
<1>4. CASE f \in DOMAIN files
  <2>1. /\ CountHolds(f) /\ Cardinality(SamplesOf(f)) \in Nat
        /\ Cardinality(SamplesOf(f)) = 0 => SamplesOf(f) = {}
    BY <1>4, RowCounted
  <2>2. Pending(f) = del.count /\ del.count \in Nat
    BY <1>0 DEF Pending, CountsInv, CountKept
  <2>3. left \in Nat /\ left >= Cardinality(SamplesOf(f))
        /\ (Settled(f) => left = Cardinality(SamplesOf(f)))
    BY <2>1, <2>2 DEF CountHolds
  <2> HIDE DEF f, left
  <2>4. /\ DOMAIN files' = IF left = 0 THEN DOMAIN files \ {f} ELSE DOMAIN files
        /\ \A x \in DOMAIN files' : x # f => files'[x] = files[x]
        /\ left # 0 => files'[f].number_of_samples = left /\ files'[f].ds = files[f].ds
    <3>1. \A x \in DOMAIN files :
            files[x] = [ds |-> files[x].ds, path |-> files[x].path,
                        updated_at |-> files[x].updated_at,
                        number_of_samples |-> files[x].number_of_samples]
      BY DEF ServiceInv, RowsAgree
    <3>2. CASE left = 0
      BY <1>0, <1>4, <3>2 DEF Without
    <3>3. CASE left # 0
      <4>1. files' = [files EXCEPT ![f].number_of_samples = left]
        BY <1>0, <1>4, <3>3
      <4>2. files'[f] = [files[f] EXCEPT !.number_of_samples = left]
        BY <1>4, <4>1
      <4>3. files'[f] = [ds |-> files[f].ds, path |-> files[f].path,
                         updated_at |-> files[f].updated_at, number_of_samples |-> left]
        BY <1>4, <3>1, <4>2
      <4> QED BY <1>4, <3>3, <4>1, <4>3
    <3> QED BY <3>2, <3>3
  <2>5. SamplesTyped' /\ CountKept'
    BY <1>0, <1>1 DEF CountsInv, SamplesTyped, CountKept
  <2>6. OwnersStay'
    <3>1. left = 0 => \A s \in DOMAIN samples : samples[s].file # f
      BY <2>1, <2>3 DEF SamplesOf
    <3> QED BY <1>0, <2>4, <3>1 DEF CountsInv, OwnersStay
  <2>7. CountsHold'
    <3> SUFFICES ASSUME NEW x \in DOMAIN files' PROVE CountHolds(x)'
      BY DEF CountsHold
    <3>1. x \in DOMAIN files /\ Pending(x)' = 0 /\ Cardinality(SamplesOf(x)') = Cardinality(SamplesOf(x))
      BY <1>0, <1>1, <2>4 DEF Pending, SamplesOf
    <3>2. CASE x = f
      <4>1. left # 0
        BY <2>4, <3>2
      <4>2. Settled(x)' => Settled(x)
        BY <1>0, <2>4, <3>2, <4>1 DEF Settled, Entering
      <4> QED BY <2>1, <2>3, <2>4, <3>1, <3>2, <4>1, <4>2 DEF CountHolds
    <3>3. CASE x # f
      <4>1. files'[x] = files[x]
        BY <2>4, <3>3
      <4>2. Settled(x)' => Settled(x)
        BY <1>0, <4>1 DEF Settled, Entering
      <4>3. CountHolds(x) /\ Pending(x) = 0
        BY <3>1, <3>3, RowCounted DEF Pending, f
      <4> QED BY <3>1, <4>1, <4>2, <4>3 DEF CountHolds
    <3> QED BY <3>2, <3>3
  <2>8. EntersWhole'
    <3> SUFFICES ASSUME watcher.pc = "filed" PROVE EntersWhole'
      BY <1>0 DEF EntersWhole
    <3>1. watcher.file # f /\ SamplesOf(watcher.file)' = SamplesOf(watcher.file)
      BY <1>0, <1>2 DEF SamplesOf
    <3>2. /\ watcher.file \in DOMAIN files' <=> watcher.file \in DOMAIN files
          /\ watcher.file \in DOMAIN files => files'[watcher.file] = files[watcher.file]
      BY <1>4, <2>4, <3>1
    <3> QED BY <1>0, <1>2, <3>1, <3>2 DEF CountsInv, EntersWhole
  <2> QED BY <2>5, <2>6, <2>7, <2>8 DEF CountsInv
<1> QED BY <1>3, <1>4

(* DropTables: the samples, then the files, then the dataset, all doomed.  *)
LEMMA CountsDropTables ==
  ASSUME ServiceInv, CountsInv, DropTables
  PROVE  CountsInv'
<1>1. /\ UNCHANGED <<disk, next, watcher, unfinished, doomed>>
      /\ del.ds \in doomed /\ del.pc \in DatasetPcs
      /\ del'.pc \in {"files", "dataset", "idle"}
  <2>1. del.pc \in {"remove", "files", "dataset"}
    BY DEF DropTables
  <2>2. \/ del' = NoDel \/ del' = [del EXCEPT !.pc = "files"] \/ del' = [del EXCEPT !.pc = "dataset"]
    BY DEF DropTables
  <2>3. del'.pc \in {"files", "dataset", "idle"}
    BY <2>2 DEF NoDel, ServiceInv, Fields
  <2> QED BY <2>1, <2>3 DEF DropTables, marks, DatasetPcs, ServiceInv, DeletionOn
<1>2. /\ DOMAIN files' \subseteq DOMAIN files /\ \A f \in DOMAIN files' : files'[f] = files[f]
      /\ \A f \in DOMAIN files : f \in DOMAIN files' \/ files[f].ds = del.ds
      /\ DOMAIN samples' \subseteq DOMAIN samples /\ \A s \in DOMAIN samples' : samples'[s] = samples[s]
      /\ \A s \in DOMAIN samples : s \in DOMAIN samples' \/ samples[s].ds = del.ds
  BY DEF DropTables, Without, SamplesIn, FilesIn
<1>3. SamplesTyped' /\ CountKept'
  BY <1>1, <1>2 DEF CountsInv, SamplesTyped, CountKept
<1>4. OwnersStay'
  <2> SUFFICES ASSUME NEW s \in DOMAIN samples', samples[s].ds \notin doomed
               PROVE  samples[s].file \in DOMAIN files'
    BY <1>1, <1>2 DEF OwnersStay
  <2>1. s \in DOMAIN samples /\ samples[s].file \in DOMAIN files
    BY <1>2 DEF CountsInv, OwnersStay
  <2>2. files[samples[s].file].ds = samples[s].ds
    BY <2>1 DEF ServiceInv, RowsAgree
  <2> QED BY <1>1, <1>2, <2>1, <2>2
<1>5. \A f : /\ SamplesOf(f)' \subseteq SamplesOf(f)
             /\ f \in DOMAIN files /\ files[f].ds # del.ds => SamplesOf(f)' = SamplesOf(f)
  <2> SUFFICES ASSUME NEW f
               PROVE  /\ SamplesOf(f)' \subseteq SamplesOf(f)
                      /\ f \in DOMAIN files /\ files[f].ds # del.ds => SamplesOf(f)' = SamplesOf(f)
    OBVIOUS
  <2>1. SamplesOf(f)' \subseteq SamplesOf(f)
    BY <1>2 DEF SamplesOf
  <2>2. ASSUME f \in DOMAIN files, files[f].ds # del.ds, NEW s \in SamplesOf(f)
        PROVE  s \in SamplesOf(f)'
    <3>1. s \in DOMAIN samples /\ samples[s].file = f
      BY <2>2 DEF SamplesOf
    <3>2. samples[s].ds # del.ds
      BY <2>2, <3>1 DEF ServiceInv, RowsAgree
    <3> QED BY <1>2, <3>1, <3>2 DEF SamplesOf
  <2> QED BY <2>1, <2>2
<1>6. CountsHold'
  <2> SUFFICES ASSUME NEW f \in DOMAIN files' PROVE CountHolds(f)'
    BY DEF CountsHold
  <2>1. f \in DOMAIN files /\ files'[f] = files[f] /\ Pending(f)' = 0 /\ Pending(f) = 0
    BY <1>1, <1>2 DEF Pending, DatasetPcs
  <2>2. CountHolds(f) /\ Cardinality(SamplesOf(f)) \in Nat
    BY <2>1, RowCounted
  <2>3. /\ Cardinality(SamplesOf(f)') <= Cardinality(SamplesOf(f))
        /\ Cardinality(SamplesOf(f)') \in Nat
    <3>1. IsFiniteSet(SamplesOf(f))
      <4>1. SamplesOf(f) \in SUBSET DOMAIN samples
        BY DEF SamplesOf
      <4> QED BY <4>1, SamplesCounted DEF CountsInv
    <3> DEFINE T == SamplesOf(f)'
    <3>2. T \subseteq SamplesOf(f)
      BY <1>5
    <3> HIDE DEF T
    <3>3. Cardinality(T) <= Cardinality(SamplesOf(f)) /\ Cardinality(T) \in Nat
      BY <3>1, <3>2, FS_Subset, FS_CardinalityType
    <3> QED BY <3>3 DEF T
  <2>4. Settled(f)' => Settled(f) /\ SamplesOf(f)' = SamplesOf(f)
    BY <1>1, <1>5, <2>1 DEF Settled, Entering
  <2> QED BY <2>1, <2>2, <2>3, <2>4 DEF CountHolds
<1>7. EntersWhole'
  <2> SUFFICES ASSUME watcher.pc = "filed" PROVE EntersWhole'
    BY <1>1 DEF EntersWhole
  <2>1. SamplesOf(watcher.file)' = {}
    <3>1. PICK f : f = watcher.file
      OBVIOUS
    <3>2. SamplesOf(f)' = {}
      BY <1>5, <3>1 DEF CountsInv, EntersWhole
    <3> QED BY <1>1, <3>1, <3>2 DEF SamplesOf
  <2>2. watcher.file \in DOMAIN files => files[watcher.file].ds = watcher.ds
    BY DEF ServiceInv, WatcherEnters
  <2>3. watcher.ds \in doomed \/ watcher.file \in DOMAIN files'
    BY <1>1, <1>2, <2>2 DEF CountsInv, EntersWhole
  <2> QED BY <1>1, <1>2, <2>1, <2>3 DEF CountsInv, EntersWhole, FilePcs
<1> QED BY <1>3, <1>4, <1>6, <1>7 DEF CountsInv
-----------------------------------------------------------------------------
(* What get_number_of_samples counts.                                      *)
LEMMA NumberOfSamplesIsNatural ==
  ASSUME NEW file, Len(file) \in Nat
  PROVE  GetNumberOfSamples(file) \in Nat
<1>1. record_size \in Nat \ {0}
  BY FormatAssumption
<1>2. FileWrapperType \in {"binary", "csv", "single_sample"}
  BY FormatAssumption
<1>3. \A n \in Nat : n \div record_size \in Nat
  BY <1>1, DivMod
<1> QED BY <1>2, <1>3 DEF GetNumberOfSamples

(* The row of a file counts the samples that are about to be entered.      *)
LEMMA CountsInsertFile ==
  ASSUME ServiceInv, CountsInv, InsertFile, ~CannotOpen(watcher.path)
  PROVE  CountsInv'
<1> DEFINE n == GetNumberOfSamples(disk[watcher.path])
           row == [ds |-> watcher.ds, path |-> watcher.path, updated_at |-> watcher.path,
                   number_of_samples |-> n]
<1>0. PICK f : f = next.file
  OBVIOUS
<1>1. /\ UNCHANGED <<disk, samples, del, unfinished, doomed>>
      /\ files' = With(files, [x \in {f} |-> row])
      /\ next' = [ds |-> next.ds, file |-> f + 1, sample |-> next.sample]
      /\ watcher' = [pc |-> "filed", ds |-> watcher.ds, path |-> watcher.path, file |-> f,
                     doc |-> disk[watcher.path]]
      /\ watcher.pc = "found"
  BY <1>0 DEF InsertFile, ServiceInv, Fields
<1>2. n \in Nat
  <2>1. Len(disk[watcher.path]) \in Nat
    BY DEF CannotOpen, CountsInv, SamplesTyped
  <2> QED BY <2>1, NumberOfSamplesIsNatural
<1>3. f \notin DOMAIN files /\ \A x \in 1 .. next.file - 1 : x # f
  BY <1>0 DEF ServiceInv, Fields, RowsAgree
<1>4. row.number_of_samples = n /\ row.ds = watcher.ds
  OBVIOUS
<1>5. /\ DOMAIN files' = DOMAIN files \cup {f} /\ files'[f] = row
      /\ \A x \in DOMAIN files : files'[x] = files[x]
  <2> HIDE DEF row
  <2> QED BY <1>1, <1>3 DEF With
<1>6. SamplesOf(f) = {}
  BY <1>3 DEF SamplesOf, ServiceInv, RowsAgree
<1>7. del.pc \in FilePcs => Head(del.ids) # f /\ \A i \in 1 .. Len(del.ids) : del.ids[i] # f
  <2> SUFFICES ASSUME del.pc \in FilePcs
               PROVE  Head(del.ids) # f /\ \A i \in 1 .. Len(del.ids) : del.ids[i] # f
    OBVIOUS
  <2> DEFINE A == 1 .. next.file - 1
  <2>1. del.ids \in Seq(A) /\ del.ids # <<>>
    BY DEF ServiceInv, DeletionOn
  <2>2. f \notin A
    BY <1>3
  <2> HIDE DEF A
  <2> QED BY <2>1, <2>2
<1> HIDE DEF row, n
<1>8. SamplesTyped' /\ CountKept'
  BY <1>1 DEF CountsInv, SamplesTyped, CountKept, DelKeys, SamplesOf
<1>9. OwnersStay'
  BY <1>1, <1>5 DEF CountsInv, OwnersStay
<1>10. CountsHold'
  <2> SUFFICES ASSUME NEW x \in DOMAIN files' PROVE CountHolds(x)'
    BY DEF CountsHold
  <2>1. Pending(x)' = Pending(x) /\ SamplesOf(x)' = SamplesOf(x)
    BY <1>1 DEF Pending, SamplesOf
  <2>2. CASE x = f
    <3>1. Cardinality(SamplesOf(x)') = 0
      BY <1>6, <2>1, <2>2, FS_EmptySet
    <3>2. Pending(x)' = 0
      BY <1>7, <2>1, <2>2 DEF Pending, FilePcs
    <3>3. ~Settled(x)'
      BY <1>1, <2>2 DEF Settled, Entering
    <3> QED BY <1>2, <1>4, <1>5, <2>2, <3>1, <3>2, <3>3 DEF CountHolds
  <2>3. CASE x # f
    <3>1. x \in DOMAIN files /\ files'[x] = files[x]
      BY <1>5, <2>3
    <3>2. Settled(x)' => Settled(x)
      BY <1>1, <3>1 DEF Settled, Entering
    <3> QED BY <2>1, <3>1, <3>2, RowCounted DEF CountHolds
  <2> QED BY <2>2, <2>3
<1>11. EntersWhole'
  <2>1. /\ watcher'.file = f /\ watcher'.doc = disk[watcher.path] /\ SamplesOf(f)' = {}
    BY <1>1, <1>6 DEF SamplesOf
  <2>2. /\ f \in DOMAIN files' /\ files'[f].number_of_samples = n
        /\ GetNumberOfSamples(disk[watcher.path]) = n
    BY <1>4, <1>5 DEF n
  <2> QED BY <1>1, <1>2, <1>7, <2>1, <2>2 DEF EntersWhole
<1> QED BY <1>8, <1>9, <1>10, <1>11 DEF CountsInv

(* The samples follow, as many as were counted; without the partition none *)
(* does, and the file counts as unfinished.                                *)
LEMMA CountsInsertSamples ==
  ASSUME ServiceInv, CountsInv, InsertSamples
  PROVE  CountsInv'
<1> DEFINE n == GetNumberOfSamples(watcher.doc)
           labels == IF tables = "there"
                     THEN GetAllLabels(ReadLater(watcher.path, watcher.doc), n)
                     ELSE <<>>
<1>0. PICK w : w = watcher.file
  OBVIOUS
<1> DEFINE ids == next.sample .. next.sample + Len(labels) - 1
           row(s) == [ds |-> watcher.ds, file |-> watcher.file, index |-> s - next.sample,
                      label |-> labels[(s - next.sample) + 1]]
           entered == [s \in ids |-> row(s)]
<1>1. PICK k, new, rows :
        /\ k = Len(labels) /\ new = next.sample .. next.sample + k - 1
        /\ DOMAIN rows = new
        /\ \A s \in new : rows[s].ds = watcher.ds /\ rows[s].file = w
        /\ samples' = With(samples, rows)
        /\ next' = [next EXCEPT !.sample = @ + k]
  <2>1. samples' = With(samples, entered) /\ next' = [next EXCEPT !.sample = @ + Len(labels)]
    BY DEF InsertSamples
  <2>2. \A s : row(s).ds = watcher.ds /\ row(s).file = w
    BY <1>0
  <2> HIDE DEF row, labels
  <2>3. DOMAIN entered = ids /\ \A s \in ids : entered[s].ds = watcher.ds /\ entered[s].file = w
    BY <2>2
  <2> HIDE DEF entered
  <2> QED BY <2>1, <2>3
<1> HIDE DEF ids, row, entered
<1>2. /\ watcher.pc = "filed" /\ UNCHANGED <<disk, files, del, doomed>>
      /\ unfinished' = IF tables = "there" THEN unfinished ELSE unfinished \cup {w}
      /\ watcher' = [watcher EXCEPT !.pc = "idle", !.path = 0, !.file = 0, !.doc = <<>>]
  BY <1>0 DEF InsertSamples
<1>3. n \in Nat
  BY <1>2 DEF CountsInv, EntersWhole
<1>4. k \in Nat /\ (tables = "there" => k = n) /\ (tables # "there" => k = 0)
  <2>1. CASE tables = "there"
    <3>1. labels = [i \in 1 .. n |->
                      GetLabel(ReadLater(watcher.path, watcher.doc), i - 1)]
      BY <2>1 DEF GetAllLabels
    <3> HIDE DEF n, labels
    <3> DEFINE T == {GetLabel(ReadLater(watcher.path, watcher.doc), i - 1) : i \in 1 .. n}
    <3>2. labels \in [1 .. n -> T]
      BY <3>1
    <3> HIDE DEF T
    <3>3. Len(labels) = n
      BY <1>3, <3>2
    <3> QED BY <1>1, <1>3, <2>1, <3>3
  <2>2. CASE tables # "there"
    BY <1>1, <2>2
  <2> QED BY <2>1, <2>2
<1> HIDE DEF labels, n
<1>5. /\ next'.sample = next.sample + k /\ next'.ds = next.ds
      /\ watcher'.pc = "idle" /\ next.sample \in Nat \ {0}
  BY <1>1, <1>2 DEF ServiceInv, Fields, CountsInv, SamplesTyped
<1>6. \A s \in new : s \notin DOMAIN samples /\ s \in 1 .. next'.sample - 1
  BY <1>1, <1>4, <1>5 DEF CountsInv, SamplesTyped
<1>7. /\ DOMAIN samples' = DOMAIN samples \cup new
      /\ \A s \in DOMAIN samples : samples'[s] = samples[s]
      /\ \A s \in new : samples'[s].ds = watcher.ds /\ samples'[s].file = w
  BY <1>1, <1>6 DEF With
<1>8. SamplesOf(w)' = new /\ \A f : f # w => SamplesOf(f)' = SamplesOf(f)
  <2>1. SamplesOf(w) = {}
    BY <1>0, <1>2 DEF CountsInv, EntersWhole
  <2> QED BY <1>7, <2>1 DEF SamplesOf
<1>9. Cardinality(new) = k
  <2>1. next.sample \in Int /\ next.sample + k - 1 \in Int
    BY <1>4, <1>5
  <2>2. Cardinality(new) = IF next.sample > next.sample + k - 1 THEN 0
                           ELSE (next.sample + k - 1) - next.sample + 1
    BY <1>1, <2>1, FS_Interval
  <2> QED BY <1>4, <1>5, <2>2
<1>10. SamplesTyped'
  <2>1. watcher.ds \in 1 .. next.ds - 1
    BY <1>2 DEF ServiceInv, WatcherEnters
  <2>2. DOMAIN samples \subseteq 1 .. next'.sample - 1
    BY <1>4, <1>5 DEF CountsInv, SamplesTyped
  <2> QED BY <1>2, <1>4, <1>5, <1>6, <1>7, <2>1, <2>2 DEF CountsInv, SamplesTyped
<1>11. OwnersStay'
  <2>1. watcher.ds \in doomed \/ w \in DOMAIN files
    BY <1>0, <1>2 DEF CountsInv, EntersWhole
  <2> QED BY <1>2, <1>7, <2>1 DEF CountsInv, OwnersStay
<1>12. CountKept' /\ (\A f : Pending(f)' = Pending(f)) /\ Pending(w) = 0
  <2>1. del.pc \in FilePcs => Head(del.ids) # w
    <3> SUFFICES ASSUME del.pc \in FilePcs PROVE Head(del.ids) # w
      OBVIOUS
    <3> DEFINE A == 1 .. next.file - 1
    <3>1. del.ids \in Seq(A) /\ del.ids # <<>>
      BY DEF ServiceInv, DeletionOn
    <3> HIDE DEF A
    <3>2. 1 \in 1 .. Len(del.ids) /\ Head(del.ids) = del.ids[1]
      BY <3>1
    <3> QED BY <1>0, <1>2, <3>2 DEF CountsInv, EntersWhole
  <2>2. (\A f : Pending(f)' = Pending(f)) /\ Pending(w) = 0
    BY <1>2, <2>1 DEF Pending, FilePcs
  <2>3. del.pc = "rows" => DelKeys' = DelKeys
    <3> SUFFICES ASSUME del.pc = "rows" PROVE DelKeys' = DelKeys
      OBVIOUS
    <3>1. PICK h : h = Head(del.ids)
      OBVIOUS
    <3>2. h # w
      BY <2>1, <3>1 DEF FilePcs
    <3>3. DelKeys = {s \in SamplesOf(h) : s \in del.keys}
          /\ DelKeys' = {s \in SamplesOf(h)' : s \in del.keys}
      BY <1>2, <3>1 DEF DelKeys, SamplesOf
    <3> QED BY <1>8, <3>2, <3>3
  <2> QED BY <1>2, <2>2, <2>3 DEF CountsInv, CountKept
<1>13. CountsHold'
  <2> SUFFICES ASSUME NEW f \in DOMAIN files' PROVE CountHolds(f)'
    BY DEF CountsHold
  <2>1. f \in DOMAIN files /\ files'[f] = files[f] /\ Pending(f)' = Pending(f)
    BY <1>2, <1>12
  <2>2. CASE f = w
    <3>1. Cardinality(SamplesOf(f)') = k /\ Pending(f)' = 0
      BY <1>8, <1>9, <1>12, <2>2
    <3>2. files[f].number_of_samples = n
      BY <1>0, <1>2, <2>1, <2>2 DEF CountsInv, EntersWhole, n
    <3>3. Settled(f)' => tables = "there"
      BY <1>2, <2>2 DEF Settled
    <3> QED BY <1>3, <1>4, <2>1, <3>1, <3>2, <3>3 DEF CountHolds
  <2>3. CASE f # w
    <3>1. SamplesOf(f)' = SamplesOf(f)
      BY <1>8, <2>3
    <3>2. Settled(f)' => Settled(f)
      BY <1>0, <1>2, <2>1, <2>3 DEF Settled, Entering
    <3> QED BY <2>1, <3>1, <3>2, RowCounted DEF CountHolds
  <2> QED BY <2>2, <2>3
<1>14. EntersWhole'
  BY <1>5 DEF EntersWhole
<1> QED BY <1>10, <1>11, <1>12, <1>13, <1>14 DEF CountsInv
-----------------------------------------------------------------------------
(* What users write has a size.                                            *)
LEMMA EncodeHasLength ==
  ASSUME NEW p \in Paths
  PROVE  Len(Encode(Rows[p])) \in Nat
<1> DEFINE rows == Rows[p]
<1>1. rows \in Seq([label : Nat, data : Seq(Nat)])
  BY StorageAssumption
<1>2. /\ DOMAIN rows = 1 .. Len(rows) /\ Len(rows) \in Nat
      /\ \A i \in 1 .. Len(rows) : rows[i].label \in Nat /\ rows[i].data \in Seq(Nat)
  <2> DEFINE Q == Seq(Nat)
             R == [label : Nat, data : Q]
  <2>1. \A r \in R : r.label \in Nat /\ r.data \in Q
    OBVIOUS
  <2>2. rows \in Seq(R)
    BY <1>1
  <2> HIDE DEF R, rows
  <2>3. DOMAIN rows = 1 .. Len(rows) /\ Len(rows) \in Nat /\ \A i \in 1 .. Len(rows) : rows[i] \in R
    BY <2>2
  <2> QED BY <2>1, <2>3
<1>3. \E S :
        FlattenSeq([i \in DOMAIN rows |-> LittleEndian(rows[i].label) \o rows[i].data]) \in Seq(S)
  <2> DEFINE byte(n, i) == (n \div 256 ^ (i - 1)) % 256
             S == Nat \cup {byte(n, i) : n \in Nat, i \in 1 .. label_size}
             parts == [i \in DOMAIN rows |-> LittleEndian(rows[i].label) \o rows[i].data]
  <2>1. \A n \in Nat : LittleEndian(n) \in Seq(S)
    <3> SUFFICES ASSUME NEW n \in Nat PROVE LittleEndian(n) \in Seq(S)
      OBVIOUS
    <3>1. label_size \in Nat
      BY FormatAssumption
    <3>2. LittleEndian(n) = [i \in 1 .. label_size |-> byte(n, i)]
      BY DEF LittleEndian
    <3> HIDE DEF byte
    <3>3. LittleEndian(n) \in [1 .. label_size -> S]
      BY <3>2
    <3> HIDE DEF S
    <3> QED BY <3>1, <3>3
  <2> HIDE DEF byte
  <2>2. Nat \subseteq S
    OBVIOUS
  <2> HIDE DEF S, rows
  <2>3. \A i \in 1 .. Len(rows) : rows[i].data \in Seq(S)
    BY <1>2, <2>2, SeqMonotonic
  <2>4. \A i \in 1 .. Len(rows) : LittleEndian(rows[i].label) \o rows[i].data \in Seq(S)
    BY <1>2, <2>1, <2>3, Concatenation
  <2>5. parts \in [1 .. Len(rows) -> Seq(S)]
    BY <1>2, <2>4
  <2> HIDE DEF parts
  <2>6. parts \in Seq(Seq(S))
    BY <1>2, <2>5
  <2>7. FlattenSeq(parts) \in Seq(S)
    BY <2>6, FlattenTyped
  <2> QED BY <2>7 DEF parts
<1>4. Len([i \in DOMAIN rows |-> InsertAt(rows[i].data, label_index + 1, rows[i].label)]) \in Nat
  <2> DEFINE cells(i) == InsertAt(rows[i].data, label_index + 1, rows[i].label)
             T == {cells(i) : i \in DOMAIN rows}
             lines == [i \in DOMAIN rows |-> cells(i)]
  <2>1. lines \in [1 .. Len(rows) -> T]
    BY <1>2
  <2> HIDE DEF lines, T, rows
  <2>2. Len(lines) \in Nat
    BY <1>2, <2>1
  <2> QED BY <2>2 DEF lines
<1> HIDE DEF rows
<1>5. Len(FlattenSeq([i \in DOMAIN rows |-> LittleEndian(rows[i].label) \o rows[i].data])) \in Nat
  <2> DEFINE bytes == FlattenSeq([i \in DOMAIN rows |-> LittleEndian(rows[i].label) \o rows[i].data])
  <2>1. \E S : bytes \in Seq(S)
    BY <1>3
  <2> HIDE DEF bytes
  <2>2. Len(bytes) \in Nat
    BY <2>1
  <2> QED BY <2>2 DEF bytes
<1>6. CASE FileWrapperType = "binary"
  BY <1>5, <1>6 DEF Encode, rows
<1>7. CASE FileWrapperType = "csv"
  BY <1>4, <1>7 DEF Encode, rows
<1>8. CASE FileWrapperType = "single_sample"
  BY <1>2, <1>8 DEF Encode, rows
<1> QED BY <1>6, <1>7, <1>8, FormatAssumption

(* The tables are empty at first.                                          *)
LEMMA CountsInit == SSInit => CountsInv
<1> SUFFICES ASSUME SSInit PROVE CountsInv
  OBVIOUS
<1>1. /\ dataset = 0 /\ files = <<>> /\ samples = <<>>
      /\ next = [ds |-> 1, file |-> 1, sample |-> 1]
      /\ watcher = NoWatcher /\ del = NoDel
      /\ disk = [p \in Paths |-> Encode(Rows[p])]
  BY DEF SSInit
<1>2. \A p \in DOMAIN disk : Len(disk[p]) \in Nat
  BY <1>1, EncodeHasLength
<1>3. SamplesTyped
  BY <1>1, <1>2 DEF SamplesTyped
<1>4. OwnersStay /\ CountsHold
  BY <1>1 DEF OwnersStay, CountsHold
<1>5. EntersWhole /\ CountKept
  BY <1>1 DEF EntersWhole, CountKept, NoWatcher, NoDel
<1> QED BY <1>3, <1>4, <1>5 DEF CountsInv

(* Every step keeps the counts.                                            *)
LEMMA CountsNext ==
  ASSUME ServiceInv, CountsInv, [SSNext]_ssVars
  PROVE  CountsInv'
<1>1. CASE UNCHANGED ssVars
  BY <1>1, CountsRequestStep
<1>2. CASE SSNext
  BY <1>2, CountsRequestStep, CountsWatcherStep, CountsInsertFile, CountsInsertSamples,
     CountsDeletionStep, CountsDeleteFromFile, CountsDeleteRows, CountsDeleteFileRow,
     CountsDropTables DEF SSNext
<1> QED BY <1>1, <1>2
-----------------------------------------------------------------------------
(* The sum of the counts in table files covers the rows in table samples.  *)
LEMMA TotalCovers ==
  ASSUME ServiceInv, CountsInv, dataset \notin doomed
  PROVE  /\ IsFiniteSet(SamplesIn(dataset)) /\ SamplesIn(dataset) \subseteq Nat
         /\ GetDatasetSize \in Nat /\ Cardinality(SamplesIn(dataset)) <= GetDatasetSize
         /\ SizeExactWhenQuiet
<1> DEFINE S == SamplesIn(dataset)
           F == FilesIn(dataset)
           column == [s \in S |-> samples[s].file]
           count == [f \in F |-> Cardinality(SamplesOf(f))]
           number == [f \in F |-> files[f].number_of_samples]
<1>1. IsFiniteSet(S) /\ S \subseteq Nat
  <2>1. S \in SUBSET DOMAIN samples /\ DOMAIN samples \subseteq Nat
    BY DEF SamplesIn, CountsInv, SamplesTyped
  <2> QED BY <2>1, SamplesCounted DEF CountsInv
<1>2. IsFiniteSet(F)
  <2> DEFINE ids == 1 .. next.file - 1
  <2>1. F \subseteq ids
    BY DEF FilesIn, ServiceInv, RowsAgree
  <2>2. IsFiniteSet(ids)
    <3>1. 1 \in Int /\ next.file - 1 \in Int
      BY DEF ServiceInv, Fields
    <3> QED BY <3>1, FS_Interval
  <2> HIDE DEF F, ids
  <2> QED BY <2>1, <2>2, FS_Subset
<1>3. GetDatasetSize = SumFunctionOnSet(number, F)
  BY DEF GetDatasetSize, SumCounts
<1>4. \A s \in S : samples[s].file \in F
  <2> SUFFICES ASSUME NEW s \in S PROVE samples[s].file \in F
    OBVIOUS
  <2>1. s \in DOMAIN samples /\ samples[s].ds = dataset
    BY DEF SamplesIn
  <2>2. samples[s].file \in DOMAIN files
    BY <2>1 DEF CountsInv, OwnersStay
  <2>3. files[samples[s].file].ds = dataset
    BY <2>1, <2>2 DEF ServiceInv, RowsAgree
  <2> QED BY <2>2, <2>3 DEF FilesIn
<1>5. \A f \in F : SamplesOf(f) = {s \in S : samples[s].file = f}
  <2> SUFFICES ASSUME NEW f \in F PROVE SamplesOf(f) = {s \in S : samples[s].file = f}
    OBVIOUS
  <2>1. f \in DOMAIN files /\ files[f].ds = dataset
    BY DEF FilesIn
  <2>2. \A s \in SamplesOf(f) : samples[s].ds = dataset
    BY <2>1 DEF SamplesOf, ServiceInv, RowsAgree
  <2> QED BY <2>2 DEF SamplesOf, SamplesIn
<1>6. \A f \in F : /\ files[f].number_of_samples \in Nat /\ Cardinality(SamplesOf(f)) \in Nat
                   /\ Cardinality(SamplesOf(f)) <= files[f].number_of_samples
                   /\ Settled(f) /\ Pending(f) = 0 =>
                        files[f].number_of_samples = Cardinality(SamplesOf(f))
  <2> SUFFICES ASSUME NEW f \in F
               PROVE  /\ files[f].number_of_samples \in Nat /\ Cardinality(SamplesOf(f)) \in Nat
                      /\ Cardinality(SamplesOf(f)) <= files[f].number_of_samples
                      /\ Settled(f) /\ Pending(f) = 0 =>
                           files[f].number_of_samples = Cardinality(SamplesOf(f))
    OBVIOUS
  <2>1. f \in DOMAIN files
    BY DEF FilesIn
  <2>2. Pending(f) \in Nat
    BY DEF Pending, CountsInv, CountKept
  <2> QED BY <2>1, <2>2, RowCounted DEF CountHolds
<1>7. watcher.pc # "filed" /\ del.pc = "idle" /\ unfinished = {} =>
        \A f \in F : Settled(f) /\ Pending(f) = 0
  BY DEF Settled, Entering, Pending, FilesIn
<1> HIDE DEF S, F
<1>8. Cardinality(S) = SumFunctionOnSet(count, F)
  <2>1. /\ \A s \in S : column[s] = samples[s].file /\ column[s] \in F
        /\ \A f \in F : count[f] = Cardinality(SamplesOf(f))
        /\ \A f \in F : {s \in S : column[s] = f} = {s \in S : samples[s].file = f}
    BY <1>4
  <2> HIDE DEF column, count
  <2>2. CountedBy(count, S, F, column)
    BY <1>5, <2>1 DEF CountedBy
  <2> QED BY <1>1, <1>2, <2>2, CountByClass
<1>9. /\ \A f \in F : count[f] \in Nat /\ number[f] \in Nat /\ count[f] <= number[f]
      /\ watcher.pc # "filed" /\ del.pc = "idle" /\ unfinished = {} =>
           \A f \in F : number[f] = count[f]
  BY <1>6, <1>7
<1> HIDE DEF count, number
<1>10. SumFunctionOnSet(number, F) \in Nat
  BY <1>2, <1>9, SumOf
<1>11. SumFunctionOnSet(count, F) <= SumFunctionOnSet(number, F)
  BY <1>2, <1>9, SumGrows
<1>12. watcher.pc # "filed" /\ del.pc = "idle" /\ unfinished = {} =>
         SumFunctionOnSet(number, F) = SumFunctionOnSet(count, F)
  <2> SUFFICES ASSUME watcher.pc # "filed", del.pc = "idle", unfinished = {}
               PROVE  SumFunctionOnSet(number, F) = SumFunctionOnSet(count, F)
    OBVIOUS
  <2>1. \A f \in F : number[f] = count[f]
    BY <1>9
  <2> QED BY <1>2, <1>9, <2>1, SumSame
<1>13. SizeExactWhenQuiet
  BY <1>3, <1>8, <1>12 DEF SizeExactWhenQuiet, S
<1> QED BY <1>1, <1>3, <1>8, <1>10, <1>11, <1>13 DEF S

(* What the invariants say of the workers.                                 *)
LEMMA AllWorkersShare ==
  ASSUME ServiceInv, CountsInv, dataset \notin doomed
  PROVE  SizeExactWhenQuiet /\ \A n \in Nat \ {0} : SharedBy(n)
BY TotalCovers, WorkersShareOnce

(* Any number of workers that ask for their shares get every sample of a   *)
(* dataset that is not being deleted, each once, whatever the watcher, a   *)
(* deletion and the ends of the process have left in the tables.           *)
THEOREM AnyWorkersCover ==
  ASSUME NEW n \in Nat \ {0}
  PROVE  SSSpec => [](dataset \notin doomed => SharedBy(n))
<1>1. SSInit => ServiceInv /\ CountsInv
  BY ServiceInit, CountsInit
<1>2. ServiceInv /\ CountsInv /\ [SSNext]_ssVars => (ServiceInv /\ CountsInv)'
  BY ServiceNext, CountsNext
<1>3. ServiceInv /\ CountsInv => (dataset \notin doomed => SharedBy(n))
  BY AllWorkersShare
<1> QED BY <1>1, <1>2, <1>3, PTL DEF SSSpec

(* The property that the runs check: with it, the size of a dataset at     *)
(* rest is the number of its samples, whichever way its queries are        *)
(* ordered, its files laid out and its process ended.                      *)
THEOREM WorkersCovered == SSSpec => []WorkersCoverDataset
<1>1. SSInit => ServiceInv /\ CountsInv
  BY ServiceInit, CountsInit
<1>2. ServiceInv /\ CountsInv /\ [SSNext]_ssVars => (ServiceInv /\ CountsInv)'
  BY ServiceNext, CountsNext
<1>3. ServiceInv /\ CountsInv => WorkersCoverDataset
  <2>1. \A n \in 1 .. 3 : n \in Nat \ {0}
    OBVIOUS
  <2> QED BY <2>1, AllWorkersShare DEF WorkersCoverDataset
<1> QED BY <1>1, <1>2, <1>3, PTL DEF SSSpec
=============================================================================
