---------------------------- MODULE SelectorManager ----------------------------
(***************************************************************************)
(* The selector service, for one pipeline.  It runs as several processes   *)
(* that accept connections on one port (common/grpc/grpc_helpers.py): a    *)
(* client talks to whichever process its connection reached.  Samples and  *)
(* triggers are in the metadata database and in files that all processes   *)
(* share.  The Selector object of the pipeline is not: each process        *)
(* creates its own from the database at the first request it serves, and   *)
(* that object's _next_trigger_id, caches and downsampling scheduler only  *)
(* follow the triggers which the same process computed.                    *)
(*                                                                         *)
(* A request to inform of samples stores them with several processes; one  *)
(* that fails goes unnoticed, and its samples are lost.  The service may   *)
(* be restarted between two requests of the executor.                      *)
(*                                                                         *)
(* Samples are numbered in the order in which the selector is informed of  *)
(* them.  The sampled strategies also mark them in the database: as used,  *)
(* or with the last trigger that used them; what those marks mean depends  *)
(* on what the strategy object in one process remembers.                   *)
(***************************************************************************)
EXTENDS Presampling

CONSTANTS
  Processes,              \* the gRPC server processes
  Strategies,             \* configurations of the selection strategy to consider
  Label,                  \* of each sample
  AllData,                \* tail_triggers is None: train on everything seen
  Tails, Limits,          \* values of tail_triggers (0: reset_after_trigger)
                          \* and of limit (0: none) to consider
  maximum_keys_in_memory,
  keys_in_selector_cache,
  Thresholds,             \* downsampling_thresholds of a CoresetStrategy
  insertion_threads,
  MaxSamples, MaxBatch, MaxTriggers,   \* bounds
  MaxFailedInsertions,
  MaxReconnects           \* how often the executor's connection may be replaced, or the
                          \* service restarted

ASSUME SelectorAssumption ==
  /\ Processes # {} /\ AllData \notin Nat
  /\ Tails \subseteq Nat \cup {AllData} /\ Limits \subseteq 0 .. maximum_keys_in_memory
  /\ maximum_keys_in_memory \in Nat \ {0} /\ keys_in_selector_cache \in Nat
  /\ Thresholds \in Seq(Nat \ {0})
  /\ \A i \in 1 .. Len(Thresholds) - 1 : Thresholds[i] < Thresholds[i + 1]
  /\ \A s \in Strategies :
       /\ s.name \in {"NewDataStrategy", "CoresetStrategy", "FreshnessSamplingStrategy"}
       /\ s.presampling \in {"No", "Random", "RandomNoReplacement", "LabelBalanced", "TriggerBalanced"}
       /\ s.ratio \in 1 .. 100 /\ s.force \in {"no", "target_size", "balancing"}
       /\ s.name = "FreshnessSamplingStrategy" => s.ratio < 100
       /\ s.presampling # "No" => s.name = "CoresetStrategy"
       /\ s.name = "CoresetStrategy" /\ s.presampling = "No" => s.ratio = 100
  /\ Label \in [1 .. MaxSamples -> Nat]
  /\ insertion_threads \in Nat \ {0}
  /\ MaxFailedInsertions \in Nat
  /\ MaxSamples \in Nat /\ MaxBatch \in Nat /\ MaxTriggers \in Nat \ {0} /\ MaxReconnects \in Nat

VARIABLES
  strategy, tail, limit,  \* the pipeline's selection strategy
  rows,                   \* selector_state_metadata: <<sample, seen_in_trigger_id>>
  informed,               \* how many samples it was informed of
  lost,                   \* history: the samples that were not stored
  failed_insertions,
  used,                   \* the samples marked as used
  last_used_in_trigger,   \* of each sample
  triggers,               \* of each trigger id, in order, its partitions
  connection,             \* the process the pipeline executor is connected to
  reconnects,
  phase,                  \* of the pipeline executor
  selectors,              \* the processes that have a Selector of the pipeline
  next_trigger_id, trigger_cache, current_keys_in_cache, downsampler_index,
  is_first_trigger, last_complete_trigger,     \* of the strategy objects
  response,               \* the last answer to a training
  informed_until          \* history: of each trigger, the samples informed by then

config == <<strategy, tail, limit>>
marks == <<used, last_used_in_trigger>>
rounds == <<is_first_trigger, last_complete_trigger>>
local == <<selectors, next_trigger_id, trigger_cache, current_keys_in_cache, downsampler_index, rounds>>
data == <<rows, informed, lost, failed_insertions>>
link == <<connection, reconnects>>
vars == <<config, data, marks, triggers, link, phase, local, response, informed_until>>

NumKeys(partitions) == Cardinality(UNION {partitions[i] : i \in DOMAIN partitions})
NoResponse == [kind |-> "none"]
-----------------------------------------------------------------------------
(* _populate_pipeline_if_exists: a process creates its Selector at the     *)
(* first request it serves; the next trigger is the last in the database   *)
(* plus one (ids start at 0).                                              *)
NextTriggerId(p) == IF p \in selectors THEN next_trigger_id[p] ELSE Len(triggers)

Populate(p) ==
  /\ selectors' = selectors \cup {p}
  /\ next_trigger_id' = [next_trigger_id EXCEPT ![p] = NextTriggerId(p)]

(* The samples the strategy draws from: those of the current trigger, of   *)
(* the last tail triggers and the current one, or all.                     *)
SeenInTailOffByOne(s, next) ==   \* mutant: one trigger too few
  IF tail = AllData THEN TRUE ELSE s > next - tail \/ s = next
SeenIn(s, next) ==
  CASE tail = AllData -> TRUE
    [] tail = 0 /\ strategy.name = "NewDataStrategy" -> s = next
    [] OTHER -> s >= next - tail
Candidates(rs, next) == {r[1] : r \in {q \in rs : SeenIn(q[2], next)}}

(* What a trigger of process p may result in: its partitions, the samples  *)
(* left marked, and the round of sampling it belongs to.                   *)
Column(seen) ==
  IF strategy.presampling = "LabelBalanced" THEN Label
  ELSE [k \in {r[1] : r \in seen} |-> (CHOOSE r \in seen : r[1] = k)[2]]

PresamplingDraws(S, seen, target, complete, next) ==
  CASE strategy.presampling = "No" ->
         {<<IF limit = 0 THEN S ELSE Oldest(limit, S), complete>>}
    [] strategy.presampling = "Random" -> {<<T, complete>> : T \in RandomDraws(S, target)}
    [] strategy.presampling = "RandomNoReplacement" ->
         NoReplacementDraws(S, last_used_in_trigger, complete, next, target)
    [] OTHER -> {<<T, complete>> : T \in BalancedDraws(S, Column(seen), target, strategy.force)}

Unused(S) == S \ used
Outcome(partitions, complete) == [partitions |-> partitions, complete |-> complete]

(* NewDataStrategy takes everything, in no order; a CoresetStrategy orders *)
(* what its presampling selects by timestamp; a Freshness strategy starts  *)
(* with unused samples only, in the first trigger of its object.           *)
NewDataOutcomes(S) ==
  {Outcome(ps, 0) : ps \in LimitedChunks(S, limit, maximum_keys_in_memory)}

TriggerDatasetSize(S) == Cardinality(S)
CoresetOutcomes(S, seen, p, next) ==
  {Outcome(ChunksByAge(draw[1], maximum_keys_in_memory), draw[2]) :
     draw \in PresamplingDraws(S, seen, TargetSize(TriggerDatasetSize(S), strategy.ratio, limit),
                               last_complete_trigger[p], next)}

FreshnessOutcomes(S, p) ==
  {Outcome(ps, 0) : ps \in
     IF is_first_trigger[p]
       THEN LimitedChunks(Unused(S), limit, maximum_keys_in_memory)
       ELSE FreshnessDraws(Unused(S), used, strategy.ratio, limit, maximum_keys_in_memory)}

Outcomes(S, seen, p, next) ==
  CASE strategy.name = "NewDataStrategy" -> NewDataOutcomes(S)
    [] strategy.name = "CoresetStrategy" -> CoresetOutcomes(S, seen, p, next)
    [] OTHER -> FreshnessOutcomes(S, p)

(* Requests that the strategies cannot serve: shares of no samples, and    *)
(* a mixture of which one part is empty (both divide by zero), or          *)
(* balancing the triggers of a strategy that resets.                       *)
StrategyRaises(S, p) ==
  \/ strategy.presampling \in {"LabelBalanced", "TriggerBalanced"} /\ S = {}
  \/ strategy.presampling = "TriggerBalanced" /\ tail = 0
  \/ /\ strategy.name = "FreshnessSamplingStrategy" /\ ~is_first_trigger[p]
     /\ CalcNumSamplesNoLimit(Cardinality(Unused(S)), Cardinality(used), strategy.ratio) = <<0, 0>>

(* DownsamplingScheduler.inform_next_trigger.                              *)
InformNextTrigger(index, next) ==
  IF index < Len(Thresholds) /\ next >= Thresholds[index + 1] THEN index + 1 ELSE index
-----------------------------------------------------------------------------
(* The samples of a request are split among the insertion processes, the   *)
(* rest goes to the last.                                                  *)
ShareOfProcess(i, n) ==
  LET samples_per_proc == n \div insertion_threads
      end == IF i < insertion_threads THEN i * samples_per_proc ELSE n
  IN informed + (i - 1) * samples_per_proc + 1 .. informed + end

(* They are stored under the id of the next trigger.  The processes are    *)
(* joined and their exit codes ignored.                                    *)
PersistSamples(n) ==
  /\ informed + n <= MaxSamples
  /\ informed' = informed + n
  /\ \E failing \in {{}} \cup {{i} : i \in {j \in 1 .. insertion_threads :
                                           failed_insertions < MaxFailedInsertions
                                             /\ ShareOfProcess(j, n) # {}}} :
       /\ failed_insertions' = failed_insertions + Cardinality(failing)
       /\ lost' = lost \cup UNION {ShareOfProcess(i, n) : i \in failing}
       /\ rows' = rows \cup
            {<<k, NextTriggerId(connection)>> : k \in (informed + 1 .. informed') \ (lost' \ lost)}

InformData(n) ==
  /\ phase = "informing"
  /\ PersistSamples(n)
  /\ Populate(connection)
  /\ UNCHANGED <<config, marks, triggers, link, phase, trigger_cache,
                 current_keys_in_cache, downsampler_index, rounds, response, informed_until>>

(* inform_data_and_trigger.  The trigger's row is inserted first: an id    *)
(* that exists already fails the request, which ends the pipeline.         *)
TriggerIdFree(id) == id = Len(triggers)

Fits(p, n) == current_keys_in_cache[p] + n <= keys_in_selector_cache

MarkUsed(drawn) ==
  used' = IF strategy.name = "FreshnessSamplingStrategy" THEN used \cup drawn ELSE used

UpdateLastUsed(drawn, id) ==
  last_used_in_trigger' =
    IF strategy.presampling # "RandomNoReplacement" THEN last_used_in_trigger
    ELSE [k \in DOMAIN last_used_in_trigger |->
            IF k \in drawn THEN id ELSE last_used_in_trigger[k]]

(* The partitions are files, their lengths rows of the database.           *)
StoreTriggerSamples(id, partitions) ==
  triggers' = [i \in 1 .. IF id < Len(triggers) THEN Len(triggers) ELSE id + 1 |->
                 IF i = id + 1 THEN partitions ELSE triggers[i]]

CreateTrigger(p, outcome, n) ==
  LET id == NextTriggerId(p)
      drawn == UNION {outcome.partitions[i] : i \in DOMAIN outcome.partitions}
  IN /\ StoreTriggerSamples(id, outcome.partitions)
     /\ informed_until' = Append(informed_until, informed + n)
     /\ selectors' = selectors \cup {p}
     /\ next_trigger_id' = [next_trigger_id EXCEPT ![p] = id + 1]
     /\ downsampler_index' = [downsampler_index EXCEPT ![p] = InformNextTrigger(@, id + 1)]
     /\ is_first_trigger' = [is_first_trigger EXCEPT ![p] = @ /\ strategy.name # "FreshnessSamplingStrategy"]
     /\ last_complete_trigger' = [last_complete_trigger EXCEPT ![p] = outcome.complete]
     /\ MarkUsed(drawn)
     /\ UpdateLastUsed(drawn, id)
     /\ IF Fits(p, NumKeys(outcome.partitions))
          THEN /\ trigger_cache' = [trigger_cache EXCEPT ![p] = @ \cup {id}]
               /\ current_keys_in_cache' =
                    [current_keys_in_cache EXCEPT ![p] = @ + NumKeys(outcome.partitions)]
          ELSE UNCHANGED <<trigger_cache, current_keys_in_cache>>
     /\ phase' = IF NumKeys(outcome.partitions) > 0 THEN "training" ELSE "informing"

InformDataAndTrigger(n) ==
  LET p == connection
      next == NextTriggerId(p)
  IN /\ phase = "informing" /\ Len(triggers) < MaxTriggers
     /\ PersistSamples(n)
     /\ TriggerIdFree(next)
     /\ ~StrategyRaises(Candidates(rows', next), p)
     /\ \E outcome \in Outcomes(Candidates(rows', next), rows', p, next) :
          CreateTrigger(p, outcome, n)
     /\ UNCHANGED <<config, link, response>>

InformDataAndTriggerFails(n) ==
  /\ phase = "informing"
  /\ ~TriggerIdFree(NextTriggerId(connection))
  /\ PersistSamples(n)
  /\ phase' = "failed"
  /\ UNCHANGED <<config, marks, triggers, link, local, response, informed_until>>

(* The strategy raises after the trigger's row was inserted.               *)
TriggerFails(n) ==
  /\ phase = "informing" /\ Len(triggers) < MaxTriggers
  /\ PersistSamples(n)
  /\ TriggerIdFree(NextTriggerId(connection))
  /\ StrategyRaises(Candidates(rows', NextTriggerId(connection)), connection)
  /\ triggers' = Append(triggers, <<>>)
  /\ informed_until' = Append(informed_until, informed + n)
  /\ phase' = "failed"
  /\ Populate(connection)
  /\ UNCHANGED <<config, marks, link, trigger_cache, current_keys_in_cache,
                 downsampler_index, rounds, response>>

(* Requests of the training of the latest trigger.  Each trigger is        *)
(* trained by a process of its own, with connections of its own.  The      *)
(* sizes of the trigger are those in its row, which is complete by then;   *)
(* GetSamples serves any partition of it, from the trigger's files or a    *)
(* copy of them (see TriggerSamples).                                      *)
TriggerRow(id) ==
  [num_keys |-> NumKeys(triggers[id + 1]), num_partitions |-> Len(triggers[id + 1])]
NumberOfSamples(id) == TriggerRow(id).num_keys
NumberOfPartitions(id) == TriggerRow(id).num_partitions
SizesAnswer(p, id) ==
  [kind |-> "sizes", process |-> p, num_samples |-> NumberOfSamples(id),
   num_partitions |-> NumberOfPartitions(id)]

GetSizes(p) ==
  /\ phase = "training" /\ Populate(p)
  /\ response' = SizesAnswer(p, Len(triggers) - 1)
  /\ UNCHANGED <<config, data, marks, triggers, link, phase, trigger_cache,
                 current_keys_in_cache, downsampler_index, rounds, informed_until>>

TriggerPartitionKeys(id, partition) == triggers[id + 1][partition]
SamplesAnswer(p, id) ==
  [kind |-> "samples", process |-> p, samples |->
     UNION {TriggerPartitionKeys(id, partition) : partition \in 1 .. NumberOfPartitions(id)}]

GetSamples(p) ==
  /\ phase = "training" /\ Populate(p)
  /\ response' = SamplesAnswer(p, Len(triggers) - 1)
  /\ UNCHANGED <<config, data, marks, triggers, link, phase, trigger_cache,
                 current_keys_in_cache, downsampler_index, rounds, informed_until>>

AvailableLabelsTailOnly(next) ==    \* mutant: next is taken for the latest trigger
  {Label[r[1]] : r \in {q \in rows : q[2] < next /\ (tail = AllData \/ q[2] >= next - tail)}}
AvailableLabels(next) ==
  {Label[r[1]] : r \in {q \in rows : q[2] < next /\ (tail = AllData \/ q[2] >= next - tail - 1)}}

LabelsAnswer(p) ==
  [kind |-> "labels", process |-> p, labels |-> AvailableLabels(NextTriggerId(p))]

GetAvailableLabels(p) ==
  /\ phase = "training" /\ Populate(p)
  /\ response' = LabelsAnswer(p)
  /\ UNCHANGED <<config, data, marks, triggers, link, phase, trigger_cache,
                 current_keys_in_cache, downsampler_index, rounds, informed_until>>

StrategyAnswer(p) ==
  [kind |-> "strategy", process |-> p, downsampler |-> downsampler_index[p]]

GetSelectionStrategy(p) ==
  /\ phase = "training" /\ Populate(p)
  /\ response' = StrategyAnswer(p)
  /\ UNCHANGED <<config, data, marks, triggers, link, phase, trigger_cache,
                 current_keys_in_cache, downsampler_index, rounds, informed_until>>

EndTraining ==
  /\ phase = "training"
  /\ phase' = "informing" /\ response' = NoResponse
  /\ UNCHANGED <<config, data, marks, triggers, link, local, informed_until>>

(* The executor's channel opens a new connection.                          *)
Reconnect ==
  /\ reconnects < MaxReconnects /\ phase # "failed"
  /\ reconnects' = reconnects + 1
  /\ connection' \in Processes \ {connection}
  /\ UNCHANGED <<config, data, marks, triggers, phase, local, response, informed_until>>

(* A restart of the service: the new processes know nothing but what is in *)
(* the database.  The files of earlier triggers do not prevent it          *)
(* (ignore_existing_trigger_samples, or the old processes deleted them).   *)
Restart ==
  /\ phase = "informing" /\ reconnects < MaxReconnects /\ selectors # {}
  /\ reconnects' = reconnects + 1 /\ connection' \in Processes
  /\ selectors' = {}
  /\ next_trigger_id' = [p \in Processes |-> 0]
  /\ trigger_cache' = [p \in Processes |-> {}]
  /\ current_keys_in_cache' = [p \in Processes |-> 0]
  /\ downsampler_index' = [p \in Processes |-> 0]
  /\ is_first_trigger' = [p \in Processes |-> TRUE]
  /\ last_complete_trigger' = [p \in Processes |-> 0]
  /\ UNCHANGED <<config, data, marks, triggers, phase, response, informed_until>>
-----------------------------------------------------------------------------
(* A Freshness strategy refuses to reset and to have a tail.               *)
TailsOf(s) == IF s.name = "FreshnessSamplingStrategy" THEN {AllData} ELSE Tails

Init ==
  /\ strategy \in Strategies
  /\ tail \in TailsOf(strategy)
  /\ limit \in Limits
  /\ used = {} /\ last_used_in_trigger = [k \in 1 .. MaxSamples |-> -1]
  /\ is_first_trigger = [p \in Processes |-> TRUE]
  /\ last_complete_trigger = [p \in Processes |-> 0]
  /\ informed = 0 /\ lost = {} /\ failed_insertions = 0
  /\ rows = {} /\ triggers = <<>> /\ informed_until = <<>>
  /\ connection \in Processes /\ reconnects = 0 /\ phase = "informing"
  /\ selectors = {}
  /\ next_trigger_id = [p \in Processes |-> 0]
  /\ trigger_cache = [p \in Processes |-> {}]
  /\ current_keys_in_cache = [p \in Processes |-> 0]
  /\ downsampler_index = [p \in Processes |-> 0]
  /\ response = NoResponse

Next ==
  \/ \E n \in 1 .. MaxBatch : InformData(n)
  \/ \E n \in 0 .. MaxBatch : InformDataAndTrigger(n) \/ InformDataAndTriggerFails(n) \/ TriggerFails(n)
  \/ \E p \in Processes : GetSizes(p) \/ GetSamples(p) \/ GetAvailableLabels(p) \/ GetSelectionStrategy(p)
  \/ EndTraining
  \/ Reconnect \/ Restart

Spec == Init /\ [][Next]_vars
-----------------------------------------------------------------------------
TypeOK ==
  /\ strategy \in Strategies
  /\ tail \in Tails \cup {AllData} /\ limit \in Limits
  /\ informed \in 0 .. MaxSamples /\ lost \subseteq 1 .. informed
  /\ failed_insertions \in 0 .. MaxFailedInsertions
  /\ rows \subseteq (1 .. MaxSamples) \X (0 .. MaxTriggers)
  /\ used \subseteq 1 .. MaxSamples
  /\ last_used_in_trigger \in [1 .. MaxSamples -> -1 .. MaxTriggers - 1]
  /\ triggers \in Seq(Seq(SUBSET (1 .. MaxSamples))) /\ Len(triggers) <= MaxTriggers
  /\ connection \in Processes /\ reconnects \in 0 .. MaxReconnects
  /\ phase \in {"informing", "training", "failed"}
  /\ selectors \subseteq Processes
  /\ next_trigger_id \in [Processes -> 0 .. MaxTriggers]
  /\ trigger_cache \in [Processes -> SUBSET (0 .. MaxTriggers - 1)]
  /\ current_keys_in_cache \in [Processes -> 0 .. keys_in_selector_cache]
  /\ downsampler_index \in [Processes -> 0 .. Len(Thresholds)]
  /\ is_first_trigger \in [Processes -> BOOLEAN]
  /\ last_complete_trigger \in [Processes -> 0 .. MaxTriggers - 1]
  /\ response.kind \in {"none", "sizes", "samples", "labels", "strategy"}
  /\ informed_until \in Seq(0 .. MaxSamples)

Drawn(id) == UNION {triggers[id + 1][i] : i \in DOMAIN triggers[id + 1]}
Completed(id) == ~(phase = "failed" /\ id = Len(triggers) - 1)

(* The samples that the documentation of the strategies promises to        *)
(* trigger id: from the first after the trigger before its tail.  What was *)
(* lost on the way to the database cannot be among them.                   *)
Promised(id) ==
  LET before == IF tail = AllData THEN 0 ELSE id - tail
  IN ((IF before <= 0 THEN 1 ELSE informed_until[before] + 1) .. informed_until[id + 1]) \ lost

(* "If we reset after trigger, we always use the data since the last       *)
(* trigger": every trigger's partitions are disjoint, hold only samples    *)
(* the strategy promises, no more than fit in memory, and all of them      *)
(* unless there is a limit or a sampling.  This survives a replacement of  *)
(* the executor's connection (a process that fell behind fails instead of  *)
(* training on the wrong data) or a restart, but not both, and a failed    *)
(* insertion, which takes away its own samples only.                       *)
TakesAll ==
  limit = 0 /\ strategy.presampling = "No" /\ strategy.name # "FreshnessSamplingStrategy"
TrainingSetFollowsPolicy ==
  \A id \in 0 .. Len(triggers) - 1 :
    LET ps == triggers[id + 1]
    IN /\ Drawn(id) \subseteq Promised(id)
       /\ (TakesAll /\ Completed(id)) => Drawn(id) = Promised(id)
       /\ \A i, j \in DOMAIN ps : i # j => ps[i] \cap ps[j] = {}
       /\ \A i \in DOMAIN ps : Cardinality(ps[i]) <= maximum_keys_in_memory

(* What a presampling promises of every trigger: exactly the configured    *)
(* share of the data, or at most that share when classes are balanced, and *)
(* equally many of each class when balancing is forced.                    *)
Balanced == {"LabelBalanced", "TriggerBalanced"}
PresampledAsConfigured ==
  \A id \in 0 .. Len(triggers) - 1 :
    LET target == TargetSize(Cardinality(Promised(id)), strategy.ratio, limit)
        OfLabel(c) == Cardinality({k \in Drawn(id) : Label[k] = c})
    IN (strategy.name = "CoresetStrategy" /\ Completed(id)) =>
         /\ strategy.presampling \notin Balanced => Cardinality(Drawn(id)) = target
         /\ strategy.presampling \in Balanced => Cardinality(Drawn(id)) <= target
         /\ (strategy.presampling = "LabelBalanced" /\ strategy.force = "balancing") =>
              \A j, k \in Promised(id) : OfLabel(Label[j]) = OfLabel(Label[k])

(* "a complete_trigger is the last time when all the datapoints (in the db *)
(* at that time) have been seen": a trigger draws no sample a second time  *)
(* in the round of the process that serves it, unless it completes the     *)
(* round, and then every sample it could draw was drawn in the round.      *)
RoundOf(p, id) == UNION {Drawn(i) : i \in last_complete_trigger[p] .. id - 1}
RoundsWithoutReplacement ==
  [][(strategy.presampling = "RandomNoReplacement" /\ Len(triggers') > Len(triggers)
        /\ phase' # "failed") =>
       \A id \in {Len(triggers)} :
         LET round == RoundOf(connection, id)
         IN IF last_complete_trigger'[connection] = last_complete_trigger[connection]
              THEN Drawn(id)' \cap round = {}
              ELSE Promised(id)' \subseteq round \cup Drawn(id)']_vars

(* "The first trigger will always use only fresh data.  The subsequent     *)
(* triggers will sample a dataset that reflects the ratio of used/unused   *)
(* data": within one sample, where fresh is what no earlier trigger drew;  *)
(* for as long as one process serves the pipeline.                         *)
FreshShareKept ==
  (strategy.name = "FreshnessSamplingStrategy" /\ reconnects = 0) =>
    \A id \in 0 .. Len(triggers) - 1 :
      LET fresh == Drawn(id) \ UNION {Drawn(i) : i \in 0 .. id - 1}
          excess == 100 * Cardinality(fresh) - strategy.ratio * Cardinality(Drawn(id))
      IN id > 0 => -100 < excess /\ excess < 100

(* What a training is told of its trigger agrees whichever process it      *)
(* asks: the sizes with the samples it then gets (a partition is never     *)
(* larger than fits in memory, and no sample is in two), and, in a process *)
(* that knows of the trigger, "all labels that could be returned in the    *)
(* latest trigger training set".  The process that computed all triggers   *)
(* names the downsampler whose thresholds they have reached.               *)
AnswersExact ==
  LET latest == Len(triggers) - 1
  IN /\ response.kind = "sizes" =>
          /\ response.num_samples = Cardinality(Drawn(latest))
          /\ response.num_samples <= response.num_partitions * maximum_keys_in_memory
     /\ response.kind = "samples" => response.samples \subseteq Promised(latest)
     /\ (response.kind = "labels" /\ next_trigger_id[response.process] = Len(triggers)) =>
          response.labels = {Label[k] : k \in Promised(latest)}
     /\ (response.kind = "strategy" /\ reconnects = 0 /\ response.process = connection) =>
          response.downsampler = Cardinality({i \in DOMAIN Thresholds : Thresholds[i] <= Len(triggers)})
=============================================================================
