-------------------------- MODULE PipelineExecutor --------------------------
(***************************************************************************)
(* The process the supervisor forks for one pipeline                       *)
(* (supervisor/internal/pipeline_executor).  It reads samples from storage *)
(* -- a bounded replay, or polling for new data -- cuts every response     *)
(* into batches, asks the trigger policy where to trigger, informs the     *)
(* selector, and trains on every non-empty trigger.                        *)
(*                                                                         *)
(* A sample is its key: the k-th sample storage inserts has key k, and     *)
(* stored[k] is its timestamp.  Labels and logs are left out.  The         *)
(* selector is the sequence of samples it was informed about, with the     *)
(* position of every trigger in it.                                        *)
(***************************************************************************)
EXTENDS Integers, SequencesExt

CONSTANTS
  Configs,              \* the pipeline configurations, see BatchAssumption
  Times,                \* timestamps a sample may have
  MaxSamples,           \* bound: samples storage receives
  MaxInformed,          \* bound: no new poll once this many were informed
  MaxStorageErrors,     \* bound: requests storage gives up
  StorageBatchSize,     \* storage: sample_batch_size
  SelectorBatchSize,    \* executor: _selector_batch_size
  DataPointsForTrigger, \* DataAmountTrigger: data_points_for_trigger
  TriggerEvery          \* TimeTrigger: trigger_every_s

ASSUME BatchAssumption ==
  /\ StorageBatchSize \in Nat \ {0}
  /\ SelectorBatchSize \in Nat \ {0}
  /\ DataPointsForTrigger \in Nat \ {0}
  /\ TriggerEvery \in Nat \ {0}
  /\ Times \subseteq Nat \ {0}
  /\ MaxSamples \in Nat /\ MaxStorageErrors \in Nat
  /\ Configs \subseteq [experiment : BOOLEAN, trigger : {"DataAmountTrigger", "TimeTrigger"},
                        maximum_triggers : Nat, start : Nat, stop : Nat,
                        use_previous_model : BOOLEAN, initial_model : Nat]

NoLimit == 0            \* maximum_triggers is None (the client rejects 0)
NoModel == 0            \* previous_model_id is None (model ids start at 1)
NotSet == 0             \* next_trigger_at is None

VARIABLES
  stored,               \* storage: timestamp of each sample, by key
  late,                 \* keys stored with an older timestamp than a stored one
  storage_errors,       \* requests that ended early because storage failed
  config,               \* the configuration this pipeline was started with
  pc,                   \* where the executor is
  last_timestamp, previous_largest_keys, largest_keys, continue_running,
  responses,            \* samples of the current request still to be read
  new_data,             \* samples of the current response still to be handled
  batch, triggering_positions, previous_trigger_idx,
  remaining_data_points, next_trigger_at,
  num_triggers, previous_model_id,
  stream,               \* replay: the samples of the replay interval
  informed,             \* selector: samples it was informed about, in order
  trigger_ends,         \* selector: Len(informed) at each trigger
  trainings             \* trainings started, in order

storageVars == <<stored, late, storage_errors>>
pollVars == <<last_timestamp, previous_largest_keys, largest_keys, continue_running>>
batchVars == <<batch, triggering_positions, previous_trigger_idx>>
policyVars == <<remaining_data_points, next_trigger_at>>
selectorVars == <<informed, trigger_ends>>
trainingVars == <<previous_model_id, trainings>>
vars == <<storageVars, config, pc, pollVars, responses, new_data, batchVars,
          policyVars, num_triggers, selectorVars, trainingVars, stream>>

Keys == DOMAIN stored
Earlier(a, b) == stored[a] < stored[b]
NotLater(a, b) == stored[a] <= stored[b]

LimitReached(n) ==
  config.maximum_triggers # NoLimit /\ n >= config.maximum_triggers
-----------------------------------------------------------------------------
(* Storage.  A sample's timestamp is its file's modification time; files   *)
(* are found in any order, so a sample may be older than a stored one.     *)
StoreSample(t) ==
  /\ Len(stored) < MaxSamples
  /\ stored' = Append(stored, t)
  /\ late' = IF \E k \in Keys : stored[k] > t
               THEN late \cup {Len(stored) + 1} ELSE late
  /\ UNCHANGED <<storage_errors, config, pc, pollVars, responses, new_data, batchVars, policyVars,
                 num_triggers, selectorVars, trainingVars, stream>>

(* GetNewDataSince(from) and GetDataInInterval(from, to): both ends are    *)
(* inclusive; rows come in timestamp order, ties in any order.             *)
InInterval(from, to) == {k \in Keys : from <= stored[k] /\ stored[k] <= to}
ByTimestamp(S) == {s \in SetToSeqs(S) : IsSorted(s, NotLater)}

(* send_sample_id_and_label: full responses, then one with the rest.       *)
Response == SubSeq(responses, 1, Min({StorageBatchSize, Len(responses)}))
NextResponses == SubSeq(responses, StorageBatchSize + 1, Len(responses))

(* An exception inside storage ends the stream of responses early, with    *)
(* status OK: the client cannot tell it from the end of the data.          *)
StorageFails ==
  /\ pc = "stream" /\ responses # <<>>
  /\ storage_errors < MaxStorageErrors
  /\ storage_errors' = storage_errors + 1
  /\ responses' = <<>>
  /\ UNCHANGED <<stored, late, config, pc, pollVars, new_data, batchVars, policyVars,
                 num_triggers, selectorVars, trainingVars, stream>>

(* get_new_data_since has no upper end.                                    *)
Unbounded == Max(Times)
-----------------------------------------------------------------------------
(* DataAmountTrigger.inform and TimeTrigger.inform.  The code returns the  *)
(* 0-based index of each triggering sample, -1 when the trigger precedes   *)
(* the batch; here it is how many samples of the batch the trigger takes.  *)
FirstPosition == DataPointsForTrigger - remaining_data_points
Reached(b) == IF Len(b) < FirstPosition THEN 0
              ELSE (Len(b) - FirstPosition) \div DataPointsForTrigger + 1
AmountPositions(b) ==
  [n \in 1 .. Reached(b) |-> FirstPosition + (n - 1) * DataPointsForTrigger]

ClockStart(b) == IF next_trigger_at = NotSet THEN stored[b[1]] + TriggerEvery
                                             ELSE next_trigger_at
Elapsed(b) == IF stored[Last(b)] < ClockStart(b) THEN 0
              ELSE (stored[Last(b)] - ClockStart(b)) \div TriggerEvery + 1
TimePositions(b) ==
  [n \in 1 .. Elapsed(b) |->
     Cardinality({i \in DOMAIN b : stored[b[i]] < ClockStart(b) + (n - 1) * TriggerEvery})]

TriggeringPositions(b) ==
  IF config.trigger = "DataAmountTrigger" THEN AmountPositions(b) ELSE TimePositions(b)

(* The policy's own state after it was informed of b.                      *)
PolicyStep(b) ==
  IF config.trigger = "DataAmountTrigger"
    THEN /\ remaining_data_points' = (remaining_data_points + Len(b)) % DataPointsForTrigger
         /\ UNCHANGED next_trigger_at
    ELSE /\ next_trigger_at' = ClockStart(b) + Elapsed(b) * TriggerEvery
         /\ UNCHANGED remaining_data_points
-----------------------------------------------------------------------------
(* replay_data: one request for the whole interval.                        *)
ReplayInterval ==
  IF config.stop = NotSet THEN InInterval(config.start, Unbounded)
                          ELSE InInterval(config.start, config.stop)

ReplayData ==
  /\ pc = "replay"
  /\ \E s \in ByTimestamp(ReplayInterval) :
        stream' = s /\ responses' = s
  /\ pc' = "stream"
  /\ UNCHANGED <<storageVars, config, pollVars, new_data, batchVars, policyVars,
                 num_triggers, selectorVars, trainingVars>>

(* wait_for_new_data: one round of the polling loop.  The request is       *)
(* inclusive, hence the filter in NextResponse.                            *)
FromLastTimestamp == InInterval(last_timestamp, Unbounded)

FetchNewData ==
  /\ pc = "fetch"
  /\ Len(informed) < MaxInformed
  /\ responses' \in ByTimestamp(FromLastTimestamp)
  /\ largest_keys' = {}
  /\ pc' = "stream"
  /\ UNCHANGED <<storageVars, config, last_timestamp, previous_largest_keys,
                 continue_running, new_data, batchVars, policyVars, num_triggers,
                 selectorVars, trainingVars, stream>>

(* The next response of the request; the polling loop drops the keys it    *)
(* remembers and advances last_timestamp.  _handle_new_data sorts.         *)
ProcessedBeforeByTime(k) ==     \* mutant: filter on the timestamp
  ~config.experiment /\ stored[k] <= last_timestamp
ProcessedBefore(k) == ~config.experiment /\ k \in previous_largest_keys
TimestampAfter(S) ==
  IF S = {} THEN last_timestamp ELSE Max({stored[k] : k \in S})

(* sorted() on the timestamps is stable.                                   *)
SentBefore(a, b) == \E i, j \in DOMAIN Response : i < j /\ Response[i] = a /\ Response[j] = b
SortsBefore(a, b) == Earlier(a, b) \/ (NotLater(a, b) /\ SentBefore(a, b))
Sorted(S) == {s \in SetToSeqs(S) : \A i, j \in DOMAIN s : i < j => SortsBefore(s[i], s[j])}

NextResponse ==
  /\ pc = "stream" /\ responses # <<>>
  /\ LET data == {k \in ToSet(Response) : ~ProcessedBefore(k)}
         newest == TimestampAfter(data)
     IN /\ new_data' \in Sorted(data)
        /\ IF config.experiment
             THEN UNCHANGED <<last_timestamp, largest_keys>>
             ELSE /\ last_timestamp' = newest
                  /\ largest_keys' = largest_keys \cup {k \in data : stored[k] = newest}
  /\ responses' = NextResponses
  /\ pc' = "data"
  /\ UNCHANGED <<storageVars, config, previous_largest_keys, continue_running,
                 batchVars, policyVars, num_triggers, selectorVars, trainingVars, stream>>

(* The loop over the responses has ended.                                  *)
EndOfStream ==
  /\ pc = "stream" /\ responses = <<>>
  /\ IF config.experiment
       THEN /\ pc' = "done" /\ UNCHANGED previous_largest_keys
       ELSE /\ previous_largest_keys' = largest_keys
            /\ pc' = IF continue_running THEN "fetch" ELSE "done"
  /\ UNCHANGED <<storageVars, config, last_timestamp, largest_keys, continue_running,
                 responses, new_data, batchVars, policyVars, num_triggers,
                 selectorVars, trainingVars, stream>>
-----------------------------------------------------------------------------
(* _handle_new_data and _handle_new_data_batch.                            *)
NextBatch == SubSeq(new_data, 1, Min({SelectorBatchSize, Len(new_data)}))
AfterBatch == SubSeq(new_data, SelectorBatchSize + 1, Len(new_data))

(* The requests to the selector: its samples, or samples and a trigger.    *)
InformSelector(data) == informed' = informed \o data
Trigger(data) ==
  /\ InformSelector(data)
  /\ trigger_ends' = Append(trigger_ends, Len(informed'))

HandleBatchWithoutTrigger ==
  /\ pc = "data" /\ new_data # <<>>
  /\ TriggeringPositions(NextBatch) = <<>>
  /\ PolicyStep(NextBatch)
  /\ InformSelector(NextBatch)
  /\ new_data' = IF LimitReached(num_triggers) THEN <<>> ELSE AfterBatch
  /\ UNCHANGED <<storageVars, config, pc, pollVars, responses, batchVars,
                 num_triggers, trigger_ends, trainingVars, stream>>

HandleBatchWithTriggers ==
  /\ pc = "data" /\ new_data # <<>>
  /\ TriggeringPositions(NextBatch) # <<>>
  /\ PolicyStep(NextBatch)
  /\ batch' = NextBatch
  /\ triggering_positions' = TriggeringPositions(NextBatch)
  /\ previous_trigger_idx' = 0
  /\ new_data' = AfterBatch
  /\ pc' = "trigger"
  /\ UNCHANGED <<storageVars, config, pollVars, responses, num_triggers,
                 selectorVars, trainingVars, stream>>

(* The response is handled: replay_data leaves its loop at the trigger     *)
(* limit; wait_for_new_data only remembers not to poll again.              *)
EndOfResponse ==
  /\ pc = "data" /\ new_data = <<>>
  /\ pc' = "stream"
  /\ IF config.experiment
       THEN /\ responses' = IF LimitReached(num_triggers) THEN <<>> ELSE responses
            /\ UNCHANGED continue_running
       ELSE /\ continue_running' = (continue_running /\ ~LimitReached(num_triggers))
            /\ UNCHANGED responses
  /\ UNCHANGED <<storageVars, config, last_timestamp, previous_largest_keys, largest_keys,
                 new_data, batchVars, policyVars, num_triggers, selectorVars,
                 trainingVars, stream>>
-----------------------------------------------------------------------------
(* _handle_triggers_within_batch, one iteration of its loop in two steps,  *)
(* with _run_training between them when the trigger has samples.           *)
TriggeringDataFromStart ==      \* mutant: previous_trigger_idx is ignored
  SubSeq(batch, 1, Head(triggering_positions))
TriggeringData == SubSeq(batch, previous_trigger_idx + 1, Head(triggering_positions))

TrainOrSkipAlways == "train"    \* mutant: empty triggers are trained
TrainOrSkip ==
  IF Len(informed') > (IF trigger_ends = <<>> THEN 0 ELSE Last(trigger_ends))
    THEN "train" ELSE "after_trigger"

InformSelectorAndTrigger ==
  /\ pc = "trigger"
  /\ Trigger(TriggeringData)
  /\ previous_trigger_idx' = Head(triggering_positions)
  /\ pc' = TrainOrSkip
  /\ UNCHANGED <<storageVars, config, pollVars, responses, new_data, batch,
                 triggering_positions, policyVars, num_triggers, trainingVars, stream>>

(* _run_training: the model continues previous_model_id.                   *)
StartTraining ==
  /\ pc = "train"
  /\ trainings' = Append(trainings,
       [trigger |-> Len(trigger_ends), from |-> previous_model_id,
        model |-> NoModel, informed |-> Len(informed)])
  /\ pc' = "training"
  /\ UNCHANGED <<storageVars, config, pollVars, responses, new_data, batchVars,
                 policyVars, num_triggers, selectorVars, previous_model_id, stream>>

(* The training ended and its model is stored under the next model id.     *)
PreviousModel(model) == IF config.use_previous_model THEN model ELSE previous_model_id

StoreTrainedModel ==
  /\ pc = "training"
  /\ LET model == Len(trainings) + config.initial_model
     IN /\ trainings' = [trainings EXCEPT ![Len(trainings)].model = model]
        /\ previous_model_id' = PreviousModel(model)
  /\ pc' = "after_trigger"
  /\ UNCHANGED <<storageVars, config, pollVars, responses, new_data, batchVars,
                 policyVars, num_triggers, selectorVars, stream>>

LastOfBatch == Len(triggering_positions) = 1
RemainingDataDropped == <<>>    \* mutant: the rest of the batch is lost
RemainingData == SubSeq(batch, Head(triggering_positions) + 1, Len(batch))

FinishTrigger ==
  /\ pc = "after_trigger"
  /\ InformSelector(IF LastOfBatch THEN RemainingData ELSE <<>>)
  /\ num_triggers' = num_triggers + 1
  /\ IF LastOfBatch \/ LimitReached(num_triggers')
       THEN /\ pc' = "data"
            /\ batch' = <<>> /\ triggering_positions' = <<>> /\ previous_trigger_idx' = 0
            /\ new_data' = IF LimitReached(num_triggers') THEN <<>> ELSE new_data
       ELSE /\ pc' = "trigger"
            /\ triggering_positions' = Tail(triggering_positions)
            /\ UNCHANGED <<batch, previous_trigger_idx, new_data>>
  /\ UNCHANGED <<storageVars, config, pollVars, responses, policyVars, trigger_ends,
                 trainingVars, stream>>
-----------------------------------------------------------------------------
Stopped == pc \in {"done", "failed"}

(* A call raised: a failed training, a lost connection.  execute_pipeline  *)
(* reports the exception and the process exits.                            *)
Fail ==
  /\ ~Stopped
  /\ pc' = "failed"
  /\ UNCHANGED <<storageVars, config, pollVars, responses, new_data, batchVars, policyVars,
                 num_triggers, selectorVars, trainingVars, stream>>

(* CTRL+C while waiting for data: the pipeline ends as if it were done.    *)
Interrupt ==
  /\ ~Stopped /\ ~config.experiment
  /\ pc' = "done"
  /\ UNCHANGED <<storageVars, config, pollVars, responses, new_data, batchVars, policyVars,
                 num_triggers, selectorVars, trainingVars, stream>>
-----------------------------------------------------------------------------
Init ==
  /\ config \in Configs
  /\ stored = <<>> /\ late = {} /\ storage_errors = 0
  /\ pc = IF config.experiment THEN "replay" ELSE "fetch"
  /\ last_timestamp = config.start
  /\ previous_largest_keys = {} /\ largest_keys = {} /\ continue_running = TRUE
  /\ responses = <<>> /\ new_data = <<>>
  /\ batch = <<>> /\ triggering_positions = <<>> /\ previous_trigger_idx = 0
  /\ remaining_data_points = 0 /\ next_trigger_at = NotSet
  /\ num_triggers = 0
  /\ informed = <<>> /\ trigger_ends = <<>>
  /\ previous_model_id = config.initial_model /\ trainings = <<>>
  /\ stream = <<>>

Execute ==
  \/ ReplayData \/ FetchNewData \/ NextResponse \/ EndOfStream
  \/ HandleBatchWithoutTrigger \/ HandleBatchWithTriggers \/ EndOfResponse
  \/ InformSelectorAndTrigger \/ StartTraining \/ StoreTrainedModel \/ FinishTrigger

Next == Execute \/ Fail \/ Interrupt \/ StorageFails \/ \E t \in Times : StoreSample(t)

(* The executor is one sequential process whose calls return or raise.     *)
Spec == Init /\ [][Next]_vars /\ WF_vars(Execute)
-----------------------------------------------------------------------------
Triggers == 1 .. Len(trigger_ends)
TriggerData(i) ==
  SubSeq(informed, IF i = 1 THEN 1 ELSE trigger_ends[i - 1] + 1, trigger_ends[i])
NonEmptyTriggers == {i \in Triggers : TriggerData(i) # <<>>}

TypeOK ==
  /\ stored \in Seq(Times) /\ Len(stored) <= MaxSamples
  /\ late \subseteq Keys
  /\ storage_errors \in 0 .. MaxStorageErrors
  /\ config \in Configs
  /\ pc \in {"replay", "fetch", "stream", "data", "trigger", "train", "training",
             "after_trigger", "done", "failed"}
  /\ last_timestamp \in Nat
  /\ previous_largest_keys \subseteq Keys /\ largest_keys \subseteq Keys
  /\ continue_running \in BOOLEAN
  /\ responses \in Seq(Keys)
  /\ new_data \in Seq(Keys) /\ batch \in Seq(Keys)
  /\ triggering_positions \in Seq(0 .. Len(batch))
  /\ previous_trigger_idx \in 0 .. Len(batch)
  /\ remaining_data_points \in 0 .. DataPointsForTrigger - 1
  /\ next_trigger_at \in Nat
  /\ num_triggers \in Nat /\ previous_model_id \in Nat
  /\ informed \in Seq(Keys) /\ stream \in Seq(Keys)
  /\ trigger_ends \in Seq(0 .. Len(informed))
  /\ trainings \in Seq([trigger : Nat, from : Nat, model : Nat, informed : Nat])

(* Every trigger up to the limit, after which the rest is dropped, follows *)
(* the policy however the samples were split into responses and batches.   *)
(* A trigger of the amount policy covers exactly data_points_for_trigger   *)
(* samples; the n-th of the time policy holds exactly the samples of the   *)
(* n-th window of trigger_every_s seconds since the first sample, also     *)
(* when several windows end within one batch or none has a sample.         *)
WithinLimit(i) == config.maximum_triggers = NoLimit \/ i <= config.maximum_triggers

AmountTriggersExact ==
  \A i \in Triggers : WithinLimit(i) => Len(TriggerData(i)) = DataPointsForTrigger

WindowOf(k) == (stored[k] - stored[informed[1]]) \div TriggerEvery + 1
TimeTriggersMatchWindows ==
  \A i \in Triggers : WithinLimit(i) => \A k \in ToSet(TriggerData(i)) : WindowOf(k) = i

TriggersFollowPolicy ==
  IF config.trigger = "DataAmountTrigger" THEN AmountTriggersExact ELSE TimeTriggersMatchWindows

(* Trainings follow the non-empty triggers one by one, each continues the  *)
(* model the configuration asks for, and each starts before the selector   *)
(* hears of any sample beyond its trigger.                                 *)
TrainingsFollowTriggers ==
  /\ \A i, j \in DOMAIN trainings : i < j => trainings[i].trigger < trainings[j].trigger
  /\ \A j \in DOMAIN trainings : trainings[j].trigger \in NonEmptyTriggers
  /\ \A i \in NonEmptyTriggers :
       i < Len(trigger_ends) \/ pc \notin {"train", "failed", "done"}
         => \E j \in DOMAIN trainings : trainings[j].trigger = i
  /\ \A j \in DOMAIN trainings :
       /\ trainings[j].informed = trigger_ends[trainings[j].trigger]
       /\ trainings[j].from = IF j = 1 \/ ~config.use_previous_model
                                THEN config.initial_model ELSE trainings[j - 1].model

(* A replay hands the interval's samples over in order, each once, stops   *)
(* triggering at the limit, and ends as done only when all was handed over *)
(* or the limit was reached, or when storage gave up.                      *)
ReplayFeed == INSTANCE SampleFeed WITH
  Sample <- 1 .. MaxSamples,
  limit <- config.maximum_triggers,
  stream <- stream,
  informed <- IF config.experiment THEN informed ELSE <<>>,
  trigger_ends <- IF config.experiment THEN trigger_ends ELSE <<>>,
  finished <- config.experiment /\ pc = "done" /\ storage_errors = 0
ReplayRefinesFeed == ReplayFeed!Spec

(* A polling pipeline informs the selector of every sample stored in time  *)
(* order from its start on, unless it stops.  (MaxInformed also stops it.) *)
InOrderSamplesInformed ==
  \A k \in 1 .. MaxSamples :
    (~config.experiment /\ k \in Keys \ late /\ stored[k] >= config.start)
      ~> (k \in ToSet(informed) \/ Stopped \/ Len(informed) >= MaxInformed)
=============================================================================
