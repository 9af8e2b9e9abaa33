------------------------- MODULE TrainerDownsampling -------------------------
(***************************************************************************)
(* A training that selects among the samples of its trigger itself: before *)
(* an epoch from the whole training set (sample then batch), or from every *)
(* batch (batch then sample).  The downsampler is informed of the samples  *)
(* with the model's output for them, for some strategies label by label.   *)
(* A selection before an epoch is written to files of the trainer server,  *)
(* from which the dataloader's workers take their keys and weights until   *)
(* the next selection.                                                     *)
(*                                                                         *)
(* The status queries that are answered meanwhile are in TrainerServer,    *)
(* how the workers fetch the data of their keys is in OnlineDataset.       *)
(***************************************************************************)
EXTENDS Downsamplers
LOCAL INSTANCE SequencesExt
LOCAL INSTANCE Functions

CONSTANTS
  Configurations,     \* what the selector may have configured: see ConfigOK
  TrainingSets,       \* sequences of samples: records of a label and a score
  AllLabels,
  num_dataloaders,
  epochs_per_trigger

Matrix == {"gradmatch", "kcenter", "submodular"}
Strategies == Matrix \cup {"loss", "gradnorm", "uncertainty", "craig"}

(* The constructors of the selector's downsampling strategies refuse the   *)
(* rest.                                                                   *)
ConfigOK(c) ==
  /\ c.strategy \in Strategies /\ c.downsampling_ratio \in 1 .. 100
  /\ c.balance \in BOOLEAN /\ c.sample_then_batch \in BOOLEAN
  /\ c.balance => c.sample_then_batch /\ c.strategy \notin {"loss", "gradnorm"}
  /\ c.downsampling_period \in Nat /\ c.selection_batch \in Nat \ {0}
  /\ c.batch_size \in Nat \ {0}

ASSUME DownsamplingAssumption ==
  /\ \A c \in Configurations : ConfigOK(c)
  /\ \A t \in TrainingSets : \A i \in DOMAIN t : t[i].label \in AllLabels /\ t[i].score \in Nat
  /\ num_dataloaders \in Nat \ {0} /\ epochs_per_trigger \in Nat \ {0}

VARIABLES
  config, training_set,
  available_labels,     \* what the selector answers: see Init
  pc, epoch,
  key_source,           \* of the training's dataloader: selector, local
  labels_left,          \* that the downsampler was not yet informed of
  index_sampleid_map,   \* the samples it was informed of, of this label
  already_selected,     \* what it selected of the labels before
  files,                \* <<partition, worker>> to what the file holds
  todo,                 \* what the dataloader has yet to yield this epoch
  informed,             \* history: all samples the selection is from,
  selection,            \* the last selection,
  downsamplings,        \* how many there were before an epoch,
  trained               \* and what this epoch trained on so far

configVars == <<config, training_set, available_labels>>
samplerVars == <<index_sampleid_map, already_selected, informed, selection>>
vars == <<configVars, pc, epoch, key_source, labels_left, samplerVars, files, todo,
          downsamplings, trained>>

Samples == DOMAIN training_set
Label(s) == training_set[s].label
OfLabel(l) == SelectSeq([s \in Samples |-> s], LAMBDA s : Label(s) = l)
AllSamples == [s \in Samples |-> s]
Pairs(s) == Range(s)
-----------------------------------------------------------------------------
(* The downsampler.                                                        *)
LabelByLabel == config.balance \/ config.strategy = "craig"

(* The output of the model for the samples, in the order they came in.     *)
Scores(ids) == [i \in DOMAIN ids |-> training_set[ids[i]].score]
InformSamples(ids) == index_sampleid_map \o ids

(* Of the samples ids, by the strategy.  A matrix of nothing raises, and   *)
(* so does the optimizer when it is to select one of no samples.           *)
SelectionsOf(ids) ==
  LET v == Scores(ids)
      label == [i \in DOMAIN ids |-> Label(ids[i])]
      target_size == TargetSize(config.downsampling_ratio, Len(ids))
      indices ==
        CASE config.strategy \in {"loss", "gradnorm"} -> Multinomial(v, target_size)
          [] config.strategy = "uncertainty" -> Uncertainty(v, target_size)
          [] config.strategy = "gradmatch" -> MatchingPursuit(v, target_size)
          [] config.strategy = "kcenter" ->
               IF v = <<>> THEN {} ELSE k_center_greedy(v, target_size)
          [] config.strategy = "submodular" ->
               Submodular(config.function, config.optimizer, Kernel(v), Len(v),
                          DOMAIN v, target_size)
          [] config.strategy = "craig" ->
               Craig(v, label, config.optimizer, config.selection_batch, target_size)
  IN {[k \in DOMAIN s |-> <<ids[s[k][1]], s[k][2]>>] : s \in indices}

(* _shuffle_list_and_tensor.                                               *)
Shuffles(s) == {[k \in DOMAIN s |-> s[p[k]]] : p \in SetToSeqs(DOMAIN s)}

SelectPoints ==
  CASE config.balance -> Shuffles(already_selected)
    [] config.strategy \in {"loss", "gradnorm", "craig"} -> SelectionsOf(index_sampleid_map)
    [] OTHER -> UNION {Shuffles(s) : s \in SelectionsOf(index_sampleid_map)}

(* init_downsampler: of the balanced strategies only craig forgets what it *)
(* selected before.                                                        *)
AfterInitKept == already_selected    \* mutant: craig keeps it as well
AfterInit == IF config.strategy = "craig" THEN <<>> ELSE already_selected

Fail ==
  /\ pc' = "failed"
  /\ UNCHANGED <<configVars, epoch, key_source, labels_left, samplerVars, files, todo,
                 downsamplings, trained>>
-----------------------------------------------------------------------------
(* LocalDatasetWriter: a file per dataloader worker in each partition, the *)
(* rest in the last; one file when there are fewer samples than workers.   *)
file_size == num_dataloaders * config.batch_size

Partition(s, p) ==
  SubSeq(s, p * file_size + 1, IF Len(s) < (p + 1) * file_size THEN Len(s) ELSE (p + 1) * file_size)
FullPartitions(s) == Len(s) \div file_size    \* mutant: finalize stores nothing
NumPartitions(s) == (Len(s) + file_size - 1) \div file_size

FileOf(samples, w) ==
  LET samples_per_proc == Len(samples) \div num_dataloaders
      last == w = num_dataloaders - 1 \/ samples_per_proc = 0
      end == IF last THEN Len(samples) ELSE (w + 1) * samples_per_proc
  IN SubSeq(samples, w * samples_per_proc + 1, end)
FilesOf(samples) ==
  IF Len(samples) < num_dataloaders THEN {0} ELSE 0 .. num_dataloaders - 1

Written(s) ==
  LET names == UNION {{p} \X FilesOf(Partition(s, p)) : p \in 0 .. NumPartitions(s) - 1}
  IN [n \in names |-> FileOf(Partition(s, n[1]), n[2])]

(* save_trigger_samples looks for the names without their suffix, finds    *)
(* none, and overwrites.  Files of an earlier selection that the new one   *)
(* has not stay where they are.                                            *)
Overwrite(old, new) ==
  [n \in DOMAIN old \cup DOMAIN new |-> IF n \in DOMAIN new THEN new[n] ELSE old[n]]

(* LocalKeySource: the partitions that any file is of, and of each the     *)
(* file of the worker.                                                     *)
PartitionIds == {n[1] : n \in DOMAIN files}
FileIds == 0 .. num_dataloaders - 1
LocalKeys == [n \in {m \in PartitionIds \X FileIds : m \in DOMAIN files} |-> files[n]]
-----------------------------------------------------------------------------
SampleThenBatchThisEpoch ==
  /\ config.sample_then_batch
  /\ IF config.downsampling_period = 0 THEN epoch = 0
     ELSE epoch % config.downsampling_period = 0

(* What the dataloader's workers yield.  The storage returns a key once    *)
(* however often a worker's file has it.                                   *)
(* weights_handling: without weights in a batch every sample counts once.  *)
Unweigh(ids) == [k \in DOMAIN ids |-> <<ids[k], 1>>]
KeysOf(source, stored) ==
  IF source = "selector" THEN Unweigh(AllSamples)
  ELSE FoldLeft(LAMBDA s, n : s \o SetToSeq(Pairs(stored[n])), <<>>,
                SetToSeq(DOMAIN stored))

(* train: an epoch begins, with a selection if one is due:                 *)
(* downsample_trigger_training_set starts with the selector's keys again.  *)
BeginEpoch ==
  /\ pc = "epoch" /\ epoch < epochs_per_trigger /\ ~SampleThenBatchThisEpoch
  /\ pc' = "training" /\ todo' = KeysOf(key_source, LocalKeys) /\ trained' = {}
  /\ UNCHANGED <<configVars, epoch, key_source, labels_left, samplerVars, files, downsamplings>>

GetAvailableLabels == available_labels

BeginDownsampling ==
  /\ pc = "epoch" /\ epoch < epochs_per_trigger /\ SampleThenBatchThisEpoch
  /\ pc' = "scoring" /\ key_source' = "selector" /\ trained' = {}
  /\ index_sampleid_map' = <<>> /\ already_selected' = AfterInit
  /\ informed' = {} /\ selection' = <<>>
  /\ labels_left' = GetAvailableLabels
  /\ UNCHANGED <<configVars, epoch, files, todo, downsamplings>>

(* One pass over the samples of a label, and inform_end_of_current_label:  *)
(* with balance the label's samples are selected from at once.             *)
ScoreLabel(l) ==
  /\ pc = "scoring" /\ LabelByLabel /\ l \in labels_left
  /\ labels_left' = labels_left \ {l}
  /\ informed' = informed \cup Pairs(OfLabel(l))
  /\ IF config.balance
       THEN \E s \in IF OfLabel(l) = <<>> /\ config.strategy = "craig"
                       THEN {<<>>} ELSE SelectionsOf(OfLabel(l)) :
              /\ already_selected' = already_selected \o s
              /\ UNCHANGED index_sampleid_map
       ELSE /\ index_sampleid_map' = InformSamples(OfLabel(l))
            /\ UNCHANGED already_selected
  /\ UNCHANGED <<configVars, pc, epoch, key_source, selection, files, todo,
                 downsamplings, trained>>

ScoreLabelFails(l) ==
  /\ pc = "scoring" /\ config.balance /\ l \in labels_left
  /\ ~(OfLabel(l) = <<>> /\ config.strategy = "craig") /\ SelectionsOf(OfLabel(l)) = {}
  /\ Fail

ScoreAll ==
  /\ pc = "scoring" /\ ~LabelByLabel /\ labels_left # {}
  /\ labels_left' = {}
  /\ index_sampleid_map' = InformSamples(AllSamples) /\ informed' = Samples
  /\ UNCHANGED <<configVars, pc, epoch, key_source, already_selected, selection, files, todo,
                 downsamplings, trained>>

(* The selection is stored and the dataloader set to read it.              *)
EndDownsampling ==
  /\ pc = "scoring" /\ labels_left = {}
  /\ \E s \in SelectPoints :
       /\ selection' = s
       /\ files' = Overwrite(files, Written(s))
  /\ key_source' = "local" /\ downsamplings' = downsamplings + 1
  /\ pc' = "stored"
  /\ UNCHANGED <<configVars, epoch, labels_left, index_sampleid_map, already_selected, informed,
                 todo, trained>>

EndDownsamplingFails ==
  /\ pc = "scoring" /\ labels_left = {} /\ SelectPoints = {}
  /\ Fail

BeginSelectedEpoch ==
  /\ pc = "stored"
  /\ pc' = "training" /\ todo' = KeysOf("local", LocalKeys)
  /\ UNCHANGED <<configVars, epoch, key_source, labels_left, samplerVars, files, downsamplings,
                 trained>>

(* A batch, of which preprocess_batch takes the ids; batch then sample     *)
(* trains on what is selected of it.                                       *)
Batch == SubSeq(todo, 1, IF Len(todo) < config.batch_size THEN Len(todo) ELSE config.batch_size)
BatchIds == [k \in DOMAIN Batch |-> Batch[k][1]]
Rest == SubSeq(todo, Len(Batch) + 1, Len(todo))

TrainBatch ==
  /\ pc = "training" /\ todo # <<>> /\ config.sample_then_batch
  /\ trained' = trained \cup Pairs(Batch)
  /\ todo' = Rest
  /\ UNCHANGED <<configVars, pc, epoch, key_source, labels_left, samplerVars, files,
                 downsamplings>>

DownsampleBatch ==
  /\ pc = "training" /\ todo # <<>> /\ ~config.sample_then_batch
  /\ \E s \in SelectionsOf(BatchIds) :
       /\ selection' = s /\ informed' = Pairs(BatchIds)
       /\ trained' = trained \cup Pairs(s)
  /\ todo' = Rest
  /\ index_sampleid_map' = BatchIds
  /\ UNCHANGED <<configVars, pc, epoch, key_source, labels_left, already_selected, files,
                 downsamplings>>

DownsampleBatchFails ==
  /\ pc = "training" /\ todo # <<>> /\ ~config.sample_then_batch
  /\ SelectionsOf(BatchIds) = {}
  /\ Fail

EndEpoch ==
  /\ pc = "training" /\ todo = <<>>
  /\ pc' = "epoch" /\ epoch' = epoch + 1
  /\ UNCHANGED <<configVars, key_source, labels_left, samplerVars, files, todo, downsamplings,
                 trained>>

(* The files of the trigger are removed when the dataloader read them.     *)
EndOfTriggerCleaning ==
  /\ pc = "epoch" /\ epoch = epochs_per_trigger
  /\ pc' = "done"
  /\ files' = IF key_source = "local" THEN <<>> ELSE files
  /\ UNCHANGED <<configVars, epoch, key_source, labels_left, samplerVars, todo, downsamplings,
                 trained>>
-----------------------------------------------------------------------------
(* The selector knows the labels of the trigger; others it knows of may    *)
(* have been presampled away, and those of new samples it may not know.    *)
Init ==
  /\ config \in Configurations /\ training_set \in TrainingSets
  /\ available_labels \in (SUBSET AllLabels) \ {{}}
  /\ pc = "epoch" /\ epoch = 0 /\ key_source = "selector" /\ labels_left = {}
  /\ index_sampleid_map = <<>> /\ already_selected = <<>>
  /\ files = <<>> /\ todo = <<>>
  /\ informed = {} /\ selection = <<>> /\ downsamplings = 0 /\ trained = {}

Next ==
  \/ BeginEpoch \/ BeginDownsampling
  \/ \E l \in AllLabels : ScoreLabel(l) \/ ScoreLabelFails(l)
  \/ ScoreAll \/ EndDownsampling \/ EndDownsamplingFails \/ BeginSelectedEpoch
  \/ TrainBatch \/ DownsampleBatch \/ DownsampleBatchFails \/ EndEpoch
  \/ EndOfTriggerCleaning

Spec == Init /\ [][Next]_vars
-----------------------------------------------------------------------------
TypeOK ==
  /\ ConfigOK(config) /\ training_set \in TrainingSets /\ available_labels \subseteq AllLabels
  /\ pc \in {"epoch", "scoring", "stored", "training", "done", "failed"}
  /\ epoch \in 0 .. epochs_per_trigger /\ key_source \in {"selector", "local"}
  /\ labels_left \subseteq AllLabels /\ Range(index_sampleid_map) \subseteq Samples
  /\ \A n \in DOMAIN files : n[1] \in Nat /\ n[2] \in 0 .. num_dataloaders - 1
  /\ \A s \in Pairs(selection) \cup Pairs(already_selected) \cup trained : s[1] \in Samples
  /\ informed \subseteq Samples /\ downsamplings \in 0 .. epochs_per_trigger

(* What was just selected: before an epoch, or from a batch.               *)
JustSelected == pc = "stored" \/ (pc = "training" /\ ~config.sample_then_batch /\ trained # {})
ShareOf(k, n) ==
  /\ k >= 1
  /\ k = 1 \/ 100 * k <= config.downsampling_ratio * n
  /\ 100 * (k + 1) > config.downsampling_ratio * n
SelectedOf(l) == Len(SelectSeq(selection, LAMBDA s : Label(s[1]) = l))

(* The strategies that draw a fixed number select the configured share of  *)
(* the samples that they were informed of, at least one and only of those; *)
(* a balanced selection has this share of every label.  A strategy that    *)
(* does not forget its earlier selection is only held to the first one.    *)
SelectionAsConfigured ==
  JustSelected =>
    /\ \A s \in Pairs(selection) : s[1] \in informed
    /\ ~config.balance /\ config.strategy # "gradmatch" /\ informed # {} =>
         ShareOf(Len(selection), Cardinality(informed))
    /\ config.balance /\ config.strategy # "gradmatch"
         /\ (config.strategy = "craig" \/ downsamplings = 1) =>
         \A l \in available_labels : OfLabel(l) # <<>> =>
           ShareOf(SelectedOf(l), Len(OfLabel(l)))

(* An epoch after a selection trains on the samples that were selected     *)
(* last, each with the weight it was selected with; also on others only    *)
(* when fewer are selected than before, which gradmatch may do.            *)
EpochTrainsSelection ==
  pc \in {"epoch", "done"} /\ epoch > 0 /\ config.sample_then_batch =>
    /\ Pairs(selection) \subseteq trained
    /\ config.strategy # "gradmatch" => trained = Pairs(selection)

(* What the coreset strategies select is close to the best selection of    *)
(* that size: no sample is more than twice as far from a center as with    *)
(* the best centers; the samples are represented at least 63% as well as   *)
(* by any other selection, as long as a class fits into one batch of the   *)
(* gain computation.                                                       *)
Value(s) == training_set[s].score
Radius(S) ==
  LET near(s) == CHOOSE d \in {Distance(Value(s), Value(c)) : c \in S} :
                   \A c \in S : d <= Distance(Value(s), Value(c))
  IN CHOOSE r \in {near(s) : s \in informed} : \A s \in informed : near(s) <= r
Others(S) == {T \in SUBSET informed : Cardinality(T) = Cardinality(S)}

CoresetNearOptimal ==
  JustSelected /\ ~config.balance /\ informed # {} =>
    LET S == {s[1] : s \in Pairs(selection)}
        ids == SetToSortSeq(informed, <)
        v == [i \in DOMAIN ids |-> Value(ids[i])]
        matrix == IF config.strategy = "craig"
                  THEN DistanceMatrix(v, [i \in DOMAIN ids |-> Label(ids[i])]) ELSE Kernel(v)
        Quality(T) == Represented(matrix, DOMAIN ids, {i \in DOMAIN ids : ids[i] \in T})
    IN /\ config.strategy = "kcenter" => \A T \in Others(S) : Radius(S) <= 2 * Radius(T)
       /\ \/ config.strategy = "craig" /\ config.selection_batch >= Cardinality(informed)
          \/ config.strategy = "submodular" /\ config.function = "FacilityLocation"
          => \A T \in Others(S) : 63 * Quality(T) <= 100 * Quality(S)

(* AbstractMatrixDownsamplingStrategy: with balance a downsampling of 50%  *)
(* of classes of 10, 50 and 30 samples leaves 5, 25 and 15.                *)
BalancedDownsampling ==
  pc = "stored" /\ config.balance /\ config.strategy = "kcenter" =>
    \A l \in available_labels : ShareOf(SelectedOf(l), Len(OfLabel(l)))
=============================================================================
