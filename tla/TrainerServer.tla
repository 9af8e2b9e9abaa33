---------------------------- MODULE TrainerServer ----------------------------
(***************************************************************************)
(* One training at the trainer server: the gRPC service that answers for   *)
(* it, the training process it started, the four queues between the two,   *)
(* and the pipeline executor that polls the status until the training has  *)
(* ended and then has the model stored.                                    *)
(*                                                                         *)
(* The service asks the process how far it is by putting a query into one  *)
(* of two queues and waiting for an answer with a timeout.  The process    *)
(* looks into the queue of what it does (training, or downsampling the     *)
(* training set before an epoch) once per batch.  A query that timed out   *)
(* stays in its queue, and so does its late answer; one that comes while   *)
(* the process still sets itself up waits for the first batch.             *)
(*                                                                         *)
(* Every batch has one sample.                                             *)
(***************************************************************************)
EXTENDS Integers, Sequences

CONSTANTS
  Requests,           \* what the executor may ask for, see TrainingRequest
  epochs_per_trigger,
  Batches,            \* batches of an epoch
  DownsamplingBatches,
  Periods,            \* values of downsampling_period; -1: no downsampling
  PipeCapacity,       \* answers that fit into a queue's pipe
  MaxOutstanding,     \* bound: queries and answers in a pair of queues
  MaxModelQueries     \* bound: get_latest_model requests

(* The part of a StartTrainingRequest that makes a difference here.        *)
TrainingRequest == [use_pretrained_model : BOOLEAN, checkpoint_interval : Nat]

ASSUME TrainerAssumption ==
  /\ Requests \subseteq TrainingRequest
  /\ epochs_per_trigger \in Nat \ {0} /\ Batches \in Nat \ {0}
  /\ DownsamplingBatches \in Nat \ {0} /\ Periods \subseteq Nat \cup {-1}
  /\ PipeCapacity \in Nat /\ MaxOutstanding \in Nat \ {0} /\ MaxModelQueries \in Nat

VARIABLES
  request, downsampling_period,
  pc, epoch, batch_number,    \* the training process
  num_samples,                \* trained on so far
  model_state,                \* what the training started from: none, new, pretrained
  checkpoints,                \* the files at checkpoint_path
  pretrained_file,            \* trained_model_<id>.modyn: absent, broken, present
  query, answers,             \* of each queue, what waits in it
  exception_queue,
  log_file,                   \* whether a log was written
  model_file,                 \* model_final.modyn: absent, partial, complete
  handler,                    \* the get_training_status request in progress
  was_training,
  model_handler,              \* the get_latest_model request in progress
  model_queries,
  executor,                   \* starting, waiting, trained, stored, failed
  reported,                   \* samples_seen of the last status with progress
  stored,                     \* history: what was registered as the model
  died                        \* history: how the process ended early

settings == <<request, downsampling_period>>     \* TrainingInfo and the selector's answer
setupVars == <<model_state, pretrained_file>>
processVars == <<settings, setupVars, checkpoints, pc, epoch, batch_number, num_samples,
                 exception_queue, log_file, died>>
serverVars == <<handler, was_training>>
executorVars == <<executor, reported, stored>>
modelVars == <<model_handler, model_queries>>
vars == <<processVars, query, answers, model_file, serverVars, modelVars, executorVars>>

Queues == {"training", "downsampling"}
Status(n, active) == [kind |-> "status", num_samples |-> n, training_active |-> active]
ModelState == [kind |-> "model"]
-----------------------------------------------------------------------------
(* The training process.                                                   *)
Alive == pc \notin {"none", "exited"}
Reading == pc \in {"created", "epoch", "downsampling", "downsampled", "training"}

(* The downloaded model is loaded, which needs the file, and removed.      *)
LoadStateKeepingFile ==                           \* mutant: the file is not removed
  /\ pretrained_file = "present"
  /\ model_state' = "pretrained" /\ pretrained_file' = pretrained_file
LoadState ==
  /\ pretrained_file = "present"
  /\ model_state' = "pretrained" /\ pretrained_file' = "absent"

(* PytorchTrainer.__init__: model, optimizers, state, directories, loaders *)
SetUp ==
  /\ pc = "created"
  /\ IF request.use_pretrained_model THEN LoadState
       ELSE model_state' = "new" /\ UNCHANGED pretrained_file
  /\ pc' = "epoch" /\ log_file' = FALSE
  /\ UNCHANGED <<settings, checkpoints, epoch, batch_number, num_samples, exception_queue,
                 died, query, answers, model_file, serverVars, modelVars, executorVars>>

SampleThenBatchThisEpoch ==
  CASE downsampling_period = -1 -> FALSE
    [] downsampling_period = 0 -> epoch = 0
    [] OTHER -> epoch % downsampling_period = 0

(* update_queue: at most one query is answered.  A query that was just put *)
(* may not have arrived yet.                                               *)
Answer(q, status) ==
  LET a == IF Head(query[q]) = "status" THEN status ELSE ModelState
  IN /\ query[q] # <<>>
     /\ query' = [query EXCEPT ![q] = Tail(@)]
     /\ answers' =
          IF Head(query[q]) = "status" THEN [answers EXCEPT ![q] = Append(@, a)]
          ELSE [answers EXCEPT !["training"] = Append(@, a)]
UpdateQueue(q, status) == Answer(q, status) \/ UNCHANGED <<query, answers>>

EpochsLeft == epoch < epochs_per_trigger

SamplesThisEpoch == batch_number                  \* mutant: restarts with every epoch
SamplesSeen == num_samples

BeginEpoch ==
  /\ pc = "epoch" /\ EpochsLeft
  /\ IF SampleThenBatchThisEpoch
       THEN UpdateQueue("training", Status(SamplesSeen, FALSE)) /\ pc' = "downsampling"
       ELSE UNCHANGED <<query, answers>> /\ pc' = "training"
  /\ batch_number' = 0
  /\ UNCHANGED <<settings, setupVars, checkpoints, epoch, num_samples, exception_queue,
                 log_file, died, model_file, serverVars, modelVars, executorVars>>

DownsampleBatch ==
  /\ pc = "downsampling"
  /\ UpdateQueue("downsampling", Status(batch_number, FALSE))
  /\ batch_number' = batch_number + 1
  /\ pc' = IF batch_number + 1 = DownsamplingBatches THEN "downsampled" ELSE pc
  /\ UNCHANGED <<settings, setupVars, checkpoints, epoch, num_samples, exception_queue,
                 log_file, died, model_file, serverVars, modelVars, executorVars>>

EndDownsampling ==
  /\ pc = "downsampled"
  /\ UpdateQueue("downsampling", Status(batch_number, TRUE))
  /\ batch_number' = 0 /\ pc' = "training"
  /\ UNCHANGED <<settings, setupVars, checkpoints, epoch, num_samples, exception_queue,
                 log_file, died, model_file, serverVars, modelVars, executorVars>>

(* save_state of a checkpoint: the state and the batch it was made after;  *)
(* the checkpoint of the same batch in an earlier epoch is overwritten.    *)
(* The samples it was made after are its age: each has more than the last. *)
CheckpointEntries == {"model", "optimizers", "iteration"}
WithCheckpoint ==
  {c \in checkpoints : c.iteration # batch_number}
    \cup {[iteration |-> batch_number, entries |-> CheckpointEntries, num_samples |-> num_samples]}

TrainBatch ==
  /\ pc = "training"
  /\ checkpoints' =
       IF request.checkpoint_interval > 0 /\ batch_number % request.checkpoint_interval = 0
         THEN WithCheckpoint ELSE checkpoints
  /\ UpdateQueue("training", Status(SamplesSeen, TRUE))
  /\ num_samples' = num_samples + 1
  /\ IF batch_number + 1 < Batches
       THEN /\ batch_number' = batch_number + 1
            /\ UNCHANGED <<pc, epoch, log_file>>
       ELSE /\ batch_number' = 0 /\ epoch' = epoch + 1
            /\ pc' = "epoch" /\ log_file' = TRUE
  /\ UNCHANGED <<settings, setupVars, exception_queue, died, model_file, serverVars,
                 modelVars, executorVars>>

BeginSave ==
  /\ pc = "epoch" /\ ~EpochsLeft
  /\ pc' = "saving" /\ model_file' = "partial"
  /\ UNCHANGED <<settings, setupVars, checkpoints, epoch, batch_number, num_samples,
                 exception_queue, log_file, died, query, answers, serverVars, modelVars, executorVars>>

EndSave ==
  /\ pc = "saving"
  /\ pc' = "cleaning" /\ model_file' = "complete"
  /\ UNCHANGED <<settings, setupVars, checkpoints, epoch, batch_number, num_samples,
                 exception_queue, log_file, died, query, answers, serverVars, modelVars, executorVars>>

Cleaned ==
  /\ pc = "cleaning" /\ pc' = "ending"
  /\ UNCHANGED <<settings, setupVars, checkpoints, epoch, batch_number, num_samples,
                 exception_queue, log_file, died, query, answers, model_file, serverVars, modelVars, executorVars>>

(* train(): an exception goes into the exception queue, and the downloaded *)
(* model is removed if it is still there.                                  *)
HandleException ==
  /\ exception_queue' = TRUE /\ died' = "raised" /\ pc' = "ending"
  /\ pretrained_file' = "absent"
  /\ UNCHANGED <<settings, model_state, checkpoints, epoch, batch_number, num_samples, log_file,
                 query, answers, model_file, serverVars, modelVars, executorVars>>

(* An optimizer or a scheduler that is not supported, a selector that does *)
(* not answer.                                                             *)
RejectTraining == pc = "created" /\ HandleException

Raise == pc \notin {"none", "created", "ending", "exited"} /\ HandleException

(* A process exits when its answers are in the pipes, the rest is read.    *)
Flushed == \A q \in Queues : Len(answers[q]) <= PipeCapacity
Exit ==
  /\ pc = "ending" /\ Flushed
  /\ pc' = "exited"
  /\ UNCHANGED <<settings, setupVars, checkpoints, epoch, batch_number, num_samples,
                 exception_queue, log_file, died, query, answers, model_file, serverVars, modelVars, executorVars>>

(* The process is killed (out of memory, for instance).                    *)
Kill ==
  /\ pc \notin {"none", "ending", "exited"}
  /\ died' = IF pc = "saving" THEN "killed_while_saving" ELSE "killed"
  /\ pc' = "exited"
  /\ UNCHANGED <<settings, setupVars, checkpoints, epoch, batch_number, num_samples,
                 exception_queue, log_file, query, answers, model_file, serverVars, modelVars, executorVars>>

Train == SetUp \/ BeginEpoch \/ DownsampleBatch \/ EndDownsampling \/ TrainBatch
           \/ BeginSave \/ EndSave \/ Cleaned \/ Exit
-----------------------------------------------------------------------------
(* The service.  start_training refuses when it does not have the model's  *)
(* class or cannot get the pretrained model; a download that failed leaves *)
(* what it has written.                                                    *)
Refuse == executor' = "failed" /\ UNCHANGED pc

DownloadTrainedModel ==
  \/ /\ pretrained_file' = "present" /\ pc' = "created" /\ executor' = "waiting"
  \/ /\ pretrained_file' \in {"absent", "broken", "present"} /\ Refuse

StartTraining ==
  /\ executor = "starting"
  /\ \/ Refuse /\ UNCHANGED pretrained_file
     \/ IF request.use_pretrained_model THEN DownloadTrainedModel
          ELSE pc' = "created" /\ executor' = "waiting" /\ UNCHANGED pretrained_file
  /\ UNCHANGED <<settings, model_state, checkpoints, epoch, batch_number, num_samples,
                 exception_queue, log_file, died, query, answers, model_file, serverVars,
                 modelVars, reported, stored>>

(* Queries that nobody will read are not kept.                             *)
Outstanding(q) == Len(query[q]) + Len(answers[q])
Put(q, message) == IF Reading THEN [query EXCEPT ![q] = Append(@, message)] ELSE query

(* get_training_status: the queue that answered last is asked first.       *)
FirstQueue == IF was_training THEN "training" ELSE "downsampling"
Other(q) == IF q = "training" THEN "downsampling" ELSE "training"

AskStatus ==
  /\ executor = "waiting" /\ handler = "none" /\ Alive
  /\ Reading => \A q \in Queues : Outstanding(q) < MaxOutstanding
  /\ handler' = "first"
  /\ query' = Put(FirstQueue, "status")
  /\ UNCHANGED <<processVars, answers, model_file, was_training, modelVars, executorVars>>

AskedQueue == IF handler = "first" THEN FirstQueue ELSE Other(FirstQueue)

(* clean_training_queue, clean_downsampling_queue: what is left in a queue *)
(* is discarded when its answer says that the other activity is on.        *)
Remaining(q, active) ==
  IF (q = FirstQueue) /\ (active # was_training) THEN <<>> ELSE Tail(answers[q])

ReceiveStatus ==
  /\ handler \in {"first", "second"} /\ answers[AskedQueue] # <<>>
  /\ LET q == AskedQueue
         a == Head(answers[q])
     IN IF a.kind = "status"
          THEN /\ answers' = [answers EXCEPT ![q] = Remaining(q, a.training_active)]
               /\ was_training' = a.training_active
               /\ reported' = IF q = "training" THEN a.num_samples ELSE reported
               /\ UNCHANGED executor
          ELSE /\ answers' = [answers EXCEPT ![q] = Tail(@)]
               /\ executor' = "failed"
               /\ UNCHANGED <<was_training, reported>>
  /\ handler' = "none"
  /\ UNCHANGED <<processVars, query, model_file, modelVars, stored>>

(* No answer in 15 seconds.  Without an answer the training's queue counts *)
(* as one to be cleaned, so what has come in since is lost.                *)
FirstTimeout ==
  /\ handler = "first" /\ answers[AskedQueue] = <<>>
  /\ handler' = "timed_out"
  /\ UNCHANGED <<processVars, query, answers, model_file, was_training, modelVars, executorVars>>

(* Then the other queue is asked; when that does not answer either, the    *)
(* status is "blocked", which the executor ignores.                        *)
AskedAgainSame == "first"       \* mutant: the same queue is asked again
AskedAgain == "second"

AskSecond ==
  /\ handler = "timed_out"
  /\ handler' = AskedAgain
  /\ answers' = IF was_training THEN [answers EXCEPT !["training"] = <<>>] ELSE answers
  /\ query' = Put(Other(FirstQueue), "status")
  /\ UNCHANGED <<processVars, model_file, was_training, modelVars, executorVars>>

SecondTimeout ==
  /\ handler = "second" /\ answers[AskedQueue] = <<>>
  /\ handler' = "none"
  /\ UNCHANGED <<processVars, query, answers, model_file, was_training, modelVars, executorVars>>

(* The status of a process that has exited: its exception, if any, and its *)
(* log, which the executor parses.                                         *)
StatusWithoutException == log_file     \* mutant: the exception queue is not read
FinishedCleanly == ~exception_queue /\ log_file

(* get_latest_checkpoint: the oldest with what is looked for.              *)
UsableCheckpoints == {c \in checkpoints : {"num_batches", "num_samples"} \subseteq c.entries}
OldestUsable ==
  CHOOSE c \in UsableCheckpoints : \A d \in UsableCheckpoints : c.num_samples <= d.num_samples

FinalStatus ==
  /\ executor = "waiting" /\ handler = "none" /\ ~Alive
  /\ reported' = IF UsableCheckpoints = {} THEN reported ELSE OldestUsable.num_samples
  /\ executor' = IF FinishedCleanly THEN "trained" ELSE "failed"
  /\ exception_queue' = FALSE
  /\ UNCHANGED <<settings, setupVars, checkpoints, pc, epoch, batch_number, num_samples,
                 log_file, died, query, answers, model_file, serverVars, modelVars, stored>>

(* store_final_model: registered at the model storage, then deleted here.  *)
StoreFinalModel ==
  /\ executor = "trained" /\ ~Alive
  /\ \/ /\ model_file # "absent"
        /\ executor' = "stored" /\ stored' = model_file /\ model_file' = "absent"
     \/ /\ executor' = "failed"     \* no file, or the model storage refused it
        /\ UNCHANGED <<model_file, stored>>
  /\ UNCHANGED <<processVars, query, answers, serverVars, modelVars, reported>>

(* get_latest_model of a running training shares the training's queues; of *)
(* one that has ended it looks for a checkpoint.                           *)
AskModel ==
  /\ model_handler = "none" /\ Alive /\ model_queries < MaxModelQueries
  /\ model_handler' = "waiting" /\ model_queries' = model_queries + 1
  /\ query' = Put("training", "model")
  /\ UNCHANGED <<processVars, answers, model_file, serverVars, executorVars>>

ReceiveModel ==
  /\ model_handler = "waiting"
  /\ IF answers["training"] # <<>>
       THEN answers' = [answers EXCEPT !["training"] = Tail(@)]
       ELSE UNCHANGED answers     \* no answer in 30 seconds
  /\ model_handler' = "none"
  /\ UNCHANGED <<processVars, query, model_file, serverVars, model_queries, executorVars>>

Serve == StartTraining \/ AskStatus \/ ReceiveStatus \/ FirstTimeout \/ AskSecond \/ SecondTimeout
           \/ FinalStatus \/ StoreFinalModel
-----------------------------------------------------------------------------
Init ==
  /\ request \in Requests /\ downsampling_period \in Periods
  /\ model_state = "none" /\ checkpoints = {} /\ pretrained_file = "absent"
  /\ pc = "none" /\ epoch = 0 /\ batch_number = 0 /\ num_samples = 0
  /\ query = [q \in Queues |-> <<>>] /\ answers = [q \in Queues |-> <<>>]
  /\ exception_queue = FALSE /\ log_file = FALSE /\ model_file = "absent"
  /\ handler = "none" /\ was_training = TRUE
  /\ model_handler = "none" /\ model_queries = 0
  /\ executor = "starting" /\ reported = 0 /\ stored = "absent" /\ died = "no"

Next == Train \/ RejectTraining \/ Raise \/ Kill \/ Serve \/ AskModel \/ ReceiveModel

(* The process and the service's threads run; the executor polls until the *)
(* training has ended.  Nothing makes anybody ask for the latest model.    *)
Spec == Init /\ [][Next]_vars /\ WF_vars(Train) /\ WF_vars(Serve) /\ WF_vars(ReceiveModel)
-----------------------------------------------------------------------------
Message == [kind : {"status"}, num_samples : 0 .. epochs_per_trigger * Batches + DownsamplingBatches,
            training_active : BOOLEAN] \cup {ModelState}
Checkpoint == [iteration : 0 .. Batches - 1, entries : {CheckpointEntries},
               num_samples : 0 .. epochs_per_trigger * Batches]
TypeOK ==
  /\ request \in Requests /\ downsampling_period \in Periods
  /\ model_state \in {"none", "new", "pretrained"} /\ checkpoints \subseteq Checkpoint
  /\ pretrained_file \in {"absent", "broken", "present"}
  /\ pc \in {"none", "created", "epoch", "downsampling", "downsampled", "training", "saving", "cleaning",
             "ending", "exited"}
  /\ epoch \in 0 .. epochs_per_trigger
  /\ batch_number \in 0 .. Batches + DownsamplingBatches /\ num_samples \in 0 .. epochs_per_trigger * Batches
  /\ query \in [Queues -> Seq({"status", "model"})] /\ answers \in [Queues -> Seq(Message)]
  /\ exception_queue \in BOOLEAN /\ log_file \in BOOLEAN
  /\ model_file \in {"absent", "partial", "complete"}
  /\ handler \in {"none", "first", "timed_out", "second"} /\ was_training \in BOOLEAN
  /\ model_handler \in {"none", "waiting"} /\ model_queries \in 0 .. MaxModelQueries
  /\ executor \in {"starting", "waiting", "trained", "stored", "failed"}
  /\ reported \in 0 .. epochs_per_trigger * Batches
  /\ stored \in {"absent", "partial", "complete"}
  /\ died \in {"no", "raised", "killed", "killed_while_saving"}

(* The model that is stored for a trigger comes from a training that went  *)
(* through all its epochs without an exception, began with the pretrained  *)
(* model if the pipeline wanted that, and is complete unless the process   *)
(* was killed in the middle of writing it.                                 *)
StoredModelComplete ==
  executor = "stored" =>
    /\ num_samples = epochs_per_trigger * Batches
    /\ died # "raised"
    /\ model_state = IF request.use_pretrained_model THEN "pretrained" ELSE "new"
    /\ stored = "complete" \/ died = "killed_while_saving"

(* The model that was downloaded for a training does not outlive it,       *)
(* however it ends, unless the process is killed before it has loaded it.  *)
DownloadRemoved ==
  (pc = "exited" /\ pretrained_file # "absent") => (died = "killed" /\ model_state = "none")

(* Left alone by get_latest_model, the executor never gives up on a        *)
(* training before that has ended, and an exception never passes for       *)
(* success.                                                                *)
ExecutorHearsOfEveryException ==
  /\ (executor = "failed" /\ model_queries = 0) => ~Alive
  /\ died = "raised" => executor \in {"waiting", "failed"}

(* However late the answers are, the samples reported for a training never *)
(* go back.                                                                *)
ProgressNeverGoesBack == [][reported' >= reported]_vars

(* The executor always learns that the training ended: a process that has  *)
(* answers left to deliver can exit because the polls read them.           *)
ExecutorFinishes == <>(executor \in {"stored", "failed"})
=============================================================================
