-------------------------- MODULE TrainerServerProofs --------------------------
(***************************************************************************)
(* The safety properties of TrainerServer that the runs check, for every   *)
(* number of epochs and batches, every downsampling period, size of a pipe *)
(* and number of requests.                                                 *)
(***************************************************************************)
EXTENDS TrainerServer, TLAPS

AllSamples == epochs_per_trigger * Batches
StartedRight == model_state = IF request.use_pretrained_model THEN "pretrained" ELSE "new"

(* What has been trained on at each point of the process.  A model file    *)
(* exists only once all epochs are through, and is whole once saved.       *)
TrainingInv ==
  /\ pc \in {"none", "created"} => epoch = 0 /\ model_state = "none" /\ died = "no"
  /\ pc \in {"none", "created", "epoch", "downsampling", "downsampled"} => num_samples = epoch * Batches
  /\ pc \in {"downsampling", "downsampled", "training"} => epoch < epochs_per_trigger
  /\ pc = "downsampling" => batch_number < DownsamplingBatches
  /\ pc = "training" => batch_number < Batches /\ num_samples = epoch * Batches + batch_number
  /\ Alive /\ pc \notin {"created", "ending"} => StartedRight
  /\ pc \in {"saving", "cleaning"} => epoch = epochs_per_trigger /\ num_samples = AllSamples
  /\ Alive /\ pc # "ending" => died = "no"
  /\ pc \in {"none", "created", "epoch", "downsampling", "downsampled", "training"} =>
       model_file = "absent"
  /\ model_file # "absent" => num_samples = AllSamples /\ StartedRight
  /\ model_file = "partial" => pc = "saving" \/ died \in {"raised", "killed_while_saving"}

(* The executor leaves a training alone that it has not started, and hears *)
(* of its exception when it has ended.                                     *)
ExecutorInv ==
  /\ executor = "starting" => pc = "none"
  /\ pc = "none" => executor \in {"starting", "failed"}
  /\ executor \in {"trained", "stored"} => pc = "exited" /\ died # "raised"
  /\ died = "raised" /\ executor = "waiting" => exception_queue
  /\ executor = "stored" => num_samples = AllSamples /\ StartedRight

(* A model is sent to those who ask for the status only if somebody asked  *)
(* for it.                                                                 *)
ModelInv ==
  \A q \in Queues :
    /\ \A i \in DOMAIN query[q] : query[q][i] = "model" => model_queries > 0
    /\ \A i \in DOMAIN answers[q] : answers[q][i].kind = "model" => model_queries > 0

(* The downloaded model is there until it is loaded.                       *)
DownloadInv ==
  /\ ~request.use_pretrained_model => pretrained_file = "absent"
  /\ Alive /\ pc # "created" => pretrained_file = "absent"

(* The answers about the training wait in the order of their progress,     *)
(* which is between what was reported and what was trained on.             *)
IsStatus(a) == a.kind = "status"
InProgressOrder(waiting, lo, hi) ==
  /\ lo <= hi
  /\ \A i \in DOMAIN waiting :
       IsStatus(waiting[i]) => lo <= waiting[i].num_samples /\ waiting[i].num_samples <= hi
  /\ \A i, j \in DOMAIN waiting :
       i < j /\ IsStatus(waiting[i]) /\ IsStatus(waiting[j]) =>
         waiting[i].num_samples <= waiting[j].num_samples
ProgressInv == InProgressOrder(answers["training"], reported, num_samples)

IInv == /\ TypeOK /\ TrainingInv /\ ExecutorInv /\ ModelInv /\ DownloadInv /\ ProgressInv
        /\ StoredModelComplete /\ DownloadRemoved /\ ExecutorHearsOfEveryException
-----------------------------------------------------------------------------
(* Arithmetic of epochs and batches.                                       *)
LEMMA Constants == epochs_per_trigger \in Nat \ {0} /\ Batches \in Nat \ {0} /\ DownsamplingBatches \in Nat \ {0}
BY TrainerAssumption

LEMMA EpochArithmetic ==
  /\ AllSamples \in Nat /\ Batches <= AllSamples
  /\ \A e \in 0 .. epochs_per_trigger :
       /\ e * Batches \in Nat /\ e * Batches <= AllSamples /\ (e + 1) * Batches = e * Batches + Batches
       /\ e < epochs_per_trigger => e * Batches + Batches <= AllSamples
<1> DEFINE E == epochs_per_trigger
           B == Batches
<1>1. E \in Nat \ {0} /\ B \in Nat \ {0}
  BY Constants
<1>2. E * B \in Nat /\ B <= E * B
  <2> HIDE DEF E, B
  <2> QED BY <1>1
<1>3. ASSUME NEW e \in 0 .. E
      PROVE  /\ e * B \in Nat /\ e * B <= E * B /\ (e + 1) * B = e * B + B
             /\ e < E => e * B + B <= E * B
  <2> HIDE DEF E, B
  <2>1. e * B \in Nat /\ (e + 1) * B = e * B + B
    BY <1>1
  <2>2. PICK d \in Nat : E = e + d
    <3>1. E - e \in Nat /\ E = e + (E - e)
      BY <1>1
    <3> QED BY <3>1
  <2>3. E * B = e * B + d * B /\ d * B \in Nat
    BY <1>1, <2>2
  <2>4. d >= 1 => d * B >= B
    BY <1>1
  <2>5. e < E => d >= 1
    BY <1>1, <2>2
  <2>6. d * B >= 0
    BY <2>3
  <2> QED BY <1>1, <2>1, <2>3, <2>4, <2>5, <2>6
<1> QED BY <1>2, <1>3 DEF AllSamples
-----------------------------------------------------------------------------
(* Type correctness.                                                       *)
QueryType == [Queues -> Seq({"status", "model"})]
AnswersType == [Queues -> Seq(Message)]

LEMMA StatusIsMessage ==
  ASSUME NEW n \in 0 .. AllSamples + DownsamplingBatches, NEW active \in BOOLEAN
  PROVE  Status(n, active) \in Message /\ ModelState \in Message
BY DEF Status, Message, ModelState, AllSamples

LEMMA UpdateQueueType ==
  ASSUME query \in QueryType, answers \in AnswersType, NEW q \in Queues,
         NEW n \in 0 .. AllSamples + DownsamplingBatches, NEW active \in BOOLEAN,
         UpdateQueue(q, Status(n, active))
  PROVE  query' \in QueryType /\ answers' \in AnswersType
<1>1. Status(n, active) \in Message /\ ModelState \in Message
  BY StatusIsMessage
<1>2. CASE Answer(q, Status(n, active))
  <2>1. query[q] \in Seq({"status", "model"}) /\ query[q] # <<>>
    BY <1>2 DEF Answer, QueryType
  <2>2. Tail(query[q]) \in Seq({"status", "model"})
    BY <2>1
  <2>3. query' \in QueryType
    BY <1>2, <2>2 DEF Answer, QueryType
  <2>4. "training" \in Queues
    BY DEF Queues
  <2>5. PICK r \in Queues, a \in Message : answers' = [answers EXCEPT ![r] = Append(@, a)]
    <3> HIDE DEF Queues
    <3> QED BY <1>1, <1>2, <2>4 DEF Answer
  <2>6. Append(answers[r], a) \in Seq(Message)
    BY <2>5 DEF AnswersType
  <2> QED BY <2>3, <2>5, <2>6 DEF AnswersType
<1> QED BY <1>2 DEF UpdateQueue

(* The requests put into a queue and the answers taken out of it.          *)
LEMMA PutType ==
  ASSUME query \in QueryType, NEW q \in Queues, NEW message \in {"status", "model"}
  PROVE  Put(q, message) \in QueryType
<1>1. Append(query[q], message) \in Seq({"status", "model"})
  BY DEF QueryType
<1> QED BY <1>1 DEF Put, QueryType

LEMMA RemovedType ==
  ASSUME answers \in AnswersType, NEW q \in Queues, answers[q] # <<>>
  PROVE  /\ Head(answers[q]) \in Message
         /\ [answers EXCEPT ![q] = Tail(@)] \in AnswersType
         /\ [answers EXCEPT ![q] = <<>>] \in AnswersType
         /\ \A active \in BOOLEAN : [answers EXCEPT ![q] = Remaining(q, active)] \in AnswersType
<1>1. answers[q] \in Seq(Message)
  BY DEF AnswersType
<1>2. Head(answers[q]) \in Message /\ Tail(answers[q]) \in Seq(Message) /\ <<>> \in Seq(Message)
  BY <1>1
<1> QED BY <1>2 DEF AnswersType, Remaining

LEMMA QueueNames == /\ "training" \in Queues /\ FirstQueue \in Queues /\ AskedQueue \in Queues
                    /\ \A q \in Queues : Other(q) \in Queues
BY DEF Queues, FirstQueue, AskedQueue, Other

LEMMA TypeStep == TypeOK /\ TrainingInv /\ ProgressInv /\ [Next]_vars => TypeOK'
<1> SUFFICES ASSUME TypeOK, TrainingInv, ProgressInv, [Next]_vars PROVE TypeOK'
  OBVIOUS
<1> USE DEF settings, setupVars, processVars, serverVars, executorVars, modelVars
<1>2. query \in QueryType /\ answers \in AnswersType
  BY DEF TypeOK, QueryType, AnswersType
<1>3. epoch \in 0 .. epochs_per_trigger /\ num_samples \in 0 .. AllSamples /\ num_samples \in 0 .. AllSamples + DownsamplingBatches
  BY EpochArithmetic, Constants DEF TypeOK, AllSamples
<1>4. batch_number \in 0 .. AllSamples + DownsamplingBatches
  BY EpochArithmetic, Constants DEF TypeOK
<1>6. CASE SetUp
  <2>1. /\ model_state' \in {"new", "pretrained"} /\ pretrained_file' \in {"absent", pretrained_file}
        /\ pc' = "epoch"
        /\ UNCHANGED <<settings, checkpoints, epoch, batch_number, num_samples, exception_queue,
                       died, query, answers, model_file, serverVars, modelVars, executorVars>>
    BY <1>6 DEF SetUp, LoadState
  <2>2. log_file' \in BOOLEAN
    BY <1>6 DEF SetUp
  <2> QED BY <2>1, <2>2 DEF TypeOK
<1>7. CASE BeginEpoch
  <2>1. query' \in QueryType /\ answers' \in AnswersType
    <3>1. CASE UpdateQueue("training", Status(num_samples, FALSE))
      BY <3>1, <1>2, <1>3, QueueNames, UpdateQueueType
    <3> QED BY <1>2, <1>7, <3>1 DEF BeginEpoch, SamplesSeen
  <2>2. /\ pc' \in {"downsampling", "training"} /\ batch_number' = 0
        /\ UNCHANGED <<settings, setupVars, checkpoints, epoch, num_samples, exception_queue,
                       log_file, died, model_file, serverVars, modelVars, executorVars>>
    BY <1>7 DEF BeginEpoch
  <2> QED BY <2>1, <2>2, Constants DEF TypeOK, QueryType, AnswersType
<1>8. CASE DownsampleBatch
  <2>1. query' \in QueryType /\ answers' \in AnswersType
    BY <1>2, <1>4, <1>8, QueueNames, UpdateQueueType DEF DownsampleBatch, Queues
  <2>2. /\ pc' \in {"downsampling", "downsampled"} /\ batch_number' \in 0 .. Batches + DownsamplingBatches
        /\ UNCHANGED <<settings, setupVars, checkpoints, epoch, num_samples, exception_queue,
                       log_file, died, model_file, serverVars, modelVars, executorVars>>
    BY <1>8, Constants DEF DownsampleBatch, TrainingInv, TypeOK
  <2> QED BY <2>1, <2>2 DEF TypeOK, QueryType, AnswersType
<1>9. CASE EndDownsampling
  <2>1. query' \in QueryType /\ answers' \in AnswersType
    BY <1>2, <1>4, <1>9, QueueNames, UpdateQueueType DEF EndDownsampling, Queues
  <2>2. /\ pc' = "training" /\ batch_number' = 0
        /\ UNCHANGED <<settings, setupVars, checkpoints, epoch, num_samples, exception_queue,
                       log_file, died, model_file, serverVars, modelVars, executorVars>>
    BY <1>9 DEF EndDownsampling
  <2> QED BY <2>1, <2>2, Constants DEF TypeOK, QueryType, AnswersType
<1>10. CASE TrainBatch
  <2>1. query' \in QueryType /\ answers' \in AnswersType
    BY <1>2, <1>3, <1>10, QueueNames, UpdateQueueType DEF TrainBatch, SamplesSeen
  <2>2. epoch < epochs_per_trigger /\ batch_number \in 0 .. Batches - 1 /\ num_samples = epoch * Batches + batch_number
    BY <1>10, Constants DEF TrainBatch, TrainingInv, TypeOK
  <2>3. num_samples' \in 0 .. AllSamples
    BY <1>3, <1>10, <2>2, EpochArithmetic, Constants DEF TrainBatch
  <2>4. checkpoints' \subseteq Checkpoint
    <3>1. WithCheckpoint \subseteq Checkpoint
      BY <1>3, <2>2 DEF WithCheckpoint, Checkpoint, TypeOK, AllSamples
    <3> QED BY <1>10, <3>1 DEF TrainBatch, TypeOK
  <2>5. log_file' \in BOOLEAN
    BY <1>10 DEF TrainBatch, TypeOK
  <2>6. /\ pc' \in {"epoch", "training"}
        /\ batch_number' \in 0 .. Batches /\ epoch' \in 0 .. epochs_per_trigger
        /\ UNCHANGED <<settings, setupVars, exception_queue, died, model_file, serverVars,
                       modelVars, executorVars>>
    BY <1>3, <1>10, <2>2, Constants DEF TrainBatch
  <2> QED BY <2>1, <2>3, <2>4, <2>5, <2>6, Constants DEF TypeOK, QueryType, AnswersType, AllSamples
<1>11. CASE BeginSave \/ EndSave \/ Cleaned \/ Exit
  BY <1>11 DEF BeginSave, EndSave, Cleaned, Exit, TypeOK
<1>12. CASE RejectTraining \/ Raise
  <2>1. /\ died' = "raised" /\ pc' = "ending" /\ pretrained_file' = "absent"
        /\ UNCHANGED <<settings, model_state, checkpoints, epoch, batch_number, num_samples, log_file,
                       query, answers, model_file, serverVars, modelVars, executorVars>>
    BY <1>12 DEF RejectTraining, Raise, HandleException
  <2>2. exception_queue' \in BOOLEAN
    BY <1>12 DEF RejectTraining, Raise, HandleException
  <2> QED BY <2>1, <2>2 DEF TypeOK
<1>13. CASE Kill
  BY <1>13 DEF Kill, TypeOK
<1>14. CASE StartTraining
  BY <1>14 DEF StartTraining, Refuse, DownloadTrainedModel, TypeOK
<1>15. CASE AskStatus
  <2>1. query' \in QueryType
    BY <1>2, <1>15, PutType, QueueNames DEF AskStatus
  <2> QED BY <1>15, <2>1 DEF AskStatus, TypeOK, QueryType
<1>16. CASE ReceiveStatus
  <2> DEFINE a == Head(answers[AskedQueue])
  <2>1. a \in Message /\ answers[AskedQueue] # <<>>
    BY <1>2, <1>16, QueueNames, RemovedType DEF ReceiveStatus
  <2>2. a.kind = "status" => a.training_active \in BOOLEAN
    BY <2>1 DEF Message, ModelState
  <2>3. answers' \in AnswersType
    BY <1>2, <1>16, <2>1, <2>2, QueueNames, RemovedType DEF ReceiveStatus
  <2>4. reported' \in 0 .. AllSamples
    <3>1. answers["training"] \in Seq(Message)
      BY <1>2 DEF AnswersType, Queues
    <3>2. CASE AskedQueue = "training" /\ a.kind = "status"
      <4>1. reported <= a.num_samples /\ a.num_samples <= num_samples
        BY <2>1, <3>1, <3>2 DEF ProgressInv, InProgressOrder, IsStatus
      <4>2. a.num_samples \in Int
        BY <2>1, <3>2, Constants, EpochArithmetic DEF Message, ModelState, AllSamples
      <4> QED BY <1>3, <1>16, <3>2, <4>1, <4>2, EpochArithmetic DEF ReceiveStatus, TypeOK, AllSamples
    <3> QED BY <1>16, <3>2 DEF ReceiveStatus, TypeOK, AllSamples
  <2>5. executor' \in {executor, "failed"} /\ was_training' \in BOOLEAN
    BY <1>16, <2>2 DEF ReceiveStatus, TypeOK
  <2>6. handler' = "none" /\ UNCHANGED <<processVars, query, model_file, modelVars, stored>>
    BY <1>16 DEF ReceiveStatus
  <2> QED BY <2>3, <2>4, <2>5, <2>6 DEF TypeOK, AnswersType, AllSamples
<1>17. CASE FirstTimeout \/ SecondTimeout
  BY <1>17 DEF FirstTimeout, SecondTimeout, TypeOK
<1>18. CASE AskSecond
  <2>1. query' \in QueryType
    BY <1>2, <1>18, PutType, QueueNames DEF AskSecond
  <2>2. answers' \in AnswersType
    <3>1. [answers EXCEPT !["training"] = <<>>] \in AnswersType
      <4>1. <<>> \in Seq(Message)
        OBVIOUS
      <4> QED BY <1>2, <4>1 DEF AnswersType
    <3> QED BY <1>2, <1>18, <3>1 DEF AskSecond
  <2> QED BY <1>18, <2>1, <2>2 DEF AskSecond, AskedAgain, TypeOK, QueryType, AnswersType
<1>19. CASE FinalStatus
  <2>1. UsableCheckpoints = {}
    BY DEF UsableCheckpoints, TypeOK, Checkpoint, CheckpointEntries
  <2>2. exception_queue' \in BOOLEAN
    BY <1>19 DEF FinalStatus
  <2>3. /\ executor' \in {"trained", "failed"} /\ reported' = reported
        /\ UNCHANGED <<settings, setupVars, checkpoints, pc, epoch, batch_number, num_samples,
                       log_file, died, query, answers, model_file, serverVars, modelVars, stored>>
    BY <1>19, <2>1 DEF FinalStatus
  <2> QED BY <2>2, <2>3 DEF TypeOK
<1>20. CASE StoreFinalModel
  BY <1>20 DEF StoreFinalModel, TypeOK
<1>21. CASE AskModel
  <2>1. query' \in QueryType
    BY <1>2, <1>21, PutType, QueueNames DEF AskModel
  <2> QED BY <1>21, <2>1, TrainerAssumption DEF AskModel, TypeOK, QueryType
<1>22. CASE ReceiveModel
  <2>1. answers' \in AnswersType
    BY <1>2, <1>22, RemovedType, QueueNames DEF ReceiveModel
  <2> QED BY <1>22, <2>1 DEF ReceiveModel, TypeOK, AnswersType
<1>23. CASE UNCHANGED vars
  BY <1>23 DEF vars, TypeOK
<1> QED BY <1>6, <1>7, <1>8, <1>9, <1>10, <1>11, <1>12, <1>13, <1>14, <1>15, <1>16, <1>17, <1>18, <1>19, <1>20,
           <1>21, <1>22, <1>23 DEF Next, Train, Serve
-----------------------------------------------------------------------------
(* How far the training is.                                                *)
LEMMA TrainingStep ==
  TypeOK /\ TrainingInv /\ ExecutorInv /\ [Next]_vars => TrainingInv'
<1> SUFFICES ASSUME TypeOK, TrainingInv, ExecutorInv, [Next]_vars PROVE TrainingInv'
  OBVIOUS
<1> USE DEF settings, setupVars, processVars, serverVars, executorVars, modelVars, StartedRight
<1>1. epoch \in 0 .. epochs_per_trigger /\ num_samples \in 0 .. AllSamples /\ batch_number \in Nat
  BY EpochArithmetic, Constants DEF TypeOK, AllSamples
<1>6. CASE SetUp
  BY <1>6 DEF SetUp, LoadState, TrainingInv, Alive
<1>7. CASE BeginEpoch
  <2>1. /\ pc = "epoch" /\ pc' \in {"downsampling", "training"} /\ epoch < epochs_per_trigger /\ batch_number' = 0
        /\ UNCHANGED <<settings, setupVars, checkpoints, epoch, num_samples, exception_queue,
                       log_file, died, model_file, serverVars, modelVars, executorVars>>
    BY <1>7 DEF BeginEpoch, EpochsLeft
  <2>2. epoch * Batches \in Nat /\ 0 < DownsamplingBatches /\ 0 < Batches
    BY <1>1, Constants, EpochArithmetic
  <2> QED BY <1>1, <2>1, <2>2 DEF TrainingInv, Alive
<1>8. CASE DownsampleBatch
  BY <1>1, <1>8, Constants DEF DownsampleBatch, TrainingInv, Alive
<1>9. CASE EndDownsampling
  BY <1>1, <1>9, Constants, EpochArithmetic DEF EndDownsampling, TrainingInv, Alive
<1>10. CASE TrainBatch
  BY <1>1, <1>10, Constants, EpochArithmetic DEF TrainBatch, TrainingInv, Alive
<1>11. CASE BeginSave
  BY <1>1, <1>11, Constants, EpochArithmetic DEF BeginSave, EpochsLeft, TrainingInv, Alive, AllSamples
<1>12. CASE EndSave \/ Cleaned \/ Exit
  BY <1>12 DEF EndSave, Cleaned, Exit, TrainingInv, Alive
<1>13. CASE RejectTraining \/ Raise
  BY <1>13 DEF RejectTraining, Raise, HandleException, TrainingInv, Alive
<1>14. CASE Kill
  BY <1>14 DEF Kill, TrainingInv, Alive
<1>15. CASE StartTraining
  BY <1>15 DEF StartTraining, Refuse, DownloadTrainedModel, TrainingInv, ExecutorInv, Alive
<1>16. CASE AskStatus \/ ReceiveStatus \/ FirstTimeout \/ AskSecond \/ SecondTimeout \/ AskModel \/ ReceiveModel
  BY <1>16 DEF AskStatus, ReceiveStatus, FirstTimeout, AskSecond, SecondTimeout, AskModel, ReceiveModel,
               TrainingInv, Alive
<1>17. CASE FinalStatus
  BY <1>17 DEF FinalStatus, TrainingInv, Alive
<1>18. CASE StoreFinalModel
  BY <1>18 DEF StoreFinalModel, TrainingInv, Alive
<1>19. CASE UNCHANGED vars
  BY <1>19 DEF vars, TrainingInv, Alive
<1> QED BY <1>6, <1>7, <1>8, <1>9, <1>10, <1>11, <1>12, <1>13, <1>14, <1>15, <1>16, <1>17, <1>18, <1>19
        DEF Next, Train, Serve

LEMMA DownloadStep ==
  /\ TypeOK /\ TrainingInv /\ ExecutorInv /\ DownloadInv /\ DownloadRemoved /\ [Next]_vars
  => DownloadInv' /\ DownloadRemoved'
<1> SUFFICES ASSUME TypeOK, TrainingInv, ExecutorInv, DownloadInv, DownloadRemoved, [Next]_vars
             PROVE  DownloadInv' /\ DownloadRemoved'
  OBVIOUS
<1> USE DEF settings, setupVars, processVars, serverVars, executorVars, modelVars, DownloadInv, DownloadRemoved,
            Alive
<1>1. CASE SetUp
  BY <1>1 DEF SetUp, LoadState
<1>2. CASE BeginEpoch \/ DownsampleBatch \/ EndDownsampling \/ TrainBatch
  BY <1>2 DEF BeginEpoch, DownsampleBatch, EndDownsampling, TrainBatch
<1>3. CASE BeginSave \/ EndSave \/ Cleaned \/ Exit
  BY <1>3 DEF BeginSave, EndSave, Cleaned, Exit
<1>4. CASE RejectTraining \/ Raise
  BY <1>4 DEF RejectTraining, Raise, HandleException
<1>5. CASE Kill
  BY <1>5 DEF Kill, TrainingInv
<1>6. CASE StartTraining
  BY <1>6 DEF StartTraining, Refuse, DownloadTrainedModel, ExecutorInv
<1>7. CASE AskStatus \/ ReceiveStatus \/ FirstTimeout \/ AskSecond \/ SecondTimeout \/ AskModel \/ ReceiveModel
  BY <1>7 DEF AskStatus, ReceiveStatus, FirstTimeout, AskSecond, SecondTimeout, AskModel, ReceiveModel
<1>8. CASE FinalStatus \/ StoreFinalModel
  BY <1>8 DEF FinalStatus, StoreFinalModel
<1>9. CASE UNCHANGED vars
  BY <1>9 DEF vars
<1> QED BY <1>1, <1>2, <1>3, <1>4, <1>5, <1>6, <1>7, <1>8, <1>9 DEF Next, Train, Serve
-----------------------------------------------------------------------------
(* What the executor hears.                                                *)
LEMMA ExecutorStep ==
  /\ TypeOK /\ TrainingInv /\ ExecutorInv /\ StoredModelComplete /\ [Next]_vars
  => ExecutorInv' /\ StoredModelComplete'
<1> SUFFICES ASSUME TypeOK, TrainingInv, ExecutorInv, StoredModelComplete, [Next]_vars
             PROVE  ExecutorInv' /\ StoredModelComplete'
  OBVIOUS
<1> USE DEF settings, setupVars, processVars, serverVars, executorVars, modelVars, ExecutorInv, StoredModelComplete,
            StartedRight, AllSamples
<1>1. CASE SetUp \/ BeginEpoch \/ DownsampleBatch \/ EndDownsampling \/ TrainBatch
  BY <1>1 DEF SetUp, BeginEpoch, DownsampleBatch, EndDownsampling, TrainBatch
<1>2. CASE BeginSave \/ EndSave \/ Cleaned \/ Exit
  BY <1>2 DEF BeginSave, EndSave, Cleaned, Exit
<1>3. CASE RejectTraining \/ Raise
  BY <1>3 DEF RejectTraining, Raise, HandleException
<1>4. CASE Kill
  BY <1>4 DEF Kill
<1>5. CASE StartTraining
  BY <1>5 DEF StartTraining, Refuse, DownloadTrainedModel, TrainingInv
<1>6. CASE AskStatus \/ FirstTimeout \/ AskSecond \/ SecondTimeout \/ AskModel \/ ReceiveModel
  BY <1>6 DEF AskStatus, FirstTimeout, AskSecond, SecondTimeout, AskModel, ReceiveModel
<1>7. CASE ReceiveStatus
  BY <1>7 DEF ReceiveStatus
<1>8. CASE FinalStatus
  BY <1>8 DEF FinalStatus, Alive, FinishedCleanly
<1>9. CASE StoreFinalModel
  BY <1>9 DEF StoreFinalModel, TrainingInv, TypeOK
<1>10. CASE UNCHANGED vars
  BY <1>10 DEF vars
<1> QED BY <1>1, <1>2, <1>3, <1>4, <1>5, <1>6, <1>7, <1>8, <1>9, <1>10 DEF Next, Train, Serve
-----------------------------------------------------------------------------
(* What update_queue does to the queues.                                   *)
LEMMA AnswerShape ==
  ASSUME query \in QueryType, NEW q \in Queues, NEW status, Answer(q, status)
  PROVE  /\ query[q] \in Seq({"status", "model"}) /\ query[q] # <<>>
         /\ query' = [query EXCEPT ![q] = Tail(@)]
         /\ \/ query[q][1] = "status" /\ answers' = [answers EXCEPT ![q] = Append(@, status)]
            \/ query[q][1] = "model" /\ answers' = [answers EXCEPT !["training"] = Append(@, ModelState)]
<1>1. query[q] \in Seq({"status", "model"}) /\ query[q] # <<>>
  BY DEF QueryType, Answer
<1>2. Head(query[q]) = query[q][1] /\ query[q][1] \in {"status", "model"}
  BY <1>1
<1> QED BY <1>1, <1>2 DEF Answer

(* A model in a queue was asked for.                                       *)
OnlyStatus(s) == \A i \in DOMAIN s : s[i] # "model"
OnlyStatuses(s) == \A i \in DOMAIN s : s[i].kind # "model"

LEMMA ModelInvAlt ==
  ModelInv <=> \A q \in Queues : model_queries > 0 \/ (OnlyStatus(query[q]) /\ OnlyStatuses(answers[q]))
BY DEF ModelInv, OnlyStatus, OnlyStatuses

LEMMA OnlyStatusKept ==
  /\ \A s \in Seq({"status", "model"}) :
       OnlyStatus(s) => /\ OnlyStatus(Append(s, "status"))
                        /\ s # <<>> => s[1] # "model" /\ OnlyStatus(Tail(s))
  /\ \A s \in Seq(Message) :
       OnlyStatuses(s) => /\ \A n, active : OnlyStatuses(Append(s, Status(n, active)))
                          /\ s # <<>> => Head(s).kind # "model" /\ OnlyStatuses(Tail(s))
  /\ OnlyStatuses(<<>>)
<1>1. ASSUME NEW s \in Seq({"status", "model"}), OnlyStatus(s)
      PROVE  /\ OnlyStatus(Append(s, "status"))
             /\ s # <<>> => s[1] # "model" /\ OnlyStatus(Tail(s))
  BY <1>1 DEF OnlyStatus
<1>2. ASSUME NEW s \in Seq(Message), OnlyStatuses(s), NEW n, NEW active
      PROVE  OnlyStatuses(Append(s, Status(n, active)))
  BY <1>2 DEF OnlyStatuses, Status
<1>3. ASSUME NEW s \in Seq(Message), OnlyStatuses(s), s # <<>>
      PROVE  Head(s).kind # "model" /\ OnlyStatuses(Tail(s))
  BY <1>3 DEF OnlyStatuses
<1>4. OnlyStatuses(<<>>)
  BY DEF OnlyStatuses
<1> QED BY <1>1, <1>2, <1>3, <1>4

LEMMA ModelUpdate ==
  ASSUME query \in QueryType, answers \in AnswersType, ModelInv, NEW q \in Queues, NEW n, NEW active,
         UpdateQueue(q, Status(n, active)), UNCHANGED model_queries
  PROVE  ModelInv'
<1>1. CASE model_queries > 0
  BY <1>1 DEF ModelInv
<1>2. CASE ~(model_queries > 0) /\ Answer(q, Status(n, active))
  <2>1. \A r \in Queues : /\ OnlyStatus(query[r]) /\ OnlyStatuses(answers[r])
                          /\ query[r] \in Seq({"status", "model"}) /\ answers[r] \in Seq(Message)
    BY <1>2, ModelInvAlt DEF QueryType, AnswersType
  <2>2. /\ query[q] # <<>> /\ query[q][1] # "model"
        /\ query' = [query EXCEPT ![q] = Tail(@)]
        /\ answers' = [answers EXCEPT ![q] = Append(@, Status(n, active))]
    BY <1>2, <2>1, AnswerShape, OnlyStatusKept
  <2>3. \A r \in Queues : OnlyStatus(query'[r]) /\ OnlyStatuses(answers'[r])
    BY <2>1, <2>2, OnlyStatusKept DEF QueryType, AnswersType
  <2> QED BY <2>3 DEF ModelInv, OnlyStatus, OnlyStatuses
<1> QED BY <1>1, <1>2 DEF UpdateQueue, ModelInv

LEMMA ModelStep ==
  /\ TypeOK /\ TrainingInv /\ ExecutorInv /\ ModelInv /\ ExecutorHearsOfEveryException /\ [Next]_vars
  => ModelInv' /\ ExecutorHearsOfEveryException'
<1> SUFFICES ASSUME TypeOK, TrainingInv, ExecutorInv, ModelInv, ExecutorHearsOfEveryException, [Next]_vars
             PROVE  ModelInv' /\ ExecutorHearsOfEveryException'
  OBVIOUS
<1> USE DEF settings, setupVars, processVars, serverVars, executorVars, modelVars
<1>1. /\ query \in QueryType /\ answers \in AnswersType /\ model_queries \in Nat
      /\ "training" \in Queues /\ "downsampling" \in Queues
  BY TrainerAssumption DEF TypeOK, QueryType, AnswersType, Queues
<1>2. ASSUME UNCHANGED <<pc, died, executor, model_queries, answers>>, NEW q \in Queues, query' = Put(q, "status")
      PROVE  ModelInv' /\ ExecutorHearsOfEveryException'
  <2>1. \A r \in Queues : query[r] \in Seq({"status", "model"})
    BY <1>1 DEF QueryType
  <2>2. \A r \in Queues : OnlyStatus(query[r]) => OnlyStatus(query'[r])
    BY <1>1, <1>2, <2>1, OnlyStatusKept DEF Put, QueryType
  <2>3. ModelInv'
    BY <1>2, <2>2 DEF ModelInv, OnlyStatus
  <2> QED BY <1>2, <2>3 DEF ExecutorHearsOfEveryException, Alive
<1>3. ASSUME Alive /\ Alive', UNCHANGED <<died, executor, model_queries>>, NEW q \in Queues, NEW n, NEW active,
             UpdateQueue(q, Status(n, active)) \/ UNCHANGED <<query, answers>>
      PROVE  ModelInv' /\ ExecutorHearsOfEveryException'
  <2>1. ModelInv'
    BY <1>1, <1>3, ModelUpdate DEF ModelInv
  <2> QED BY <1>3, <2>1 DEF ExecutorHearsOfEveryException
<1>4. CASE SetUp
  BY <1>1, <1>3, <1>4 DEF SetUp, Alive
<1>5. CASE BeginEpoch
  BY <1>1, <1>3, <1>5 DEF BeginEpoch, Alive
<1>6. CASE DownsampleBatch
  BY <1>1, <1>3, <1>6 DEF DownsampleBatch, Alive
<1>7. CASE EndDownsampling
  BY <1>1, <1>3, <1>7 DEF EndDownsampling, Alive
<1>8. CASE TrainBatch
  BY <1>1, <1>3, <1>8 DEF TrainBatch, Alive
<1>9. CASE BeginSave \/ EndSave \/ Cleaned \/ Exit \/ Kill
  BY <1>9 DEF BeginSave, EndSave, Cleaned, Exit, Kill, ModelInv, ExecutorHearsOfEveryException, Alive
<1>10. CASE RejectTraining \/ Raise
  BY <1>10 DEF RejectTraining, Raise, HandleException, ModelInv, ExecutorHearsOfEveryException, Alive, ExecutorInv,
               TypeOK
<1>11. CASE StartTraining
  BY <1>11 DEF StartTraining, Refuse, DownloadTrainedModel, ModelInv, ExecutorHearsOfEveryException, Alive,
               ExecutorInv, TrainingInv
<1>12. CASE AskStatus
  BY <1>2, <1>12, QueueNames DEF AskStatus
<1>13. CASE ReceiveStatus
  <2> DEFINE s == answers[AskedQueue]
  <2>1. s \in Seq(Message) /\ s # <<>> /\ AskedQueue \in Queues
    BY <1>1, <1>13, QueueNames DEF AnswersType, ReceiveStatus
  <2>2. Head(s) \in Message
    BY <2>1
  <2>3. \A r \in Queues : OnlyStatuses(answers[r]) => OnlyStatuses(answers'[r])
    <3>1. OnlyStatuses(s) => OnlyStatuses(Tail(s)) /\ OnlyStatuses(<<>>)
      <4> HIDE DEF s
      <4> QED BY <2>1, OnlyStatusKept
    <3>2. \/ answers' = [answers EXCEPT ![AskedQueue] = Tail(s)]
          \/ answers' = [answers EXCEPT ![AskedQueue] = <<>>]
      BY <1>13 DEF ReceiveStatus, Remaining
    <3> QED BY <1>1, <2>1, <3>1, <3>2 DEF AnswersType
  <2>4. model_queries > 0 \/ executor' = executor
    <3>1. model_queries > 0 \/ OnlyStatuses(s)
      BY <2>1, ModelInvAlt
    <3>2. OnlyStatuses(s) => Head(s).kind # "model"
      <4> HIDE DEF s
      <4> QED BY <2>1, OnlyStatusKept
    <3>3. Head(s).kind = "status" \/ Head(s).kind = "model"
      BY <2>2 DEF Message, ModelState
    <3>4. Head(s).kind = "status" => executor' = executor
      BY <1>13 DEF ReceiveStatus
    <3> QED BY <3>1, <3>2, <3>3, <3>4
  <2>5. ModelInv'
    BY <1>13, <2>3 DEF ReceiveStatus, ModelInv, OnlyStatuses
  <2>6. executor = "waiting" \/ executor' = executor \/ executor' = "failed"
    BY <1>13 DEF ReceiveStatus
  <2> QED BY <1>1, <1>13, <2>4, <2>5, <2>6 DEF ReceiveStatus, ExecutorHearsOfEveryException, Alive
<1>14. CASE FirstTimeout \/ SecondTimeout
  BY <1>14 DEF FirstTimeout, SecondTimeout, ModelInv, ExecutorHearsOfEveryException, Alive
<1>15. CASE AskSecond
  <2>1. \A r \in Queues : query[r] \in Seq({"status", "model"})
    BY <1>1 DEF QueryType
  <2>2. \A r \in Queues : OnlyStatus(query[r]) => OnlyStatus(query'[r])
    BY <1>1, <1>15, <2>1, OnlyStatusKept, QueueNames DEF AskSecond, Put, QueryType
  <2>3. \A r \in Queues : OnlyStatuses(answers[r]) => OnlyStatuses(answers'[r])
    BY <1>1, <1>15, OnlyStatusKept DEF AskSecond, AnswersType
  <2>4. ModelInv'
    BY <1>15, <2>2, <2>3 DEF AskSecond, ModelInv, OnlyStatus, OnlyStatuses
  <2> QED BY <1>15, <2>4 DEF AskSecond, ExecutorHearsOfEveryException, Alive
<1>16. CASE FinalStatus
  BY <1>16 DEF FinalStatus, FinishedCleanly, ModelInv, ExecutorHearsOfEveryException, Alive, ExecutorInv
<1>17. CASE StoreFinalModel
  BY <1>17 DEF StoreFinalModel, ModelInv, ExecutorHearsOfEveryException, Alive, ExecutorInv
<1>18. CASE AskModel
  <2>1. model_queries' > 0
    BY <1>1, <1>18 DEF AskModel
  <2> QED BY <1>18, <2>1 DEF AskModel, ModelInv, ExecutorHearsOfEveryException
<1>19. CASE ReceiveModel
  <2>1. \A r \in Queues : OnlyStatuses(answers[r]) => OnlyStatuses(answers'[r])
    BY <1>1, <1>19, OnlyStatusKept DEF ReceiveModel, AnswersType
  <2> QED BY <1>19, <2>1 DEF ReceiveModel, ModelInv, OnlyStatuses, ExecutorHearsOfEveryException, Alive
<1>20. CASE UNCHANGED vars
  BY <1>20 DEF vars, ModelInv, ExecutorHearsOfEveryException, Alive
<1> QED BY <1>4, <1>5, <1>6, <1>7, <1>8, <1>9, <1>10, <1>11, <1>12, <1>13, <1>14, <1>15, <1>16, <1>17, <1>18,
           <1>19, <1>20 DEF Next, Train, Serve
-----------------------------------------------------------------------------
(* What the executor is told of the progress.                              *)
LEMMA OrderAppend ==
  ASSUME NEW w \in Seq(Message), NEW lo \in Nat, NEW hi \in Nat, NEW n \in Nat, NEW active \in BOOLEAN,
         InProgressOrder(w, lo, hi), n = hi
  PROVE  /\ InProgressOrder(Append(w, Status(n, active)), lo, hi)
         /\ InProgressOrder(Append(w, ModelState), lo, hi)
<1>1. ASSUME NEW a, IsStatus(a) => a.num_samples = hi
      PROVE  InProgressOrder(Append(w, a), lo, hi)
  <2> DEFINE v == Append(w, a)
  <2>1. /\ Len(v) = Len(w) + 1 /\ DOMAIN v = 1 .. Len(w) + 1 /\ DOMAIN w = 1 .. Len(w) /\ Len(w) \in Nat
        /\ v[Len(w) + 1] = a /\ \A i \in 1 .. Len(w) : v[i] = w[i]
    OBVIOUS
  <2> HIDE DEF v
  <2> QED BY <1>1, <2>1 DEF InProgressOrder, v
<1> QED BY <1>1 DEF Status, ModelState, IsStatus

LEMMA OrderTail ==
  ASSUME NEW w \in Seq(Message), NEW lo \in Nat, NEW hi \in Nat, InProgressOrder(w, lo, hi)
  PROVE  /\ InProgressOrder(<<>>, lo, hi)
         /\ \A h \in Nat : hi <= h => InProgressOrder(w, lo, h)
         /\ w # <<>> => InProgressOrder(Tail(w), lo, hi)
         /\ w # <<>> /\ IsStatus(Head(w)) =>
              /\ lo <= Head(w).num_samples /\ InProgressOrder(Tail(w), Head(w).num_samples, hi)
              /\ InProgressOrder(<<>>, Head(w).num_samples, hi)
<1>1. \A i \in DOMAIN w : IsStatus(w[i]) => w[i].num_samples \in Nat
  BY EpochArithmetic, Constants DEF Message, ModelState, IsStatus, AllSamples
<1>2. InProgressOrder(<<>>, lo, hi)
  BY DEF InProgressOrder
<1>3. \A h \in Nat : hi <= h => InProgressOrder(w, lo, h)
  BY <1>1 DEF InProgressOrder
<1>4. ASSUME w # <<>>
      PROVE  /\ InProgressOrder(Tail(w), lo, hi)
             /\ IsStatus(Head(w)) =>
                  /\ lo <= Head(w).num_samples /\ InProgressOrder(Tail(w), Head(w).num_samples, hi)
                  /\ InProgressOrder(<<>>, Head(w).num_samples, hi)
  <2> DEFINE v == Tail(w)
  <2>1. /\ DOMAIN v = 1 .. Len(w) - 1 /\ DOMAIN w = 1 .. Len(w) /\ Len(w) \in Nat \ {0}
        /\ Head(w) = w[1] /\ \A i \in 1 .. Len(w) - 1 : v[i] = w[i + 1]
    BY <1>4
  <2> HIDE DEF v
  <2>2. InProgressOrder(v, lo, hi)
    <3>1. ASSUME NEW i \in DOMAIN v
          PROVE  i + 1 \in DOMAIN w /\ v[i] = w[i + 1] /\ i \in Nat
      BY <2>1
    <3>2. ASSUME NEW i \in DOMAIN v, NEW j \in DOMAIN v, i < j, IsStatus(v[i]), IsStatus(v[j])
          PROVE  v[i].num_samples <= v[j].num_samples
      <4>1. i + 1 \in DOMAIN w /\ j + 1 \in DOMAIN w /\ v[i] = w[i + 1] /\ v[j] = w[j + 1] /\ i + 1 < j + 1
        BY <3>1, <3>2
      <4> QED BY <3>2, <4>1 DEF InProgressOrder
    <3>3. ASSUME NEW i \in DOMAIN v, IsStatus(v[i])
          PROVE  lo <= v[i].num_samples /\ v[i].num_samples <= hi
      BY <3>1, <3>3 DEF InProgressOrder
    <3> QED BY <3>2, <3>3 DEF InProgressOrder
  <2>3. ASSUME IsStatus(Head(w))
        PROVE  /\ lo <= Head(w).num_samples /\ InProgressOrder(v, Head(w).num_samples, hi)
               /\ InProgressOrder(<<>>, Head(w).num_samples, hi)
    <3> DEFINE n == w[1].num_samples
    <3>1. 1 \in DOMAIN w /\ IsStatus(w[1]) /\ n \in Nat /\ lo <= n /\ n <= hi
      BY <1>1, <2>1, <2>3 DEF InProgressOrder
    <3>2. ASSUME NEW i \in DOMAIN v, IsStatus(v[i])
          PROVE  n <= v[i].num_samples /\ v[i].num_samples <= hi
      <4>1. i + 1 \in DOMAIN w /\ v[i] = w[i + 1] /\ 1 < i + 1
        BY <2>1
      <4> QED BY <3>1, <3>2, <4>1 DEF InProgressOrder
    <3>3. InProgressOrder(v, n, hi) /\ InProgressOrder(<<>>, n, hi)
      BY <2>2, <3>1, <3>2 DEF InProgressOrder
    <3> QED BY <2>1, <3>1, <3>3
  <2> QED BY <2>2, <2>3 DEF v
<1> QED BY <1>2, <1>3, <1>4

LEMMA ProgressStep ==
  TypeOK /\ TrainingInv /\ ProgressInv /\ [Next]_vars => ProgressInv' /\ reported' >= reported
<1> SUFFICES ASSUME TypeOK, TrainingInv, ProgressInv, [Next]_vars
             PROVE  ProgressInv' /\ reported' >= reported
  OBVIOUS
<1> USE DEF settings, setupVars, processVars, serverVars, executorVars, modelVars
<1> DEFINE w == answers["training"]
<1>1. /\ query \in QueryType /\ answers \in AnswersType /\ "training" \in Queues /\ "downsampling" \in Queues
      /\ w \in Seq(Message) /\ reported \in Nat /\ num_samples \in Nat
  BY EpochArithmetic DEF TypeOK, QueryType, AnswersType, Queues, AllSamples
<1>2. InProgressOrder(w, reported, num_samples)
  BY DEF ProgressInv
<1>3. ASSUME num_samples' \in {num_samples, num_samples + 1}, reported' = reported,
             \/ w' = w \/ w' = Append(w, ModelState)
             \/ \E active \in BOOLEAN : w' = Append(w, Status(num_samples, active))
      PROVE  ProgressInv' /\ reported' >= reported
  <2>1. InProgressOrder(w', reported, num_samples) /\ w' \in Seq(Message)
    <3>1. CASE w' = w \/ w' = Append(w, ModelState)
      <4>1. ModelState \in Message
        BY DEF Message
      <4>2. /\ InProgressOrder(Append(w, ModelState), reported, num_samples)
            /\ Append(w, ModelState) \in Seq(Message)
        <5>1. InProgressOrder(Append(w, ModelState), reported, num_samples)
          BY <1>1, <1>2, OrderAppend
        <5> HIDE DEF w
        <5>2. Append(w, ModelState) \in Seq(Message)
          BY <1>1, <4>1
        <5> QED BY <5>1, <5>2
      <4> HIDE DEF w
      <4>3. CASE w' = w
        BY <1>1, <1>2, <4>3
      <4>4. CASE w' = Append(w, ModelState)
        BY <4>2, <4>4
      <4> QED BY <3>1, <4>3, <4>4
    <3>2. ASSUME NEW active \in BOOLEAN, w' = Append(w, Status(num_samples, active))
          PROVE  InProgressOrder(w', reported, num_samples) /\ w' \in Seq(Message)
      <4>1. num_samples \in 0 .. AllSamples + DownsamplingBatches
        BY EpochArithmetic, Constants DEF TypeOK, AllSamples
      <4>2. Status(num_samples, active) \in Message
        BY <4>1, StatusIsMessage
      <4>3. InProgressOrder(Append(w, Status(num_samples, active)), reported, num_samples)
        BY <1>1, <1>2, OrderAppend
      <4> QED BY <1>1, <3>2, <4>2, <4>3
    <3> QED BY <1>3, <3>1, <3>2
  <2>2. InProgressOrder(w', reported, num_samples')
    <3>1. num_samples' \in Nat /\ num_samples <= num_samples'
      BY <1>1, <1>3
    <3> DEFINE v == w'
    <3>2. v \in Seq(Message) /\ InProgressOrder(v, reported, num_samples)
      BY <2>1
    <3> HIDE DEF v
    <3>3. InProgressOrder(v, reported, num_samples')
      BY <1>1, <3>1, <3>2, OrderTail
    <3> QED BY <3>3 DEF v
  <2> QED BY <1>1, <1>3, <2>2 DEF ProgressInv
<1>4. ASSUME NEW q \in Queues, NEW n, NEW active \in BOOLEAN, q = "training" => n = num_samples,
             UpdateQueue(q, Status(n, active)) \/ UNCHANGED <<query, answers>>,
             num_samples' \in {num_samples, num_samples + 1}, reported' = reported
      PROVE  ProgressInv' /\ reported' >= reported
  <2>1. CASE Answer(q, Status(n, active))
    <3>1. \/ answers' = [answers EXCEPT ![q] = Append(@, Status(n, active))]
          \/ answers' = [answers EXCEPT !["training"] = Append(@, ModelState)]
      BY <1>1, <2>1, AnswerShape
    <3>2. \/ w' = w \/ w' = Append(w, ModelState)
          \/ q = "training" /\ w' = Append(w, Status(n, active))
      BY <1>1, <3>1 DEF AnswersType
    <3> QED BY <1>3, <1>4, <3>2
  <2>2. CASE UNCHANGED <<query, answers>>
    BY <1>3, <1>4, <2>2
  <2> QED BY <1>4, <2>1, <2>2 DEF UpdateQueue
<1>5. ASSUME UNCHANGED <<answers, num_samples, reported>>
      PROVE  ProgressInv' /\ reported' >= reported
  BY <1>1, <1>5 DEF ProgressInv
<1>6. ASSUME UNCHANGED <<num_samples, reported>>, (w # <<>> /\ w' = Tail(w)) \/ w' = <<>>
      PROVE  ProgressInv' /\ reported' >= reported
  <2>1. InProgressOrder(w', reported, num_samples)
    BY <1>1, <1>2, <1>6, OrderTail
  <2> QED BY <1>1, <1>6, <2>1 DEF ProgressInv
<1>7. CASE BeginEpoch
  BY <1>1, <1>4, <1>7 DEF BeginEpoch, SamplesSeen
<1>8. CASE DownsampleBatch
  BY <1>1, <1>4, <1>8 DEF DownsampleBatch
<1>9. CASE EndDownsampling
  BY <1>1, <1>4, <1>9 DEF EndDownsampling
<1>10. CASE TrainBatch
  BY <1>1, <1>4, <1>10 DEF TrainBatch, SamplesSeen
<1>11. CASE SetUp \/ BeginSave \/ EndSave \/ Cleaned \/ Exit \/ RejectTraining \/ Raise \/ Kill
  BY <1>5, <1>11 DEF SetUp, BeginSave, EndSave, Cleaned, Exit, RejectTraining, Raise, HandleException, Kill
<1>12. CASE StartTraining \/ AskStatus \/ FirstTimeout \/ SecondTimeout \/ StoreFinalModel \/ AskModel
  BY <1>5, <1>12 DEF StartTraining, AskStatus, FirstTimeout, SecondTimeout, StoreFinalModel, AskModel
<1>13. CASE ReceiveStatus
  <2> DEFINE q == AskedQueue
  <2>1. q \in Queues /\ answers[q] # <<>> /\ Head(answers[q]) \in Message
    BY <1>1, <1>13, QueueNames, RemovedType DEF ReceiveStatus
  <2>2. answers' = [answers EXCEPT ![q] = Tail(@)] \/ answers' = [answers EXCEPT ![q] = <<>>]
    BY <1>13 DEF ReceiveStatus, Remaining
  <2>3. num_samples' = num_samples
    BY <1>13 DEF ReceiveStatus
  <2>4. CASE q # "training"
    <3>1. w' = w /\ reported' = reported
      BY <1>1, <1>13, <2>2, <2>4 DEF ReceiveStatus, AnswersType
    <3> QED BY <1>3, <2>3, <3>1
  <2>5. CASE q = "training" /\ ~IsStatus(Head(w))
    <3>1. reported' = reported
      BY <1>13, <2>5 DEF ReceiveStatus, IsStatus
    <3>2. (w # <<>> /\ w' = Tail(w)) \/ w' = <<>>
      BY <1>1, <2>1, <2>2, <2>5 DEF AnswersType
    <3> QED BY <1>6, <2>3, <3>1, <3>2
  <2>6. CASE q = "training" /\ IsStatus(Head(w))
    <3>1. reported' = Head(w).num_samples
      BY <1>13, <2>6 DEF ReceiveStatus, IsStatus
    <3>2. w # <<>> /\ (w' = Tail(w) \/ w' = <<>>)
      BY <1>1, <2>1, <2>2, <2>6 DEF AnswersType
    <3>3. reported' >= reported /\ InProgressOrder(w', reported', num_samples)
      BY <1>1, <1>2, <2>6, <3>1, <3>2, OrderTail
    <3> QED BY <2>3, <3>3 DEF ProgressInv
  <2> QED BY <2>4, <2>5, <2>6
<1>14. CASE AskSecond
  <2>1. w' = w \/ w' = <<>>
    BY <1>1, <1>14 DEF AskSecond, AnswersType
  <2> QED BY <1>3, <1>6, <1>14, <2>1 DEF AskSecond
<1>15. CASE FinalStatus
  <2>1. UsableCheckpoints = {}
    BY DEF UsableCheckpoints, TypeOK, Checkpoint, CheckpointEntries
  <2> QED BY <1>5, <1>15, <2>1 DEF FinalStatus
<1>16. CASE ReceiveModel
  <2>1. w' = w \/ (w # <<>> /\ w' = Tail(w))
    BY <1>1, <1>16 DEF ReceiveModel, AnswersType
  <2> QED BY <1>3, <1>6, <1>16, <2>1 DEF ReceiveModel
<1>17. CASE UNCHANGED vars
  BY <1>5, <1>17 DEF vars
<1> QED BY <1>7, <1>8, <1>9, <1>10, <1>11, <1>12, <1>13, <1>14, <1>15, <1>16, <1>17 DEF Next, Train, Serve
-----------------------------------------------------------------------------
(* The inductive invariant.                                                *)
LEMMA InitIInv == Init => IInv
<1> SUFFICES ASSUME Init PROVE IInv
  OBVIOUS
<1>1. /\ query = [q \in Queues |-> <<>>] /\ answers = [q \in Queues |-> <<>>] /\ "training" \in Queues
      /\ epoch = 0 /\ num_samples = 0 /\ reported = 0 /\ pc = "none" /\ died = "no" /\ model_file = "absent"
      /\ executor = "starting" /\ model_state = "none" /\ pretrained_file = "absent"
  BY DEF Init, Queues
<1>2. TypeOK
  <2>1. query \in [Queues -> Seq({"status", "model"})] /\ answers \in [Queues -> Seq(Message)]
    BY <1>1
  <2>2. exception_queue \in BOOLEAN /\ log_file \in BOOLEAN /\ was_training \in BOOLEAN
    BY DEF Init
  <2>3. /\ batch_number = 0 /\ handler = "none" /\ model_handler = "none" /\ model_queries = 0
        /\ stored = "absent" /\ checkpoints = {} /\ request \in Requests /\ downsampling_period \in Periods
    BY DEF Init
  <2>4. AllSamples \in Nat /\ MaxModelQueries \in Nat
    BY EpochArithmetic, TrainerAssumption
  <2> QED BY <1>1, <2>1, <2>2, <2>3, <2>4, Constants DEF TypeOK, AllSamples
<1>3. 0 * Batches = 0
  BY Constants
<1>4. TrainingInv /\ ExecutorInv /\ DownloadInv /\ DownloadRemoved
  BY <1>1, <1>3 DEF TrainingInv, ExecutorInv, DownloadInv, DownloadRemoved, Alive
<1>5. ModelInv /\ ProgressInv
  BY <1>1 DEF ModelInv, ProgressInv, InProgressOrder
<1>6. StoredModelComplete /\ ExecutorHearsOfEveryException
  BY <1>1 DEF StoredModelComplete, ExecutorHearsOfEveryException
<1> QED BY <1>2, <1>4, <1>5, <1>6 DEF IInv

LEMMA NextIInv == IInv /\ [Next]_vars => IInv'
BY TypeStep, TrainingStep, DownloadStep, ExecutorStep, ModelStep, ProgressStep DEF IInv

LEMMA InvariantHolds == Spec => []IInv
BY InitIInv, NextIInv, PTL DEF Spec

(* Every training and its service stay within the types TypeOK gives them. *)
THEOREM TypeCorrect == Spec => []TypeOK
<1>1. IInv => TypeOK
  BY DEF IInv
<1> QED BY <1>1, InvariantHolds, PTL

(* However many epochs and batches a training has, and wherever its        *)
(* process fails: what store_final_model registers went through all epochs *)
(* and began with the pretrained model if one was wanted.                  *)
THEOREM OnlyCompleteModelsStored == Spec => []StoredModelComplete
<1>1. IInv => StoredModelComplete
  BY DEF IInv
<1> QED BY <1>1, InvariantHolds, PTL

(* The executor gives up only on trainings that have ended, and takes none *)
(* that threw for a success, with any number of late answers.              *)
THEOREM ExceptionsHeard == Spec => []ExecutorHearsOfEveryException
<1>1. IInv => ExecutorHearsOfEveryException
  BY DEF IInv
<1> QED BY <1>1, InvariantHolds, PTL

(* A downloaded model is removed by the time the process has exited,       *)
(* unless it was killed before it loaded it.                               *)
THEOREM DownloadsRemoved == Spec => []DownloadRemoved
<1>1. IInv => DownloadRemoved
  BY DEF IInv
<1> QED BY <1>1, InvariantHolds, PTL

(* The samples the service reports never go back, whatever the answers     *)
(* that get_training_status timed out on and finds later.                  *)
THEOREM ProgressMonotone == Spec => ProgressNeverGoesBack
<1>1. IInv /\ [Next]_vars => [reported' >= reported]_vars
  BY ProgressStep DEF IInv
<1> QED BY <1>1, InvariantHolds, PTL DEF Spec, ProgressNeverGoesBack
=============================================================================
