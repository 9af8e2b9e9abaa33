------------------------ MODULE PipelineSupervision ------------------------
(***************************************************************************)
(* How a client follows the pipeline it started: the supervisor's          *)
(* validation and registry of pipelines, the process of a pipeline         *)
(* executor with the queues its status goes through (multiprocessing       *)
(* queues: a process can only end when what it has put fits into the pipe  *)
(* of the queue), the status call that drains them, and the client that    *)
(* polls and draws the bars.                                               *)
(* What the executor does between its messages is in PipelineExecutor,     *)
(* TrainerServer and PipelineEvaluation; it replays data here.             *)
(***************************************************************************)
EXTENDS SequencesExt, FiniteSetsExt, StatusTrackers

CONSTANTS
  ConfigChoices,     \* pipeline configurations a client may send
  SupportedStrategies, SupportedWriters,
  SamplesPerTrigger, \* size of every trigger's training set
  StatusBarScale,    \* percent of it that an epoch trains on
  Epochs,            \* epochs of a training
  MaxTriggers,       \* bound: triggers in the replayed data
  MaxAnswers,        \* bound: status answers of one training, and one of evaluations
  SeenChoices,       \* samples a status answer may report as seen
  PipeSize,          \* messages that fit into the pipe of a queue
  MaxFaults          \* bound: services that fail, processes that are killed, restarts

ASSUME SupervisionAssumption ==
  /\ {SamplesPerTrigger, StatusBarScale, Epochs, MaxTriggers, PipeSize} \subseteq Nat \ {0}
  /\ {MaxAnswers, MaxFaults} \cup SeenChoices \subseteq Nat
  /\ \A c \in ConfigChoices : c.has_evaluation => c.eval_datasets \in Seq(STRING)

VARIABLES
  config,      \* what the client asks for
  registered,  \* supervisor: the pipeline is in _pipeline_process_dict
  process,     \* "none", "running", "exiting" while its feeders write, "dead"
  exitcode,
  exec,        \* executor: where it is and what it counts
  queue,       \* its three status queues, from the first message not yet taken
  exceptions,  \* exception_queue
  call,        \* the status call under way at the supervisor
  client,
  faults

vars == <<config, registered, process, exitcode, exec, queue, exceptions, call, client, faults>>

Queues == {"pipeline", "training", "eval"}
EXCEPTION_EXITCODE == 8
KilledExitcode == -9
-----------------------------------------------------------------------------
(* Validation of the configuration.                                        *)
ValidTraining(c) ==
  /\ c.gpus = 1 /\ c.batch_size >= 1 /\ c.dataloader_workers >= 1
  /\ c.strategy \in SupportedStrategies
  /\ c.initial_model \in {"random", "pretrained"}
  /\ c.initial_model = "pretrained" => c.use_previous_model /\ c.has_initial_model_id

ValidEvaluationAnyWriter(c) ==    \* mutant: unknown result writers are let through
  /\ IsInjective(c.eval_datasets)
  /\ c.eval_batch_size >= 1 /\ c.eval_workers >= 1
ValidEvaluation(c) ==
  /\ IsInjective(c.eval_datasets)
  /\ c.result_writers \subseteq SupportedWriters
  /\ c.eval_batch_size >= 1 /\ c.eval_workers >= 1

ValidContent(c) ==
  /\ ValidTraining(c) /\ c.model_available /\ c.trigger_available
  /\ c.has_evaluation => ValidEvaluation(c)
  /\ c.evaluation_matrix => c.has_evaluation /\ c.dataset_id \in ToSet(c.eval_datasets)

(* What storage and the trainer server answer at the time.                 *)
DatasetAvailable(c) == c.dataset_available
TrainerServerAvailable(c) == c.trainer_available
ValidSystem(c) == DatasetAvailable(c) /\ TrainerServerAvailable(c)

Accepted(c) == ValidContent(c) /\ c.directory_writable /\ ValidSystem(c)
-----------------------------------------------------------------------------
Stage(name) == [stage |-> name, counter |-> "none"]
Counter(name, action) == [stage |-> name, counter |-> action]
Training(action, id, seen, down, is_training) ==
  [action |-> action, id |-> id, seen |-> seen, down |-> down, is_training |-> is_training]
Eval(action, id, value) == [action |-> action, id |-> id, value |-> value]
NoCall == [at |-> "idle", pipeline |-> <<>>, training |-> <<>>, eval |-> <<>>]

Init ==
  /\ config \in ConfigChoices
  /\ registered = FALSE /\ process = "none" /\ exitcode = 0
  /\ exec = [pc |-> "connect", trigger |-> 0, answers |-> 0, seen |-> 0,
             cells |-> 0, next_eval |-> 0, evals |-> {}, errors |-> 0]
  /\ queue = [q \in Queues |-> <<>>]
  /\ exceptions = <<>>
  /\ call = NoCall
  /\ client = [state |-> "starting", tracker |-> TrainingTracker(0, 1, 100),
               evaluations |-> <<>>, pbar |-> FALSE, eval_err_count |-> 0, verdict |-> "none"]
  /\ faults = 0

(* The feeder thread of a queue writes while the pipe has room; a message  *)
(* it is slow to write counts as one that is put later.                    *)
PutAll(p, t, e) ==
  queue' = [queue EXCEPT !["pipeline"] = @ \o p, !["training"] = @ \o t, !["eval"] = @ \o e]
-----------------------------------------------------------------------------
(* The client connects to the supervisor and asks it to start its          *)
(* pipeline.                                                               *)
StartRequest == client.state = "starting"

StartPipeline ==
  /\ StartRequest /\ Accepted(config)
  /\ process' = "running"
  /\ registered' = TRUE
  /\ client' = [client EXCEPT !.state = "polling"]
  /\ UNCHANGED <<config, exitcode, exec, queue, exceptions, call, faults>>

Reject ==
  /\ StartRequest /\ ~ Accepted(config)
  /\ client' = [client EXCEPT !.state = "rejected"]
  /\ UNCHANGED <<config, registered, process, exitcode, exec, queue, exceptions, call, faults>>

(* The pipeline cannot be written to the database, or its process cannot   *)
(* be started: the answer says so.                                         *)
RegisterFails ==
  /\ StartRequest /\ Accepted(config) /\ faults < MaxFaults
  /\ faults' = faults + 1
  /\ client' = [client EXCEPT !.state = "rejected"]
  /\ UNCHANGED <<config, registered, process, exitcode, exec, queue, exceptions, call>>
-----------------------------------------------------------------------------
(* The executor.  One action for what it does between two messages to      *)
(* different readers, or two points where it may raise.                    *)
At(pc) == process = "running" /\ exec.pc = pc
Goto(pc) == exec' = [exec EXCEPT !.pc = pc]
ExecutorOnly == UNCHANGED <<config, registered, exitcode, call, client, faults>>

Raise ==
  /\ exec' = [exec EXCEPT !.pc = "raised"]
  /\ exceptions' = Append(exceptions, "traceback")
  /\ process' = "exiting"
  /\ UNCHANGED queue

(* PipelineExecutor.__init__, init_cluster_connection and the beginning    *)
(* of execute                                                              *)
Connect ==
  /\ At("connect")
  /\ \/ /\ config.trigger_available
        /\ Goto("data")
        /\ PutAll(<<Stage("INIT_CLUSTER_CONNECTION"), Stage("GET_SELECTOR_BATCH_SIZE"),
                    Stage("REPLAY_DATA")>>, <<>>, <<>>)
        /\ UNCHANGED <<process, exceptions>>
     \/ /\ ~ config.trigger_available
        /\ Raise
  /\ ExecutorOnly

(* New data with a trigger in it, up to the start of the training.         *)
HandleNewData ==
  /\ At("data") /\ exec.trigger < MaxTriggers
  /\ exec' = [exec EXCEPT !.pc = "train", !.trigger = @ + 1]
  /\ PutAll(<<Counter("HANDLE_NEW_DATA", "create"), Counter("HANDLE_NEW_DATA", "update"),
              Stage("HANDLE_TRIGGERS_WITHIN_BATCH"), Stage("INFORM_SELECTOR_AND_TRIGGER"),
              Stage("RUN_TRAINING")>>, <<>>, <<>>)
  /\ ExecutorOnly /\ UNCHANGED <<process, exceptions>>

(* The first messages of wait_for_training_completion.                     *)
BeginWaiting ==
  PutAll(<<Stage("WAIT_FOR_TRAINING_COMPLETION")>>,
         <<Training("create_tracker", exec.trigger, 0, 0, TRUE)>>, <<>>)

(* start_training builds the request from the configuration and raises     *)
(* where it is incomplete.                                                 *)
Requestable(c) == c.checkpointing_complete /\ ~ c.has_prefetched_partitions
StartTraining ==
  /\ At("train")
  /\ \/ /\ Requestable(config)
        /\ Goto("training")
        /\ BeginWaiting
        /\ UNCHANGED <<process, exceptions>>
     \/ /\ ~ Requestable(config)
        /\ Raise
  /\ ExecutorOnly

(* Where the strategy samples first and trains then, an answer may find the *)
(* trainer downsampling.                                                   *)
Downsamples == config.strategy = "CoresetStrategy"
SamplesOfTraining == Epochs * ((StatusBarScale * SamplesPerTrigger) \div 100)
TrainingAnswer ==
  /\ At("training") /\ exec.answers < MaxAnswers
  /\ \/ \E seen \in SeenChoices :
          /\ exec.seen <= seen /\ seen <= SamplesOfTraining
          /\ exec' = [exec EXCEPT !.seen = seen, !.answers = @ + 1]
          /\ PutAll(<<>>, <<Training("progress_counter", exec.trigger, seen, 0, TRUE)>>, <<>>)
     \/ \E down \in {SamplesPerTrigger \div 2, SamplesPerTrigger} :
          /\ Downsamples
          /\ exec' = [exec EXCEPT !.answers = @ + 1]
          /\ PutAll(<<>>, <<Training("progress_counter", exec.trigger, 0, down, FALSE)>>, <<>>)
  /\ ExecutorOnly /\ UNCHANGED <<process, exceptions>>

(* The model is stored; evaluations on fixed datasets come next.           *)
Evaluates == config.has_evaluation /\ ~ config.evaluation_matrix
TrainingCompleted ==
  /\ At("training")
  /\ exec' = [exec EXCEPT !.pc = IF Evaluates THEN "evaluate" ELSE "handled", !.answers = 0, !.seen = 0]
  /\ PutAll(<<Stage("TRAINING_COMPLETED"), Stage("STORE_TRAINED_MODEL")>>
              \o (IF Evaluates THEN <<Stage("EVALUATE")>> ELSE <<>>),
            <<Training("close_counter", exec.trigger, 0, 0, TRUE)>>, <<>>)
  /\ ExecutorOnly /\ UNCHANGED <<process, exceptions>>

(* start_evaluation and the counters of wait_for_evaluation_completion.    *)
(* For the matrix, the dataset must be one to evaluate on, and the number  *)
(* of partitions to prefetch must be configured; only the evaluation of a  *)
(* training set sends create_tracker.                                      *)
EvaluationStarts ==
  LET ids == IF Evaluates
               THEN [i \in DOMAIN config.eval_datasets |-> exec.next_eval + i - 1]
               ELSE <<exec.next_eval>>
      counters == [i \in DOMAIN ids |-> Eval("create_counter", ids[i], 0)]
      trackers == IF Evaluates THEN <<>> ELSE <<Eval("create_tracker", ids[1], 0)>>
  IN /\ exec' = [exec EXCEPT !.pc = "evaluating", !.evals = ToSet(ids), !.next_eval = @ + Len(ids)]
     /\ PutAll(<<Stage("WAIT_FOR_EVALUATION_COMPLETION")>>, <<>>, trackers \o counters)
     /\ UNCHANGED <<process, exceptions>>
StartEvaluation ==
  /\ At("evaluate")
  /\ IF Evaluates \/ (config.has_num_prefetched_partitions /\ config.dataset_id \in ToSet(config.eval_datasets))
       THEN EvaluationStarts ELSE Raise
  /\ ExecutorOnly

EvaluationAnswer ==
  /\ At("evaluating")
  /\ \E id \in exec.evals, outcome \in {"seen_half", "ended", "failed"} :
       /\ outcome = "seen_half" => exec.answers = 0
       /\ exec' = [exec EXCEPT !.answers = IF outcome = "seen_half" THEN @ + 1 ELSE @,
                                !.evals = IF outcome = "seen_half" THEN @ ELSE @ \ {id},
                                !.errors = IF outcome = "failed" THEN @ + 1 ELSE @]
       /\ PutAll(<<>>, <<>>, <<CASE outcome = "seen_half" -> Eval("progress_counter", id, SamplesPerTrigger \div 2)
                                 [] outcome = "ended" -> Eval("end_counter", id, FALSE)
                                 [] outcome = "failed" -> Eval("end_counter", id, TRUE)>>)
  /\ ExecutorOnly /\ UNCHANGED <<process, exceptions>>

(* The results go to the writers of the configuration, those of the matrix *)
(* to the log.                                                             *)
EvaluationCompleted ==
  /\ At("evaluating") /\ exec.evals = {}
  /\ \/ /\ Evaluates /\ config.result_writers \subseteq SupportedWriters
        /\ Goto("handled")
        /\ PutAll(<<Stage("EVALUATION_COMPLETED"), Stage("STORE_EVALUATION_RESULTS")>>, <<>>, <<>>)
        /\ UNCHANGED <<process, exceptions>>
     \/ /\ ~ Evaluates
        /\ exec' = [exec EXCEPT !.pc = "matrix", !.cells = @ + 1, !.answers = 0]
        /\ PutAll(<<Stage("EVALUATION_COMPLETED")>>, <<>>, <<>>)
        /\ UNCHANGED <<process, exceptions>>
     \/ /\ Evaluates /\ ~ config.result_writers \subseteq SupportedWriters
        /\ Raise
  /\ ExecutorOnly

(* The rest of _handle_new_data, and the next data or the end of the       *)
(* replay.                                                                 *)
NewDataHandled ==
  /\ At("handled")
  /\ Goto("data")
  /\ PutAll(<<Stage("HANDLE_TRIGGERS_WITHIN_BATCH"), Counter("NEW_DATA_HANDLED", "close")>>, <<>>, <<>>)
  /\ ExecutorOnly /\ UNCHANGED <<process, exceptions>>

ReplayDone ==
  /\ At("data") /\ exec.trigger = MaxTriggers
  /\ Goto("matrix")
  /\ PutAll(<<Stage("REPLAY_DATA_DONE")>>, <<>>, <<>>)
  /\ ExecutorOnly /\ UNCHANGED <<process, exceptions>>

(* build_evaluation_matrix: every model on every trigger.                  *)
NextCell ==
  /\ At("matrix") /\ config.evaluation_matrix /\ exec.cells < MaxTriggers * MaxTriggers
  /\ Goto("evaluate")
  /\ ExecutorOnly /\ UNCHANGED <<process, exceptions, queue>>

ExecutionDone ==
  /\ At("matrix") /\ (config.evaluation_matrix => exec.cells = MaxTriggers * MaxTriggers)
  /\ Goto("done")
  /\ PutAll(<<Stage("DONE")>>, <<>>, <<>>)
  /\ process' = "exiting"
  /\ ExecutorOnly /\ UNCHANGED exceptions

(* Any call the executor makes may fail.                                   *)
ExecutorRaises ==
  /\ process = "running" /\ faults < MaxFaults
  /\ faults' = faults + 1
  /\ Raise
  /\ UNCHANGED <<config, registered, exitcode, call, client>>

(* The process is killed, with what is not in the pipes.                   *)
ExecutorKilled ==
  /\ process \in {"running", "exiting"} /\ faults < MaxFaults
  /\ faults' = faults + 1
  /\ process' = "dead" /\ exitcode' = KilledExitcode
  /\ queue' = [q \in Queues |-> SubSeq(queue[q], 1, Min({PipeSize, Len(queue[q])}))]
  /\ exceptions' = <<>>
  /\ UNCHANGED <<config, registered, exec, call, client>>

(* A process ends after its feeders have written everything.               *)
ExitZero ==    \* mutant: an exception does not change the exit code
  /\ process = "exiting" /\ \A q \in Queues : Len(queue[q]) <= PipeSize
  /\ process' = "dead"
  /\ UNCHANGED <<config, registered, exitcode, exec, queue, exceptions, call, client, faults>>
Exit ==
  /\ process = "exiting" /\ \A q \in Queues : Len(queue[q]) <= PipeSize
  /\ process' = "dead"
  /\ exitcode' = IF exec.pc = "done" THEN 0 ELSE EXCEPTION_EXITCODE
  /\ UNCHANGED <<config, registered, exec, queue, exceptions, call, client, faults>>
-----------------------------------------------------------------------------
(* get_pipeline_status: get_all_msgs_from_queue, one queue after the other *)
AfterQueue(q) == CASE q = "pipeline" -> "training" [] q = "training" -> "eval" [] q = "eval" -> "alive"
TakeNone(q) ==    \* mutant: the messages of one queue are never taken
  /\ call' = [call EXCEPT !.at = AfterQueue(q), ![q] = IF q = "training" THEN <<>> ELSE queue[q]]
  /\ queue' = [queue EXCEPT ![q] = IF q = "training" THEN @ ELSE <<>>]
Take(q) ==
  /\ call' = [call EXCEPT !.at = AfterQueue(q), ![q] = queue[q]]
  /\ queue' = [queue EXCEPT ![q] = <<>>]

AskStatus ==
  /\ client.state = "polling" /\ call.at = "idle"
  /\ \/ /\ registered
        /\ Take("pipeline")
        /\ UNCHANGED client
     \/ /\ ~ registered
        /\ client' = [client EXCEPT !.state = "notfound"]
        /\ UNCHANGED <<call, queue>>
  /\ UNCHANGED <<config, registered, process, exitcode, exec, exceptions, faults>>

Drain(q) ==
  /\ call.at = q /\ q # "pipeline"
  /\ Take(q)
  /\ UNCHANGED <<config, registered, process, exitcode, exec, exceptions, client, faults>>

(* The client draws what it is told, and stops where it raises.            *)
MonitorTraining(c, msg) ==
  LET t == CASE msg.action = "create_tracker" ->
                  TrainingTracker(msg.id, SamplesPerTrigger, StatusBarScale)
             [] msg.action = "progress_counter" -> 
                  ProgressCounter(c.tracker, msg.seen, msg.down, msg.is_training)
             [] msg.action = "close_counter" -> CloseCounter(c.tracker)
  IN IF c.state # "polling" THEN c
     ELSE [c EXCEPT !.tracker = t, !.state = IF t.hung THEN "hung" ELSE @]

MonitorEvaluation(c, msg) ==
  LET tracker ==
        CASE msg.action = "create_tracker" -> EvaluationTracker(SamplesPerTrigger)
          [] msg.action = "create_counter" -> CreateCounter(c.evaluations[msg.id])
          [] msg.action = "progress_counter" -> ProgressEvaluation(c.evaluations[msg.id], msg.value)
          [] msg.action = "end_counter" -> EndEvaluationCounter(c.evaluations[msg.id], msg.value)
  IN IF c.state # "polling" THEN c
     ELSE IF msg.action # "create_tracker" /\ msg.id \notin DOMAIN c.evaluations
       THEN [c EXCEPT !.state = "crashed"]
     ELSE [c EXCEPT
            !.evaluations = [id \in DOMAIN @ \cup {msg.id} |->
                               IF id = msg.id THEN tracker ELSE @[id]],
            !.eval_err_count = IF msg.action = "end_counter" /\ msg.value THEN @ + 1 ELSE @]

MonitorPipeline(c, msg) ==
  IF c.state # "polling" THEN c
  ELSE IF msg.counter \in {"update", "close"} /\ ~ c.pbar THEN [c EXCEPT !.state = "crashed"]
  ELSE [c EXCEPT !.pbar = @ \/ msg.counter = "create"]

(* Every message in turn; the choice from a set of one has TLC compute     *)
(* what one message makes of the client only once.                         *)
Monitor(Op(_, _), c, msgs) ==
  LET after[i \in 0 .. Len(msgs)] ==
        IF i = 0 THEN c ELSE CHOOSE next \in {Op(d, msgs[i]) : d \in {after[i - 1]}} : TRUE
  IN after[Len(msgs)]

ProcessMsgs(c) ==
  Monitor(MonitorPipeline,
    Monitor(MonitorEvaluation, Monitor(MonitorTraining, c, call.training), call.eval),
    call.pipeline)

AnswerRunning ==
  /\ call.at = "alive" /\ process # "dead"
  /\ client' = ProcessMsgs(client)
  /\ call' = NoCall
  /\ UNCHANGED <<config, registered, process, exitcode, exec, queue, exceptions, faults>>

(* The process is over; one look at the exception queue, and the exit      *)
(* message.  The message has no exception when the queue was empty.        *)
SeeDead ==
  /\ call.at = "alive" /\ process = "dead"
  /\ call' = [call EXCEPT !.at = "exception"]
  /\ UNCHANGED <<config, registered, process, exitcode, exec, queue, exceptions, client, faults>>

MonitorExit(c) ==
  IF c.state # "polling" THEN c
  ELSE IF exitcode = 0
    THEN [c EXCEPT !.state = "finished",
                   !.verdict = IF c.eval_err_count = 0 THEN "successfully" ELSE "with_eval_errors"]
  ELSE IF exceptions = <<>> THEN [c EXCEPT !.state = "crashed"]
  ELSE [c EXCEPT !.state = "finished", !.verdict = "exception"]

AnswerExit ==
  /\ call.at = "exception"
  /\ client' = MonitorExit(ProcessMsgs(client))
  /\ exceptions' = IF exceptions = <<>> THEN <<>> ELSE Tail(exceptions)
  /\ call' = NoCall
  /\ UNCHANGED <<config, registered, process, exitcode, exec, queue, faults>>

(* The supervisor's container starts again: it knows no pipeline, a call   *)
(* under way fails and ends the client, and its processes are gone.        *)
SupervisorRestarts ==
  /\ registered /\ faults < MaxFaults
  /\ faults' = faults + 1
  /\ registered' = FALSE
  /\ call' = NoCall
  /\ client' = IF call.at # "idle" THEN [client EXCEPT !.state = "crashed"] ELSE client
  /\ process' = "dead"
  /\ exitcode' = IF process = "dead" THEN exitcode ELSE KilledExitcode
  /\ queue' = [q \in Queues |-> <<>>] /\ exceptions' = <<>>
  /\ UNCHANGED <<config, exec>>
-----------------------------------------------------------------------------
ExecutorStep ==
  \/ Connect \/ HandleNewData \/ StartTraining \/ TrainingAnswer
  \/ TrainingCompleted \/ StartEvaluation \/ EvaluationAnswer \/ EvaluationCompleted
  \/ NewDataHandled \/ ReplayDone \/ NextCell \/ ExecutionDone \/ Exit
StatusStep ==
  \/ AskStatus \/ (\E q \in Queues : Drain(q)) \/ AnswerRunning \/ SeeDead \/ AnswerExit
Fault == RegisterFails \/ ExecutorRaises \/ ExecutorKilled \/ SupervisorRestarts

Over == client.state \notin {"starting", "polling"}
Stop == Over /\ UNCHANGED vars

Next ==
  \/ StartPipeline \/ Reject
  \/ ExecutorStep
  \/ StatusStep \/ Fault \/ Stop

(* The executor and the threads that write its queues go on, the services  *)
(* it waits for answer, and the client polls until it is told to stop.     *)
Spec ==
  /\ Init /\ [][Next]_vars
  /\ WF_vars(ExecutorStep) /\ WF_vars(StatusStep) /\ WF_vars(StartPipeline \/ Reject)
-----------------------------------------------------------------------------
(* The types, and: what the client has counted and drawn never goes beyond *)
(* what the executor reported.                                             *)
TypeOK ==
  /\ process \in {"none", "running", "exiting", "dead"}
  /\ client.state \in {"starting", "polling", "finished", "rejected", "notfound", "crashed", "hung"}
  /\ call.at \in Queues \cup {"idle", "alive", "exception"}
  /\ process = "dead" => \A q \in Queues : Len(queue[q]) <= PipeSize
  /\ client.eval_err_count <= exec.errors
  /\ client.tracker.last_samples_training <= SamplesOfTraining
  /\ DOMAIN client.evaluations \subseteq 0 .. exec.next_eval - 1

(* The bar of a training shows the epoch and the samples the trainer       *)
(* reported last, however its answers were spaced and however many         *)
(* messages one poll brought; no message hangs the client; and a bar of    *)
(* downsampling shows the samples of the last answer.                      *)
BarsShowProgress ==
  /\ client.state # "hung"
  /\ ~ Downsamples => ShowsProgress(client.tracker)
  /\ client.tracker.event = "DOWNSAMPLING" =>
       client.tracker.bar = client.tracker.last_samples_downsampling

(* A configuration that passed the validation never fails the executor     *)
(* later, after data was handled and models were trained, except where     *)
(* the validation does not look: checkpointing without interval or path,   *)
(* prefetched_partitions in place of num_prefetched_partitions, and no     *)
(* num_prefetched_partitions, which only the evaluation matrix requires.   *)
ValidatedRuns ==
  exec.pc = "raised" /\ faults = 0 =>
    \/ ~ Requestable(config)
    \/ config.evaluation_matrix /\ ~ config.has_num_prefetched_partitions

(* What the client prints in the end is what happened to the executor, and *)
(* only a process that was killed, which leaves no exception, a restart of *)
(* the supervisor during a call, or an evaluation on a fixed dataset,      *)
(* which is announced without a tracker, makes the client itself fail.     *)
VerdictTruthful ==
  /\ client.verdict \in {"successfully", "with_eval_errors"} => exec.pc = "done" /\ exitcode = 0
  /\ client.verdict = "exception" => exec.pc = "raised"
  /\ client.state = "crashed" => exitcode = KilledExitcode \/ ~ registered \/ Evaluates

(* A client that polls is told the end, even though the executor cannot    *)
(* end before the client has emptied its queues -- unless something fails, *)
(* the client itself at an evaluation on a fixed dataset included.         *)
ClientToldEnd ==
  client.state = "polling" ~>
    client.state = "finished" \/ (Over /\ (faults > 0 \/ Evaluates))
=============================================================================
