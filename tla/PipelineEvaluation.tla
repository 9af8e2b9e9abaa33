------------------------- MODULE PipelineEvaluation -------------------------
(***************************************************************************)
(* Evaluations of the models a pipeline trains: the evaluator service with *)
(* one process per evaluation (evaluator/internal), and the loop in the    *)
(* pipeline executor that starts evaluations, polls them in turn and       *)
(* stores what they return (GRPCHandler, _run_training, the result writers *)
(* and build_evaluation_matrix of the supervisor).                         *)
(*                                                                         *)
(* Model m is trained on trigger m.  A dataset is the number of its keys:  *)
(* key k has label k % 2 and the model's output for it is outputs[k].      *)
(***************************************************************************)
EXTENDS EvaluationMetrics

CONSTANTS
  Datasets,          \* sequence: evaluation.datasets of the pipeline
  InitialKeys,       \* keys of every dataset, and of every trigger's set, at first
  MaxGrowth,         \* bound: samples added to the datasets
  MaxTriggers,       \* bound: triggers of the pipeline
  MetricChoices,     \* metrics a configuration may ask for
  OutputChoices,     \* outputs of the model for each key
  BatchSize,
  EvalWorkers,       \* dataloader_workers of the evaluation section
  TrainWorkers,      \* dataloader_workers of the training section
  MaxFaults          \* bound: starts that fail, processes that raise or are killed,
                     \*   restarts of the evaluator, answers later than 30 seconds

ASSUME EvaluationAssumption ==
  /\ InitialKeys \in Nat /\ MaxGrowth \in Nat
  /\ {BatchSize, EvalWorkers, TrainWorkers, MaxTriggers} \subseteq Nat \ {0}

VARIABLES
  mode,              \* "fixed" datasets after every training, or the "matrix" at the end
  metrics, outputs,
  keys,              \* storage: keys of each dataset
  ev,                \* evaluator: _evaluation_dict and the processes; ids count from 0
  pc,                \* where the executor is
  trained,           \* executor: models trained and stored, Len(trained_models)
  round,             \* rounds of evaluations done
  pending,           \* what start_evaluation still has to ask for
  evaluations,       \* executor: evaluation ids and what they are about
  working_queue,     \* executor: evaluations still to be polled
  eval_status_queue, \* the messages of this round for the client
  results,           \* result writers: what was stored, by model and trigger
  faults

config == <<mode, metrics, outputs>>
executorVars == <<pc, trained, round, pending, evaluations, working_queue, eval_status_queue, results>>
vars == <<config, keys, ev, executorVars, faults>>

AllMetrics == {"Accuracy", "F1-score", "ROC-AUC"}
Holistic == {"ROC-AUC"}
Fixed(d) == [kind |-> "dataset", of |-> d]
TrainingSet(t) == [kind |-> "trigger", of |-> t]
Workers == 0 .. EvalWorkers - 1
Ids == DOMAIN ev
Unread == <<0>>       \* keys start at 1

(* Rounds: one per model, or one per model and trigger of the matrix.      *)
Model(r) == IF mode = "fixed" THEN r ELSE (r - 1) \div MaxTriggers + 1
Trigger(r) == IF mode = "fixed" THEN r ELSE ((r - 1) % MaxTriggers) + 1
Targets(r) == IF mode = "fixed" THEN [i \in DOMAIN Datasets |-> Fixed(Datasets[i])]
              ELSE <<TrainingSet(Trigger(r))>>
LastRound == IF mode = "fixed" THEN trained
             ELSE IF trained = MaxTriggers THEN MaxTriggers * MaxTriggers ELSE 0

Say(action, id, value) == [action |-> action, id |-> id, value |-> value]

Init ==
  /\ mode \in {"fixed", "matrix"}
  /\ metrics \in MetricChoices /\ outputs \in OutputChoices
  /\ keys = [d \in ToSet(Datasets) |-> InitialKeys]
  /\ ev = <<>>
  /\ pc = "idle" /\ trained = 0 /\ round = 0
  /\ pending = <<>> /\ evaluations = <<>> /\ working_queue = <<>>
  /\ eval_status_queue = <<>> /\ results = <<>>
  /\ faults = 0

(* The file watcher finds a new sample.                                    *)
DatasetGrows(d) ==
  /\ FoldFunction(+, 0, keys) < Len(Datasets) * InitialKeys + MaxGrowth
  /\ keys' = [keys EXCEPT ![d] = @ + 1]
  /\ UNCHANGED <<config, ev, executorVars, faults>>
-----------------------------------------------------------------------------
(* The executor.  _run_training stores the model and then evaluates it, or *)
(* leaves it for build_evaluation_matrix.                                  *)
RunTraining ==
  /\ pc = "idle" /\ trained < MaxTriggers /\ round = LastRound
  /\ trained' = trained + 1
  /\ UNCHANGED <<config, keys, ev, pc, round, pending, evaluations, working_queue,
                 eval_status_queue, results, faults>>

StartRound ==
  /\ pc = "idle" /\ round < LastRound
  /\ pc' = "start"
  /\ round' = round + 1
  /\ pending' = Targets(round + 1)
  /\ evaluations' = <<>> /\ eval_status_queue' = <<>>
  /\ UNCHANGED <<config, keys, ev, trained, working_queue, results, faults>>

(* EvaluatorGRPCServicer.evaluate_model: the size of the dataset is asked  *)
(* for before the process that reads it starts.                            *)
DatasetSize(target) == IF target.kind = "dataset" THEN keys[target.of] ELSE InitialKeys

NewEvaluation(target) ==
  [target |-> target, dataset_size |-> DatasetSize(target), metrics |-> metrics,
   stage |-> "loading", file |-> TRUE, shares |-> [w \in Workers |-> Unread],
   read |-> <<>>, accuracy |-> AccuracyStart, f1 |-> F1Start,
   queries |-> 0, responses |-> <<>>, exception |-> FALSE, killed |-> FALSE,
   metric_results |-> <<>>]

(* A dictionary keeps the place of a key that is set again.                *)
Record(id, target) ==
  LET at == {i \in DOMAIN evaluations : evaluations[i].id = id}
      entry == [id |-> id, target |-> target]
  IN IF at = {} THEN Append(evaluations, entry)
     ELSE [evaluations EXCEPT ![CHOOSE i \in at : TRUE] = entry]

(* start_evaluation.  Only the evaluation of a training set announces      *)
(* itself with create_tracker.                                             *)
EvaluateModel ==
  /\ pc = "start" /\ pending # <<>> /\ ToSet(metrics) \subseteq AllMetrics
  /\ LET id == Cardinality(Ids)
         target == Head(pending)
     IN /\ ev' = ev @@ (id :> NewEvaluation(target))
        /\ evaluations' = Record(id, target)
        /\ eval_status_queue' =
             IF mode = "matrix" THEN Append(eval_status_queue, Say("create_tracker", id, 0))
             ELSE eval_status_queue
  /\ pending' = Tail(pending)
  /\ UNCHANGED <<config, keys, pc, trained, round, working_queue, results, faults>>

(* The model is unknown or cannot be fetched, or the size is: the executor *)
(* logs it and goes on without this evaluation.                            *)
EvaluationNotStarted ==
  /\ pc = "start" /\ pending # <<>> /\ faults < MaxFaults
  /\ faults' = faults + 1
  /\ pending' = Tail(pending)
  /\ UNCHANGED <<config, keys, ev, pc, trained, round, evaluations, working_queue,
                 eval_status_queue, results>>

(* _setup_metrics raises for a metric that does not exist: the call fails, *)
(* and with it the pipeline.                                               *)
MetricUnavailable ==
  /\ pc = "start" /\ pending # <<>> /\ ~ ToSet(metrics) \subseteq AllMetrics
  /\ pc' = "failed"
  /\ UNCHANGED <<config, keys, ev, trained, round, pending, evaluations, working_queue,
                 eval_status_queue, results, faults>>

(* wait_for_evaluation_completion.                                         *)
CreateCounters ==
  /\ pc = "start" /\ pending = <<>>
  /\ pc' = "poll"
  /\ working_queue' = [i \in DOMAIN evaluations |-> evaluations[i].id]
  /\ eval_status_queue' = eval_status_queue \o
       [i \in DOMAIN evaluations |-> Say("create_counter", evaluations[i].id, 0)]
  /\ UNCHANGED <<config, keys, ev, trained, round, pending, evaluations, results, faults>>

EndCounterNoError(id, error) ==    \* mutant: the exception is not looked at
  /\ eval_status_queue' = Append(eval_status_queue, Say("end_counter", id, FALSE))
  /\ working_queue' = Tail(working_queue)
EndCounter(id, error) ==
  /\ eval_status_queue' = Append(eval_status_queue, Say("end_counter", id, error))
  /\ working_queue' = Tail(working_queue)

(* get_evaluation_status.  The exception leaves the queue when it is read. *)
AskFinished ==
  /\ pc = "poll" /\ working_queue # <<>>
  /\ LET id == Head(working_queue)
     IN \/ /\ id \notin Ids
           /\ EndCounter(id, TRUE)
           /\ UNCHANGED ev
        \/ /\ id \in Ids /\ ev[id].stage = "dead"
           /\ EndCounter(id, ev[id].exception)
           /\ ev' = [ev EXCEPT ![id].exception = FALSE]
  /\ UNCHANGED <<config, keys, pc, trained, round, pending, evaluations, results, faults>>

AskRunning ==
  /\ pc = "poll" /\ working_queue # <<>>
  /\ LET id == Head(working_queue)
     IN /\ id \in Ids /\ ev[id].stage # "dead"
        /\ ev' = [ev EXCEPT ![id].queries = @ + 1]
  /\ pc' = "answer"
  /\ UNCHANGED <<config, keys, trained, round, pending, evaluations, working_queue,
                 eval_status_queue, results, faults>>

BackOfTheQueue == Append(Tail(working_queue), Head(working_queue))

Answered ==
  /\ pc = "answer"
  /\ LET id == Head(working_queue)
     IN /\ ev[id].responses # <<>>
        /\ eval_status_queue' =
             Append(eval_status_queue, Say("progress_counter", id, Head(ev[id].responses)))
        /\ ev' = [ev EXCEPT ![id].responses = Tail(@)]
  /\ working_queue' = BackOfTheQueue
  /\ pc' = "poll"
  /\ UNCHANGED <<config, keys, trained, round, pending, evaluations, results, faults>>

BlockedWhileAlive ==    \* mutant: the answer of a process that ended is waited for without end
  /\ pc = "answer" /\ ev[Head(working_queue)].responses = <<>>
  /\ ev[Head(working_queue)].stage # "dead" /\ faults < MaxFaults /\ faults' = faults + 1
  /\ working_queue' = BackOfTheQueue
  /\ pc' = "poll"
  /\ UNCHANGED <<config, keys, ev, trained, round, pending, evaluations, eval_status_queue,
                 results>>

(* No answer within 30 seconds; the query stays in the queue, and its      *)
(* answer, if there is one, is what the next status gets.                  *)
Blocked ==
  /\ pc = "answer" /\ ev[Head(working_queue)].responses = <<>>
  /\ \/ ev[Head(working_queue)].stage = "dead" /\ UNCHANGED faults
     \/ faults < MaxFaults /\ faults' = faults + 1
  /\ working_queue' = BackOfTheQueue
  /\ pc' = "poll"
  /\ UNCHANGED <<config, keys, ev, trained, round, pending, evaluations, eval_status_queue,
                 results>>

(* store_evaluation_results and get_evaluation_result: what was returned   *)
(* goes to the writers, however many of the metrics it has.                *)
ResultValid(id) == id \in Ids /\ ev[id].stage = "dead"
ResultsToStore ==
  LET valid == SelectSeq(evaluations, LAMBDA e : ResultValid(e.id))
  IN [i \in DOMAIN valid |->
        [id |-> valid[i].id, target |-> valid[i].target,
         dataset_size |-> ev[valid[i].id].dataset_size,
         data |-> ev[valid[i].id].metric_results]]

StoreEvaluationResults ==
  /\ pc = "poll" /\ working_queue = <<>>
  /\ pc' = "idle"
  /\ results' = results @@ (<<Model(round), Trigger(round)>> :> ResultsToStore)
  /\ ev' = [id \in Ids |-> IF \E i \in DOMAIN evaluations : evaluations[i].id = id /\ ResultValid(id)
                            THEN [ev[id] EXCEPT !.metric_results = <<>>] ELSE ev[id]]
  /\ UNCHANGED <<config, keys, trained, round, pending, evaluations, working_queue,
                 eval_status_queue, faults>>
-----------------------------------------------------------------------------
(* The process of an evaluation (PytorchEvaluator).  Its memory ends with  *)
(* it, and nobody reads its queue of queries any more.                     *)
Dead(e) == [e EXCEPT !.stage = "dead", !.shares = <<>>, !.read = <<>>, !.queries = 0,
                     !.accuracy = AccuracyStart, !.f1 = F1Start]
LoadState(id) ==
  /\ ev[id].stage = "loading"
  /\ ev' = [ev EXCEPT ![id].stage = "evaluating", ![id].file = FALSE]
  /\ UNCHANGED <<config, keys, executorVars, faults>>

(* The share of worker w when n keys are dealt to total workers.           *)
Share(w, total, n) ==
  LET base == n \div total
      rest == n % total
      first == w * base + Min({w, rest})
  IN [i \in 1 .. base + (IF w < rest THEN 1 ELSE 0) |-> first + i]

(* Every worker of the data loader asks for its own share, storage for a   *)
(* dataset and the selector for a training set; the selector deals the     *)
(* set to as many workers as the pipeline trains with.                     *)
WorkerReads(id, w) ==
  /\ ev[id].stage = "evaluating" /\ ev[id].shares[w] = Unread
  /\ LET target == ev[id].target
     IN \/ /\ target.kind = "dataset"
           /\ ev' = [ev EXCEPT ![id].shares[w] = Share(w, EvalWorkers, keys[target.of])]
        \/ /\ target.kind = "trigger" /\ w < TrainWorkers
           /\ ev' = [ev EXCEPT ![id].shares[w] = Share(w, TrainWorkers, InitialKeys)]
        \/ /\ target.kind = "trigger" /\ w >= TrainWorkers
           /\ ev' = [ev EXCEPT ![id] = [Dead(@) EXCEPT !.exception = TRUE]]
  /\ UNCHANGED <<config, keys, executorVars, faults>>

(* prepare_metrics stops at the first holistic metric: the transformers of *)
(* the metrics behind it stay undeserialized.                              *)
Transformed(e, name) ==
  \E i \in DOMAIN e.metrics :
    e.metrics[i] = name /\ \A j \in 1 .. i - 1 : e.metrics[j] \notin Holistic

Sample(k) == [label |-> k % 2, output |-> outputs[k]]
Batch(share) == [i \in 1 .. Min({BatchSize, Len(share)}) |-> Sample(share[i])]

(* The data loader hands out the batches of its workers in turn.           *)
Turn(shares) ==
  CHOOSE w \in Workers : \A v \in Workers :
    Len(shares[v]) < Len(shares[w]) \/ (Len(shares[v]) = Len(shares[w]) /\ w <= v)

(* One turn of the loop of evaluate: a status query is answered with what  *)
(* was seen before this batch.                                             *)
EvaluateBatch(id, w) ==
  /\ ev[id].stage = "evaluating" /\ \A v \in Workers : ev[id].shares[v] # Unread
  /\ ev[id].shares[w] # <<>> /\ w = Turn(ev[id].shares)
  /\ LET e == ev[id]
         batch == Batch(e.shares[w])
         answer == e.queries > 0
     IN ev' = [ev EXCEPT
          ![id].shares[w] = SubSeq(@, Len(batch) + 1, Len(@)),
          ![id].queries = IF answer THEN @ - 1 ELSE @,
          ![id].responses = IF answer THEN Append(@, Len(e.read)) ELSE @,
          ![id].accuracy = AccuracyBatch(@, Predictions(batch, Transformed(e, "Accuracy"))),
          ![id].f1 = F1Batch(@, Predictions(batch, Transformed(e, "F1-score"))),
          ![id].read = @ \o batch]
  /\ UNCHANGED <<config, keys, executorVars, faults>>

(* What a metric has when get_evaluation_result is called; what it returns *)
(* is MetricResult below.                                                  *)
MetricState(e, name) ==
  CASE name = "Accuracy" -> e.accuracy
    [] name = "F1-score" -> e.f1
    [] name = "ROC-AUC" -> e.read

(* Holistic metrics and results, then the process returns; one raise and   *)
(* no metric is put.                                                       *)
FinishEvaluation(id) ==
  /\ ev[id].stage = "evaluating" /\ \A w \in Workers : ev[id].shares[w] = <<>>
  /\ IF "ROC-AUC" \in ToSet(ev[id].metrics) /\ RocAucRaises(ev[id].read)
       THEN ev' = [ev EXCEPT ![id] = [Dead(@) EXCEPT !.exception = TRUE]]
       ELSE ev' = [ev EXCEPT
              ![id].stage = "exiting",
              ![id].metric_results =
                 [i \in DOMAIN ev[id].metrics |->
                    [name |-> ev[id].metrics[i], state |-> MetricState(ev[id], ev[id].metrics[i])]]]
  /\ UNCHANGED <<config, keys, executorVars, faults>>

Exit(id) ==
  /\ ev[id].stage = "exiting"
  /\ ev' = [ev EXCEPT ![id] = Dead(@)]
  /\ UNCHANGED <<config, keys, executorVars, faults>>

EvaluationRaises(id) ==
  /\ ev[id].stage \in {"loading", "evaluating"} /\ faults < MaxFaults
  /\ faults' = faults + 1
  /\ ev' = [ev EXCEPT ![id] = [Dead(@) EXCEPT !.exception = TRUE, !.file = FALSE]]
  /\ UNCHANGED <<config, keys, executorVars>>

EvaluationKilled(id) ==
  /\ ev[id].stage # "dead" /\ faults < MaxFaults
  /\ faults' = faults + 1
  /\ ev' = [ev EXCEPT ![id] = [Dead(@) EXCEPT !.killed = TRUE]]
  /\ UNCHANGED <<config, keys, executorVars>>

(* The evaluator starts again: it knows no evaluation, counts from zero    *)
(* and clears its directory.  A call under way fails, and the pipeline.    *)
EvaluatorRestarts ==
  /\ faults < MaxFaults
  /\ faults' = faults + 1
  /\ ev' = <<>>
  /\ pc' = IF pc = "answer" THEN "failed" ELSE pc
  /\ UNCHANGED <<config, keys, trained, round, pending, evaluations, working_queue,
                 eval_status_queue, results>>
-----------------------------------------------------------------------------
ExecutorStep ==
  \/ RunTraining \/ StartRound \/ EvaluateModel \/ MetricUnavailable \/ CreateCounters
  \/ AskFinished \/ AskRunning \/ Answered \/ Blocked \/ StoreEvaluationResults

ProcessStep(id) ==
  \/ LoadState(id) \/ FinishEvaluation(id) \/ Exit(id)
  \/ \E w \in Workers : WorkerReads(id, w) \/ EvaluateBatch(id, w)

Fault ==
  \/ EvaluationNotStarted \/ EvaluatorRestarts
  \/ \E id \in Ids : EvaluationRaises(id) \/ EvaluationKilled(id)

Finished == pc = "failed" \/ (pc = "idle" /\ trained = MaxTriggers /\ round = LastRound)
Done == Finished /\ (\A id \in Ids : ev[id].stage = "dead") /\ UNCHANGED vars

Next ==
  \/ ExecutorStep
  \/ \E id \in Ids : ProcessStep(id)
  \/ \E d \in ToSet(Datasets) : DatasetGrows(d)
  \/ Fault \/ Done

(* The executor goes on, and so does a process that can: every process has *)
(* finitely many steps, so fairness to all of them together suffices.      *)
Spec ==
  /\ Init /\ [][Next]_vars
  /\ WF_vars(ExecutorStep)
  /\ WF_vars(\E id \in Ids : ProcessStep(id))
-----------------------------------------------------------------------------
(* The types, and: a process that ended leaves no downloaded model behind, *)
(* only one killed before it had loaded the model does.                    *)
TypeOK ==
  /\ mode \in {"fixed", "matrix"} /\ metrics \in MetricChoices
  /\ pc \in {"idle", "start", "poll", "answer", "failed"}
  /\ trained \in 0 .. MaxTriggers /\ round \in 0 .. MaxTriggers * MaxTriggers
  /\ \A d \in ToSet(Datasets) : keys[d] \in InitialKeys .. InitialKeys + MaxGrowth
  /\ Ids = 0 .. Cardinality(Ids) - 1
  /\ \A id \in Ids :
       /\ ev[id].stage \in {"loading", "evaluating", "exiting", "dead"}
       /\ ev[id].queries \in Nat
       /\ ev[id].stage = "dead" /\ ~ ev[id].killed => ~ ev[id].file
       /\ ToSet(ev[id].responses) \subseteq 0 .. InitialKeys + MaxGrowth

(* What is stored for an evaluation is, for every metric, its definition   *)
(* over the whole dataset, however the samples were cut into shares and    *)
(* batches and however slowly its process answered -- unless the dataset   *)
(* grew (DatasetGrows) while the evaluation read it.                       *)
Reference(name, n) ==
  LET samples == [k \in 1 .. n |-> Sample(k)]
      preds == Predictions(samples, TRUE)
  IN CASE name = "Accuracy" -> AccuracyOf(preds)
       [] name = "F1-score" ->
            IF n = 0 THEN <<0, 1>>
            ELSE IF Average = "binary" THEN F1OfClass(preds, 1)
            ELSE LET zero == F1OfClass(preds, 0)
                     one == F1OfClass(preds, 1)
                 IN <<zero[1] * one[2] + one[1] * zero[2], 2 * zero[2] * one[2]>>
       [] name = "ROC-AUC" -> AucOf(samples)
MetricResult(m) ==
  CASE m.name = "Accuracy" -> AccuracyResult(m.state)
    [] m.name = "F1-score" -> F1Result(m.state)
    [] m.name = "ROC-AUC" -> RocAucResult(m.state)
Still(e) == e.target.kind = "trigger" \/ keys[e.target.of] = e.dataset_size
MetricsExact ==
  \A r \in DOMAIN results : \A i \in DOMAIN results[r] : Still(results[r][i]) =>
    \A j \in DOMAIN results[r][i].data :
      LET m == results[r][i].data[j]
      IN SameValue(MetricResult(m), Reference(m.name, results[r][i].dataset_size))

(* The client is told how an evaluation went: progress that never goes     *)
(* back, with answers that come after their query timed out as well; then  *)
(* one end_counter, with an error exactly when the process raised; and     *)
(* every metric is stored when it returned.  Only a process killed from    *)
(* outside ends without error and without results.                         *)
Told(id, action) == SelectSeq(eval_status_queue, LAMBDA m : m.id = id /\ m.action = action)
ProgressInOrder(id) ==
  LET p == Told(id, "progress_counter") IN \A i \in 1 .. Len(p) - 1 : p[i].value <= p[i + 1].value
ReportsTruthful ==
  /\ \A id \in Ids : ProgressInOrder(id)
  /\ pc = "idle" /\ round > 0 =>
       /\ \A i \in DOMAIN evaluations : Len(Told(evaluations[i].id, "end_counter")) = 1
       /\ \A i \in DOMAIN results[Model(round), Trigger(round)] :
            LET e == results[Model(round), Trigger(round)][i]
            IN e.id \in Ids /\ ~ ev[e.id].killed =>
                 (Len(e.data) = Len(metrics)) = ~ Told(e.id, "end_counter")[1].value

(* A round of evaluations comes to an end: a process that does not answer  *)
(* holds the others up for 30 seconds, never for good.                     *)
RoundEnds == pc = "start" ~> pc \in {"idle", "failed"}
=============================================================================
