----------------------- MODULE MCPipelineSupervision -----------------------
(***************************************************************************)
(* A pipeline that is right in every respect, or wrong in one, that        *)
(* evaluates nothing, on a fixed dataset or its evaluation matrix.         *)
(***************************************************************************)
EXTENDS PipelineSupervision

Right ==
  [gpus |-> 1, batch_size |-> 1, dataloader_workers |-> 1, strategy |-> "NewDataStrategy",
   initial_model |-> "random", use_previous_model |-> FALSE, has_initial_model_id |-> FALSE,
   model_available |-> TRUE, trigger_available |-> TRUE, dataset_id |-> "train",
   has_evaluation |-> TRUE, evaluation_matrix |-> TRUE, eval_datasets |-> <<"train", "test">>,
   eval_batch_size |-> 1, eval_workers |-> 1, result_writers |-> {"json"},
   has_num_prefetched_partitions |-> TRUE, has_prefetched_partitions |-> FALSE,
   checkpointing_complete |-> TRUE, directory_writable |-> TRUE,
   dataset_available |-> TRUE, trainer_available |-> TRUE]

NoEvaluation ==
  [Right EXCEPT !.has_evaluation = FALSE, !.evaluation_matrix = FALSE]
Pretrained ==
  [NoEvaluation EXCEPT !.initial_model = "pretrained", !.use_previous_model = TRUE,
                       !.strategy = "CoresetStrategy", !.has_initial_model_id = TRUE]
FixedDatasets == [Right EXCEPT !.evaluation_matrix = FALSE, !.eval_datasets = <<"test">>]

Wrong ==
  {[Right EXCEPT !.gpus = 2], [Right EXCEPT !.batch_size = 0],
   [Right EXCEPT !.dataloader_workers = 0], [Right EXCEPT !.strategy = "Other"],
   [Right EXCEPT !.initial_model = "other"], [Pretrained EXCEPT !.use_previous_model = FALSE],
   [Pretrained EXCEPT !.has_initial_model_id = FALSE], [Right EXCEPT !.model_available = FALSE],
   [Right EXCEPT !.trigger_available = FALSE], [Right EXCEPT !.eval_datasets = <<"test">>],
   [Right EXCEPT !.eval_datasets = <<"train", "train">>], [Right EXCEPT !.eval_batch_size = 0],
   [Right EXCEPT !.eval_workers = 0], [FixedDatasets EXCEPT !.result_writers = {"other"}],
   [Right EXCEPT !.directory_writable = FALSE], [Right EXCEPT !.dataset_available = FALSE],
   [Right EXCEPT !.trainer_available = FALSE]}

(* Configurations whose executor may run.                                  *)
MCConfigChoices ==
  {Right, Pretrained, FixedDatasets, [Right EXCEPT !.has_num_prefetched_partitions = FALSE],
   [Right EXCEPT !.checkpointing_complete = FALSE]}
    \cup Wrong
MCStrategies == {"NewDataStrategy", "FreshnessSamplingStrategy", "CoresetStrategy"}
MCWriters == {"json", "tensorboard", "log"}
=============================================================================
