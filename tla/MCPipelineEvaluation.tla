----------------------- MODULE MCPipelineEvaluation -----------------------
(* Two datasets of three keys; scores that tie, that order well and that    *)
(* order badly, and one with a single change of score.                      *)
EXTENDS PipelineEvaluation

MCDatasets == <<"mnist", "cloc">>
MCMetrics == {<<"Accuracy", "F1-score", "ROC-AUC">>, <<"Unknown">>}
MCOutputs == {<<2, 1, 0, 2>>, <<1, 1, 0, 2>>}
=============================================================================
