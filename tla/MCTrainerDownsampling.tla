------------------------ MODULE MCTrainerDownsampling ------------------------
(* Four samples of two labels in several arrangements, none, and ties.      *)
EXTENDS TrainerDownsampling

Sample(l, n) == [label |-> l, score |-> n]
MCTrainingSets ==
  {<<>>,
   <<Sample("a", 1), Sample("b", 2), Sample("a", 6), Sample("b", 4)>>,
   <<Sample("a", 0), Sample("a", 3), Sample("a", 3), Sample("b", 9), Sample("a", 5)>>,
   <<Sample("b", 0), Sample("b", 0)>>}

MCConfigurations ==
  {c \in [strategy : Strategies, downsampling_ratio : {30, 60}, balance : BOOLEAN,
          sample_then_batch : BOOLEAN, downsampling_period : 0 .. 2,
          selection_batch : {2, 64}, function : {"FacilityLocation", "GraphCut"},
          optimizer : {"NaiveGreedy", "LazyGreedy"},
          batch_size : {1, 3}] :
     /\ ConfigOK(c)
     /\ ~c.sample_then_batch => c.downsampling_period = 0
     /\ c.batch_size = IF c.sample_then_batch THEN 1 ELSE 3
     /\ c.strategy # "submodular" => c.function = "FacilityLocation"
     /\ c.strategy # "craig" => c.selection_batch = 64
     /\ c.strategy \notin {"submodular", "craig"} => c.optimizer = "NaiveGreedy"}
MCBalanced == {c \in MCConfigurations : c.balance /\ c.strategy = "kcenter"
                                          /\ c.downsampling_period = 1}
=============================================================================
