--------------------------- MODULE MCSelectorManager ---------------------------
(* SelectorManager with small sets; the processes are interchangeable. *)
EXTENDS SelectorManager, TLC
CONSTANTS p1, p2
Strategy(name, presampling, ratio, force) ==
  [name |-> name, presampling |-> presampling, ratio |-> ratio, force |-> force]
MCStrategies ==
  {Strategy("NewDataStrategy", "No", 100, "no"),
   Strategy("FreshnessSamplingStrategy", "No", 50, "no"),
   Strategy("FreshnessSamplingStrategy", "No", 30, "no"),
   Strategy("CoresetStrategy", "No", 100, "no"),
   Strategy("CoresetStrategy", "Random", 50, "no"),
   Strategy("CoresetStrategy", "RandomNoReplacement", 70, "no"),
   Strategy("CoresetStrategy", "LabelBalanced", 100, "no"),
   Strategy("CoresetStrategy", "LabelBalanced", 75, "target_size"),
   Strategy("CoresetStrategy", "LabelBalanced", 75, "balancing"),
   Strategy("CoresetStrategy", "TriggerBalanced", 75, "balancing")}
MCLabel == [k \in 1 .. MaxSamples |-> IF k % 3 = 0 THEN 1 ELSE 0]
MCTails == {0, 1, AllData}
MCThresholds == <<1, 3>>
Symmetry == Permutations(Processes)
=============================================================================
