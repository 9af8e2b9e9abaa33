--------------------------- MODULE MCTriggerSamples ---------------------------
(* TriggerSamples with up to eleven files, whose names do not sort by index. *)
EXTENDS TriggerSamples
=============================================================================
