--------------------------- MODULE MCTrainerServer ---------------------------
(* TrainerServer with short epochs, with and without downsampling. *)
EXTENDS TrainerServer
MCRequests == {[use_pretrained_model |-> FALSE, checkpoint_interval |-> 0],
               [use_pretrained_model |-> TRUE, checkpoint_interval |-> 1]}
MCPeriods == {-1, 0, 1}
=============================================================================
