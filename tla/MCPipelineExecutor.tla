------------------------- MODULE MCPipelineExecutor -------------------------
(* Small instances of PipelineExecutor. *)
EXTENDS PipelineExecutor

Replay(trigger, limit, stop, use_previous) ==
  [experiment |-> TRUE, trigger |-> trigger, maximum_triggers |-> limit, start |-> 1,
   stop |-> stop, use_previous_model |-> use_previous, initial_model |-> 0]
Poll(trigger, limit, start) ==
  [experiment |-> FALSE, trigger |-> trigger, maximum_triggers |-> limit, start |-> start,
   stop |-> 0, use_previous_model |-> TRUE, initial_model |-> 1]

MCReplayConfigs ==
  {Replay("DataAmountTrigger", 0, 2, TRUE), Replay("DataAmountTrigger", 1, 0, FALSE),
   Replay("TimeTrigger", 0, 0, TRUE), Replay("TimeTrigger", 1, 0, FALSE)}
MCPollConfigs == {Poll("DataAmountTrigger", 2, 1), Poll("TimeTrigger", 1, 2)}

MCConfigs == MCReplayConfigs \cup MCPollConfigs
=============================================================================
