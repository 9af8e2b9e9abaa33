----------------------------- MODULE SampleFeed -----------------------------
(***************************************************************************)
(* What a replayed pipeline promises about the samples it hands to the     *)
(* selector: the samples of the replay interval form one stream, each      *)
(* sample is handed over once and in stream order, a trigger cuts the      *)
(* samples handed over so far from the ones that follow, there are no more *)
(* triggers than the limit, and it ends when all is handed over or the     *)
(* limit is reached.                                                       *)
(***************************************************************************)
EXTENDS Naturals, Sequences

CONSTANT Sample        \* the sample ids storage may hand out

VARIABLES
  limit,               \* of the triggers; 0: none
  stream,              \* the samples of the replay interval, in time order
  informed,            \* the samples the selector was informed about
  trigger_ends,        \* Len(informed) at each trigger
  finished

feedVars == <<limit, stream, informed, trigger_ends, finished>>

IsPrefixOf(s, t) == Len(s) <= Len(t) /\ s = SubSeq(t, 1, Len(s))
AtLimit == limit # 0 /\ Len(trigger_ends) >= limit

Init ==
  /\ limit \in Nat
  /\ stream = <<>>
  /\ informed = <<>>
  /\ trigger_ends = <<>>
  /\ finished = FALSE

(* The interval is read from storage once, before anything is handed over. *)
Open ==
  /\ stream = <<>> /\ informed = <<>> /\ ~finished
  /\ stream' \in Seq(Sample)
  /\ UNCHANGED <<limit, informed, trigger_ends, finished>>

(* The next samples of the stream are handed over. *)
Inform ==
  /\ ~finished
  /\ IsPrefixOf(informed, informed')
  /\ IsPrefixOf(informed', stream)
  /\ UNCHANGED <<limit, stream, trigger_ends, finished>>

(* The next samples, possibly none, are handed over and a trigger is cut. *)
Trigger ==
  /\ ~finished /\ ~AtLimit
  /\ IsPrefixOf(informed, informed')
  /\ IsPrefixOf(informed', stream)
  /\ trigger_ends' = Append(trigger_ends, Len(informed'))
  /\ UNCHANGED <<limit, stream, finished>>

(* Nothing is left to hand over, or no trigger is left to be cut. *)
Finish ==
  /\ ~finished
  /\ informed = stream \/ AtLimit
  /\ finished' = TRUE
  /\ UNCHANGED <<limit, stream, informed, trigger_ends>>

Next == Open \/ Inform \/ Trigger \/ Finish

Spec == Init /\ [][Next]_feedVars
=============================================================================
