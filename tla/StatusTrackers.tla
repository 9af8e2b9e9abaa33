--------------------------- MODULE StatusTrackers ---------------------------
(***************************************************************************)
(* The progress bars of the client (modynclient's TrainingStatusTracker    *)
(* and EvaluationStatusTracker): what each message of the supervisor does  *)
(* to the bar on display.  A failed assertion or a missing key ends the    *)
(* client; a loop that never ends hangs it.                                *)
(***************************************************************************)
EXTENDS Integers

NoBar == -1

(* samples_per_epoch is the size of the trigger's training set, and an     *)
(* epoch trains on status_bar_scale percent of it.                         *)
TrainingTracker(id, samples_per_epoch, status_bar_scale) ==
  [id |-> id, event |-> "IDLE", bar |-> NoBar, current_epoch |-> 0, hung |-> FALSE,
   last_samples_training |-> 0, last_samples_downsampling |-> 0,
   num_samples_downsampling |-> samples_per_epoch,
   num_samples_epoch_training |-> (status_bar_scale * samples_per_epoch) \div 100]

StartDownsampling(t) ==
  [t EXCEPT !.event = "DOWNSAMPLING", !.bar = 0, !.last_samples_downsampling = 0]
EndDownsampling(t) == [t EXCEPT !.event = "IDLE", !.bar = NoBar]
StartTrainingEpoch(t) == [t EXCEPT !.event = "TRAINING", !.bar = 0]
EndTrainingEpoch(t) ==
  [t EXCEPT !.event = "IDLE", !.bar = NoBar, !.current_epoch = @ + 1]
ProgressEpoch(t, samples) == [t EXCEPT !.bar = @ + samples]

(* The samples beyond the epoch that just ended: whole epochs end one      *)
(* after the other, and the rest stays in the bar of the next one.  With   *)
(* no samples in an epoch the loop does not end.                           *)
SpillOver(t, remaining) ==
  LET epoch == t.num_samples_epoch_training
      whole == IF remaining > epoch THEN (remaining - 1) \div epoch ELSE 0
      rest == remaining - (whole * epoch)
      last == [StartTrainingEpoch(t) EXCEPT !.current_epoch = @ + whole, !.bar = rest]
  IN IF epoch = 0 /\ remaining > 0 THEN [t EXCEPT !.hung = TRUE]
     ELSE IF rest = epoch THEN EndTrainingEpoch(last) ELSE last

EpochBoundaryOfFirst(t) == t.num_samples_epoch_training   \* mutant: the epochs before are forgotten
EpochBoundary(t) == t.num_samples_epoch_training * (t.current_epoch + 1)

(* _progress_counter_training                                              *)
ProgressTraining(t, samples_seen) ==
  LET new == samples_seen - t.last_samples_training
      seen(u) == [u EXCEPT !.last_samples_training = samples_seen]
      this_epoch == t.num_samples_epoch_training - t.bar
  IN IF new = 0 THEN t
     ELSE IF samples_seen < EpochBoundary(t) THEN seen(ProgressEpoch(t, new))
     ELSE IF samples_seen = EpochBoundary(t) THEN seen(EndTrainingEpoch(ProgressEpoch(t, new)))
     ELSE seen(SpillOver(EndTrainingEpoch(ProgressEpoch(t, this_epoch)), new - this_epoch))

(* _progress_counter_downsampling                                          *)
ProgressDownsampling(t, samples_seen) ==
  LET u == [t EXCEPT !.bar = @ + samples_seen - t.last_samples_downsampling,
                     !.last_samples_downsampling = samples_seen]
  IN IF samples_seen = t.num_samples_downsampling THEN EndDownsampling(u) ELSE u

Phase(t, is_training) ==
  CASE t.event = "IDLE" ->
         IF is_training THEN StartTrainingEpoch(t) ELSE StartDownsampling(t)
    [] t.event = "DOWNSAMPLING" /\ is_training -> StartTrainingEpoch(EndDownsampling(t))
    [] t.event = "TRAINING" /\ ~ is_training -> StartDownsampling(EndTrainingEpoch(t))
    [] OTHER -> t

(* progress_counter: a training answer behind the last one is outdated.    *)
ProgressCounter(t, training, downsampling, is_training) ==
  LET u == Phase(t, is_training)
  IN IF u.event = "DOWNSAMPLING" THEN ProgressDownsampling(u, downsampling)
     ELSE IF training < u.last_samples_training THEN u
     ELSE ProgressTraining(u, training)

CloseCounter(t) ==
  IF t.event = "IDLE" THEN t ELSE [t EXCEPT !.event = "IDLE", !.bar = NoBar]
-----------------------------------------------------------------------------
(* The bar of one evaluation; it has no counter before create_counter.     *)
EvaluationTracker(dataset_size) ==
  [dataset_size |-> dataset_size, bar |-> NoBar, last_samples_seen |-> 0, ended |-> FALSE]
CreateCounter(e) == [e EXCEPT !.bar = 0]
EndEvaluationCounter(e, error) ==
  [e EXCEPT !.bar = IF error THEN @ ELSE e.dataset_size, !.ended = TRUE]
ProgressEvaluation(e, samples_seen) ==
  LET u == [e EXCEPT !.bar = @ + samples_seen - e.last_samples_seen,
                     !.last_samples_seen = samples_seen]
  IN IF samples_seen = e.dataset_size THEN EndEvaluationCounter(u, FALSE) ELSE u
-----------------------------------------------------------------------------
(* What the bar should show of a training without downsampling: the epochs *)
(* that are over and the samples seen of the next one, with no bar between *)
(* two epochs.                                                             *)
ShowsProgress(t) ==
  LET epoch == t.num_samples_epoch_training
      over == t.last_samples_training \div epoch
      seen == t.last_samples_training % epoch
  IN /\ t.current_epoch = over
     /\ t.event = "TRAINING" => t.bar = seen
     /\ t.event = "IDLE" => t.bar = NoBar
=============================================================================
