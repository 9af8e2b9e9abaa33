----------------------- MODULE PipelineExecutorProofs -----------------------
(***************************************************************************)
(* The safety properties of PipelineExecutor, for every set of pipeline    *)
(* configurations, batch size, trigger amount and trigger interval: what   *)
(* has left storage and what the selector knows are two ends of one chain  *)
(*   informed, rest of batch, new_data, responses                          *)
(* whose parts each step moves on without changing their order.            *)
(***************************************************************************)
EXTENDS PipelineExecutor, DataLemmas

Triggering == pc \in {"trigger", "train", "training", "after_trigger"}
TriggerCut == pc \in {"train", "training", "after_trigger"}

(* What each program position of the executor has in its hands.            *)
ControlInv ==
  /\ pc = "replay" => config.experiment /\ responses = <<>>
  /\ pc = "fetch" => ~config.experiment
  /\ ~config.experiment \/ pc = "replay" => stream = <<>>
  /\ pc \in {"replay", "fetch", "stream"} => new_data = <<>>
  /\ Triggering => /\ triggering_positions # <<>>
                   /\ previous_trigger_idx <= triggering_positions[1]
                   /\ \A i, j \in DOMAIN triggering_positions :
                        i <= j => triggering_positions[i] <= triggering_positions[j]
  /\ TriggerCut => previous_trigger_idx = triggering_positions[1]
  /\ ~Stopped /\ ~Triggering =>
       batch = <<>> /\ triggering_positions = <<>> /\ previous_trigger_idx = 0
  /\ ~Stopped => Len(trigger_ends) = IF TriggerCut THEN num_triggers + 1 ELSE num_triggers

(* The stream of a replay has every sample once, in time order; as long as *)
(* the limit is not reached, what is in hand follows what was informed.    *)
StreamInv ==
  \A i, j \in DOMAIN stream :
    i < j => stream[i] # stream[j] /\ stored[stream[i]] <= stored[stream[j]]

Within(s, t, n) == n \in 0 .. Len(t) - Len(s) /\ \A i \in 1 .. Len(s) : s[i] = t[n + i]
Follows(s, n) == Within(s, stream, n)
Cut == Len(informed) - previous_trigger_idx + Len(batch)
ChainFollows ==
  /\ Follows(batch, Len(informed) - previous_trigger_idx)
  /\ Follows(new_data, Cut)
  /\ Follows(responses, Cut + Len(new_data))
  /\ storage_errors = 0 => Cut + Len(new_data) + Len(responses) = Len(stream)

ReplayInv ==
  config.experiment /\ ~Stopped =>
    /\ Follows(informed, 0)
    /\ ~LimitReached(num_triggers) => ChainFollows
    /\ LimitReached(num_triggers) => /\ pc \in {"data", "stream"} /\ new_data = <<>>
                                     /\ pc = "stream" => responses = <<>>

(* Where the triggers cut the samples, and which of them were trained.     *)
StartOf(ends, i) == IF i = 1 THEN 0 ELSE ends[i - 1]
HasSamples(ends, i) == StartOf(ends, i) < ends[i]
LastEnd == IF trigger_ends = <<>> THEN 0 ELSE trigger_ends[Len(trigger_ends)]

CutInv ==
  /\ \A i, j \in Triggers : i <= j => trigger_ends[i] <= trigger_ends[j]
  /\ TriggerCut => LastEnd = Len(informed)

Trained(i) == \E j \in DOMAIN trainings : trainings[j].trigger = i
ContinuedModel(n) ==
  IF n = 0 \/ ~config.use_previous_model THEN config.initial_model ELSE trainings[n].model

TrainedInv ==
  /\ \A i, j \in DOMAIN trainings : i < j => trainings[i].trigger < trainings[j].trigger
  /\ \A j \in DOMAIN trainings :
       /\ trainings[j].trigger \in Triggers /\ HasSamples(trigger_ends, trainings[j].trigger)
       /\ trainings[j].informed = trigger_ends[trainings[j].trigger]
       /\ trainings[j].from = ContinuedModel(j - 1)
  /\ \A i \in Triggers : HasSamples(trigger_ends, i) =>
       Trained(i) \/ (i = Len(trigger_ends) /\ pc \in {"train", "failed", "done"})
  /\ pc = "train" => /\ HasSamples(trigger_ends, Len(trigger_ends))
                     /\ \A j \in DOMAIN trainings : trainings[j].trigger < Len(trigger_ends)
  /\ pc = "training" => trainings # <<>>
  /\ ~Stopped =>
       IF pc = "training"
         THEN ~config.use_previous_model => previous_model_id = config.initial_model
         ELSE previous_model_id = ContinuedModel(Len(trainings))

(* The amount policy: remaining_data_points counts the samples since the   *)
(* last trigger, and the positions of a batch are one amount apart.        *)
OnTrack == ~Stopped /\ ~LimitReached(num_triggers)
AmountInv ==
  config.trigger = "DataAmountTrigger" =>
    /\ \A i \in Triggers : WithinLimit(i) => trigger_ends[i] - StartOf(trigger_ends, i) = DataPointsForTrigger
    /\ OnTrack /\ ~Triggering => Len(informed) - LastEnd = remaining_data_points
    /\ OnTrack /\ Triggering =>
         /\ pc = "trigger" =>
              Len(informed) - LastEnd + triggering_positions[1] - previous_trigger_idx
                = DataPointsForTrigger
         /\ \A i \in 1 .. Len(triggering_positions) - 1 :
              triggering_positions[i + 1] - triggering_positions[i] = DataPointsForTrigger
         /\ Len(batch) - triggering_positions[Len(triggering_positions)] = remaining_data_points

(* Samples come in time order: those still to be read are not older than   *)
(* those in hand, nor than the time of the last trigger.                   *)
InOrder(s) == \A i, j \in DOMAIN s : i <= j => stored[s[i]] <= stored[s[j]]
NoneBefore(s, t) == \A i \in DOMAIN s : t <= stored[s[i]]
OrderInv ==
  ~Stopped =>
    /\ InOrder(new_data) /\ InOrder(responses)
    /\ \A i \in DOMAIN new_data : NoneBefore(responses, stored[new_data[i]])
    /\ ~config.experiment =>
         /\ \A i \in DOMAIN new_data : stored[new_data[i]] <= last_timestamp
         /\ NoneBefore(responses, last_timestamp)

ClockInv ==
  config.trigger = "TimeTrigger" /\ ~Stopped =>
    IF next_trigger_at = NotSet
      THEN informed = <<>> /\ ~Triggering
      ELSE /\ NoneBefore(new_data, next_trigger_at - TriggerEvery)
           /\ NoneBefore(responses, next_trigger_at - TriggerEvery)
           /\ ~config.experiment => last_timestamp >= next_trigger_at - TriggerEvery
           /\ pc # "replay"

(* The time policy: the n-th window starts n - 1 intervals after the first *)
(* sample the policy saw.                                                  *)
Origin == stored[IF informed = <<>> THEN batch[1] ELSE informed[1]]
WindowStart(o, n) == o + (n - 1) * TriggerEvery
InWindow(o, t, n) == WindowStart(o, n) <= t /\ t < WindowStart(o, n + 1)

PastWindows ==
  \A i \in Triggers : WithinLimit(i) =>
    /\ informed # <<>>
    /\ \A j \in StartOf(trigger_ends, i) + 1 .. trigger_ends[i] :
         InWindow(Origin, stored[informed[j]], i)

CurrentWindow ==
  /\ next_trigger_at = WindowStart(Origin, num_triggers + Len(triggering_positions) + 2)
  /\ informed = <<>> => /\ pc = "trigger" /\ batch # <<>>
                        /\ previous_trigger_idx = 0 /\ num_triggers = 0
  /\ \A j \in LastEnd + 1 .. Len(informed) :
       InWindow(Origin, stored[informed[j]], num_triggers + 1)
  /\ \A i \in DOMAIN batch : stored[batch[i]] < next_trigger_at
  /\ \A n \in DOMAIN triggering_positions : \A i \in DOMAIN batch :
       i <= triggering_positions[n] <=> stored[batch[i]] < WindowStart(Origin, num_triggers + n + 1)
  /\ pc = "trigger" =>
       \A i \in previous_trigger_idx + 1 .. Len(batch) :
         WindowStart(Origin, num_triggers + 1) <= stored[batch[i]]

WindowInv ==
  config.trigger = "TimeTrigger" =>
    PastWindows /\ (OnTrack /\ next_trigger_at # NotSet => CurrentWindow)

IInv == /\ TypeOK /\ ControlInv /\ CutInv /\ TrainedInv /\ AmountInv
        /\ StreamInv /\ ReplayInv /\ OrderInv /\ ClockInv /\ WindowInv
-----------------------------------------------------------------------------
(* The operators of the model.                                             *)
LEMMA Constants ==
  TypeOK => /\ StorageBatchSize \in Nat \ {0} /\ SelectorBatchSize \in Nat \ {0}
            /\ DataPointsForTrigger \in Nat \ {0} /\ TriggerEvery \in Nat \ {0}
            /\ config \in [experiment : BOOLEAN, trigger : {"DataAmountTrigger", "TimeTrigger"},
                           maximum_triggers : Nat, start : Nat, stop : Nat,
                           use_previous_model : BOOLEAN, initial_model : Nat]
            /\ stored \in Seq(Times) /\ Len(stored) \in Nat /\ Keys = 1 .. Len(stored)
            /\ \A k \in Keys : stored[k] \in Nat \ {0} /\ stored[k] \in Times
<1> SUFFICES ASSUME TypeOK PROVE Constants!2
  OBVIOUS
<1>1. stored \in Seq(Times) /\ Times \subseteq Nat \ {0}
  BY BatchAssumption DEF TypeOK
<1>2. Len(stored) \in Nat /\ Keys = 1 .. Len(stored) /\ \A k \in Keys : stored[k] \in Times
  BY <1>1 DEF Keys
<1>3. config \in Configs
  BY DEF TypeOK
<1> QED BY <1>1, <1>2, <1>3, BatchAssumption

(* What a request returns: every key once.                                 *)
LEMMA SetAsSequence ==
  ASSUME NEW S, IsFiniteSet(S), NEW s \in SetToSeqs(S)
  PROVE  /\ s \in Seq(S) /\ Len(s) = Cardinality(S) /\ Cardinality(S) \in Nat
         /\ DOMAIN s = 1 .. Cardinality(S)
         /\ \A i, j \in 1 .. Len(s) : i # j => s[i] # s[j]
<1>1. Cardinality(S) \in Nat
  BY FS_CardinalityType
<1>2. s \in [1 .. Cardinality(S) -> S] /\ \A i, j \in 1 .. Cardinality(S) : i # j => s[i] # s[j]
  BY DEF SetToSeqs
<1>3. s \in Seq(S) /\ Len(s) = Cardinality(S)
  BY <1>1, <1>2
<1> QED BY <1>1, <1>2, <1>3

LEMMA KeysFinite ==
  ASSUME TypeOK, NEW S, S \subseteq Keys
  PROVE  IsFiniteSet(S)
<1>1. Keys = 1 .. Len(stored) /\ Len(stored) \in Int
  BY Constants
<1>2. IsFiniteSet(Keys)
  BY <1>1, FS_Interval
<1> QED BY <1>2, FS_Subset

(* A response and the samples after it.                                    *)
LEMMA ResponseSplit ==
  ASSUME TypeOK
  PROVE  \E n \in 0 .. Len(responses) :
           /\ responses # <<>> => n > 0
           /\ Response \in Seq(Keys) /\ Len(Response) = n
           /\ \A i \in 1 .. n : Response[i] = responses[i]
           /\ NextResponses \in Seq(Keys) /\ Len(NextResponses) = Len(responses) - n
           /\ \A i \in 1 .. Len(responses) - n : NextResponses[i] = responses[n + i]
<1>1. responses \in Seq(Keys) /\ StorageBatchSize \in Nat \ {0}
  BY Constants DEF TypeOK
<1>2. PICK n \in 0 .. Len(responses) :
        /\ responses # <<>> => n > 0
        /\ Response = SubSeq(responses, 1, n)
        /\ NextResponses = SubSeq(responses, n + 1, Len(responses))
  BY <1>1, NextChunk DEF Response, NextResponses
<1>3. /\ Response \in Seq(Keys) /\ Len(Response) = n
      /\ \A i \in 1 .. n : Response[i] = responses[i]
      /\ NextResponses \in Seq(Keys) /\ Len(NextResponses) = Len(responses) - n
      /\ \A i \in 1 .. Len(responses) - n : NextResponses[i] = responses[n + i]
  BY <1>1, <1>2, PrefixAndRest
<1> QED BY <1>2, <1>3

(* A batch and the data after it.                                          *)
LEMMA BatchSplit ==
  ASSUME TypeOK
  PROVE  \E n \in 0 .. Len(new_data) :
           /\ new_data # <<>> => n > 0
           /\ NextBatch \in Seq(Keys) /\ Len(NextBatch) = n
           /\ \A i \in 1 .. n : NextBatch[i] = new_data[i]
           /\ AfterBatch \in Seq(Keys) /\ Len(AfterBatch) = Len(new_data) - n
           /\ \A i \in 1 .. Len(new_data) - n : AfterBatch[i] = new_data[n + i]
<1>1. new_data \in Seq(Keys) /\ SelectorBatchSize \in Nat \ {0}
  BY Constants DEF TypeOK
<1>2. PICK n \in 0 .. Len(new_data) :
        /\ new_data # <<>> => n > 0
        /\ NextBatch = SubSeq(new_data, 1, n)
        /\ AfterBatch = SubSeq(new_data, n + 1, Len(new_data))
  BY <1>1, NextChunk DEF NextBatch, AfterBatch
<1>3. /\ NextBatch \in Seq(Keys) /\ Len(NextBatch) = n
      /\ \A i \in 1 .. n : NextBatch[i] = new_data[i]
      /\ AfterBatch \in Seq(Keys) /\ Len(AfterBatch) = Len(new_data) - n
      /\ \A i \in 1 .. Len(new_data) - n : AfterBatch[i] = new_data[n + i]
  BY <1>1, <1>2, PrefixAndRest
<1> QED BY <1>2, <1>3

(* The positions of the amount policy are one amount apart, the first is   *)
(* where the amount is complete, and less than an amount remains.          *)
LEMMA AmountPositionsAre ==
  ASSUME TypeOK, NEW b \in Seq(Keys)
  PROVE  /\ AmountPositions(b) \in Seq(0 .. Len(b))
         /\ \A i, j \in DOMAIN AmountPositions(b) :
              i <= j => AmountPositions(b)[i] <= AmountPositions(b)[j]
         /\ \A i \in 1 .. Len(AmountPositions(b)) - 1 :
              AmountPositions(b)[i + 1] - AmountPositions(b)[i] = DataPointsForTrigger
         /\ (remaining_data_points + Len(b)) % DataPointsForTrigger \in 0 .. DataPointsForTrigger - 1
         /\ IF AmountPositions(b) = <<>>
              THEN (remaining_data_points + Len(b)) % DataPointsForTrigger
                     = remaining_data_points + Len(b)
              ELSE /\ AmountPositions(b)[1] = DataPointsForTrigger - remaining_data_points
                   /\ Len(b) - AmountPositions(b)[Len(AmountPositions(b))]
                        = (remaining_data_points + Len(b)) % DataPointsForTrigger
<1> DEFINE D == DataPointsForTrigger
           r == remaining_data_points
           F == D - r
           q == (Len(b) - F) \div D
<1>1. /\ D \in Nat \ {0} /\ r \in 0 .. D - 1 /\ F \in 1 .. D /\ Len(b) \in Nat
      /\ FirstPosition = F /\ r + F = D
  <2>1. D \in Nat \ {0} /\ r \in 0 .. D - 1 /\ Len(b) \in Nat
    BY Constants DEF TypeOK
  <2> QED BY <2>1 DEF FirstPosition
<1>2. CASE Len(b) < F
  <2>1. AmountPositions(b) = <<>> /\ Reached(b) = 0
    BY <1>1, <1>2 DEF AmountPositions, Reached
  <2>2. r + Len(b) \in 0 .. D - 1
    BY <1>1, <1>2
  <2> HIDE DEF D, r
  <2>3. (r + Len(b)) % D = r + Len(b)
    BY <1>1, <2>2
  <2> USE DEF D, r
  <2> QED BY <2>1, <2>2, <2>3
<1>3. CASE F <= Len(b)
  <2> HIDE DEF F, D, r
  <2>1. q \in Nat /\ Len(b) - F = q * D + ((Len(b) - F) % D) /\ (Len(b) - F) % D \in 0 .. D - 1
                /\ q * D \in Nat
    <3> DEFINE e == Len(b) - F
    <3>1. e \in Nat
      BY <1>1, <1>3
    <3> HIDE DEF e
    <3>2. e \div D \in Nat /\ e = (e \div D) * D + (e % D) /\ e % D \in 0 .. D - 1
          /\ (e \div D) * D \in Nat
      BY <1>1, <3>1, DivMod
    <3> QED BY <3>2 DEF e
  <2> DEFINE m == (Len(b) - F) % D
             P == AmountPositions(b)
  <2>2. P = [n \in 1 .. q + 1 |-> F + (n - 1) * D] /\ Reached(b) = q + 1
    BY <1>1, <1>3 DEF AmountPositions, Reached, D
  <2> HIDE DEF q, m
  <2>11. m \in 0 .. D - 1 /\ Len(b) - F = q * D + m
    BY <2>1, Zenon DEF m
  <2>3. \A n \in 1 .. q + 1 : (n - 1) * D \in Nat /\ (n - 1) * D <= q * D
    <3> SUFFICES ASSUME NEW n \in 1 .. q + 1
                 PROVE (n - 1) * D \in Nat /\ (n - 1) * D <= q * D
      OBVIOUS
    <3> DEFINE u == n - 1
               v == q - u
    <3>1. u \in Nat /\ v \in Nat /\ D \in Nat /\ u + v = q
      BY <1>1, <2>1
    <3> HIDE DEF u, v
    <3>2. (u + v) * D = u * D + v * D /\ u * D \in Nat /\ v * D \in Nat
      BY <3>1, Distribute
    <3>3. u * D \in Nat /\ u * D <= q * D
      BY <3>1, <3>2
    <3> QED BY <3>3 DEF u
  <2>4. P \in Seq(0 .. Len(b)) /\ Len(P) = q + 1 /\ DOMAIN P = 1 .. q + 1
    <3>1. \A n \in 1 .. q + 1 : F + (n - 1) * D \in 0 .. Len(b)
      <4> SUFFICES ASSUME NEW n \in 1 .. q + 1 PROVE F + (n - 1) * D \in 0 .. Len(b)
        OBVIOUS
      <4>1. (n - 1) * D \in Nat /\ (n - 1) * D <= q * D
        BY <2>3
      <4> QED BY <1>1, <2>1, <2>11, <4>1
    <3>2. P \in [1 .. q + 1 -> 0 .. Len(b)]
      BY <2>2, <3>1
    <3> HIDE DEF P
    <3> QED BY <2>1, <3>2
  <2>5. \A n \in 1 .. q + 1 : P[n] = F + (n - 1) * D
    BY <2>2
  <2> HIDE DEF P
  <2>6. \A i \in 1 .. Len(P) - 1 : P[i + 1] - P[i] = D
    <3> SUFFICES ASSUME NEW i \in 1 .. q PROVE P[i + 1] - P[i] = D
      BY <2>1, <2>4
    <3>1. P[i + 1] = F + i * D /\ P[i] = F + (i - 1) * D
      BY <2>1, <2>5
    <3> DEFINE u == i - 1
    <3>2. u \in Nat /\ 1 \in Nat /\ D \in Nat /\ i = u + 1
      BY <1>1, <2>1
    <3> HIDE DEF u
    <3>3. (u + 1) * D = u * D + 1 * D /\ u * D \in Nat
      BY <3>2, Distribute
    <3>4. i * D = u * D + D
      BY <3>2, <3>3
    <3>5. (i - 1) * D = u * D
      BY DEF u
    <3> QED BY <1>1, <3>1, <3>3, <3>4, <3>5
  <2>7. \A i, j \in DOMAIN P : i <= j => P[i] <= P[j]
    <3> SUFFICES ASSUME NEW i \in 1 .. q + 1, NEW j \in 1 .. q + 1, i <= j PROVE P[i] <= P[j]
      BY <2>4
    <3> DEFINE u == i - 1
               v == j - i
    <3>1. u \in Nat /\ v \in Nat /\ D \in Nat /\ u + v = j - 1
      BY <1>1, <2>1
    <3> HIDE DEF u, v
    <3>2. (u + v) * D = u * D + v * D /\ u * D \in Nat /\ v * D \in Nat
      BY <3>1, Distribute
    <3>3. P[j] = F + (u + v) * D /\ P[i] = F + u * D
      BY <2>5, <3>1 DEF u
    <3> QED BY <1>1, <3>2, <3>3
  <2>8. P[1] = F /\ Len(b) - P[Len(P)] = m
    <3>1. P[1] = F + 0 * D /\ P[q + 1] = F + q * D /\ q * D \in Nat
      BY <1>1, <2>1, <2>3, <2>5
    <3>2. 0 * D = 0
      BY <1>1
    <3> QED BY <1>1, <2>1, <2>4, <2>11, <3>1, <3>2
  <2>9. (r + Len(b)) % D = m
    <3>1. r + Len(b) = D + q * D + m
      BY <1>1, <2>1, <2>11
    <3>2. (1 + q) * D = 1 * D + q * D /\ 1 + q \in Nat
      BY <1>1, <2>1, Distribute
    <3>3. r + Len(b) = (1 + q) * D + m /\ m \in 0 .. D - 1
      BY <1>1, <2>1, <2>11, <3>1, <3>2
    <3> DEFINE k == 1 + q
               x == r + Len(b)
    <3>4. k \in Nat /\ x = k * D + m
      BY <3>2, <3>3
    <3> HIDE DEF k, x
    <3>5. x % D = m
      <4>1. k \in Nat /\ D \in Nat \ {0} /\ m \in 0 .. D - 1 /\ x = k * D + m
        BY <1>1, <3>3, <3>4
      <4>2. (k * D + m) % D = m
        BY <4>1, ModOfSum, Zenon
      <4> QED BY <4>1, <4>2
    <3> QED BY <3>5 DEF x
  <2>10. P # <<>>
    BY <2>1, <2>4
  <2> QED BY <1>1, <2>1, <2>4, <2>6, <2>7, <2>8, <2>9, <2>10 DEF P, D, r, F, m
<1> QED BY <1>1, <1>2, <1>3

(* The n-th position of the time policy is where its window ends, as far   *)
(* as the samples come in time order.                                      *)
LEMMA ElapsedIs ==
  ASSUME TypeOK, NEW b \in Seq(Keys), b # <<>>
  PROVE  /\ Len(b) \in Nat \ {0} /\ Last(b) = b[Len(b)] /\ b[1] \in Keys /\ Last(b) \in Keys
         /\ ClockStart(b) \in Nat \ {0} /\ Elapsed(b) \in Nat
         /\ Elapsed(b) * TriggerEvery \in Nat
         /\ ClockStart(b) + Elapsed(b) * TriggerEvery > stored[Last(b)]
         /\ IF Elapsed(b) = 0
              THEN stored[Last(b)] < ClockStart(b)
              ELSE ClockStart(b) + Elapsed(b) * TriggerEvery <= stored[Last(b)] + TriggerEvery
<1> DEFINE E == TriggerEvery
           C == ClockStart(b)
           l == stored[Last(b)]
<1>1. /\ Len(b) \in Nat \ {0} /\ Last(b) = b[Len(b)] /\ b[1] \in Keys /\ Last(b) \in Keys
  BY DEF Last
<1>2. E \in Nat \ {0} /\ C \in Nat \ {0} /\ l \in Nat \ {0}
  <2>1. E \in Nat \ {0} /\ stored[b[1]] \in Nat \ {0} /\ l \in Nat \ {0} /\ next_trigger_at \in Nat
    BY <1>1, Constants DEF TypeOK
  <2> QED BY <2>1 DEF ClockStart, NotSet
<1> HIDE DEF C, l
<1>3. CASE l < C
  <2>1. Elapsed(b) = 0
    BY <1>3 DEF Elapsed, C, l
  <2>2. 0 * E = 0
    BY <1>2
  <2> QED BY <1>1, <1>2, <1>3, <2>1, <2>2 DEF C, l
<1>4. CASE C <= l
  <2> DEFINE x == l - C
             k == x \div E
             m == x % E
  <2>1. x \in Nat
    BY <1>2, <1>4
  <2> HIDE DEF x, E
  <2>2. k \in Nat /\ m \in 0 .. E - 1 /\ x = k * E + m /\ k * E \in Nat
    BY <1>2, <2>1, DivMod
  <2>3. Elapsed(b) = k + 1
    BY <1>2, <1>4 DEF Elapsed, x, C, l, E
  <2> HIDE DEF k, m
  <2>4. (k + 1) * E = k * E + 1 * E
    BY <1>2, <2>2, Distribute
  <2>5. C + (k + 1) * E = l - m + E
    BY <1>2, <2>2, <2>4 DEF x
  <2>6. (k + 1) * E \in Nat /\ k + 1 # 0 /\ k + 1 \in Nat
    BY <1>2, <2>2, <2>4
  <2>7. C + (k + 1) * E > l /\ C + (k + 1) * E <= l + E
    BY <1>2, <2>2, <2>5
  <2> QED BY <1>1, <1>2, <2>3, <2>6, <2>7 DEF C, l, E
<1> QED BY <1>2, <1>3, <1>4

LEMMA TimePositionsAre ==
  ASSUME TypeOK, NEW b \in Seq(Keys), b # <<>>
  PROVE  /\ TimePositions(b) \in Seq(0 .. Len(b)) /\ Len(TimePositions(b)) = Elapsed(b)
         /\ DOMAIN TimePositions(b) = 1 .. Elapsed(b)
         /\ \A i, j \in DOMAIN TimePositions(b) : i <= j => TimePositions(b)[i] <= TimePositions(b)[j]
         /\ InOrder(b) => \A n \in DOMAIN TimePositions(b) : \A i \in 1 .. Len(b) :
              i <= TimePositions(b)[n] <=> stored[b[i]] < ClockStart(b) + (n - 1) * TriggerEvery
<1> DEFINE E == TriggerEvery
           C == ClockStart(b)
           P == TimePositions(b)
           T == [n \in 1 .. Elapsed(b) |-> {i \in DOMAIN b : stored[b[i]] < C + (n - 1) * E}]
<1>1. /\ Len(b) \in Nat \ {0} /\ C \in Nat /\ Elapsed(b) \in Nat /\ E \in Nat \ {0}
      /\ DOMAIN b = 1 .. Len(b) /\ \A i \in 1 .. Len(b) : stored[b[i]] \in Nat
  <2>1. \A i \in 1 .. Len(b) : b[i] \in Keys
    OBVIOUS
  <2>2. \A i \in 1 .. Len(b) : stored[b[i]] \in Nat
    BY <2>1, Constants
  <2>3. E \in Nat \ {0}
    BY Constants
  <2>4. Len(b) \in Nat \ {0} /\ C \in Nat /\ Elapsed(b) \in Nat
    BY ElapsedIs
  <2>5. DOMAIN b = 1 .. Len(b)
    OBVIOUS
  <2> QED BY <2>2, <2>3, <2>4, <2>5
<1>2. P = [n \in 1 .. Elapsed(b) |-> Cardinality(T[n])]
  BY DEF TimePositions
<1>3. \A n \in 1 .. Elapsed(b) :
        T[n] = {i \in 1 .. Len(b) : stored[b[i]] < C + (n - 1) * E}
  BY <1>1
<1> HIDE DEF T, P, C, E
<1>4. ASSUME NEW n \in 1 .. Elapsed(b) PROVE IsFiniteSet(T[n]) /\ Cardinality(T[n]) \in 0 .. Len(b)
  <2>1. T[n] \subseteq 1 .. Len(b) /\ 1 \in Int /\ Len(b) \in Int
    BY <1>1, <1>3
  <2>2. IsFiniteSet(1 .. Len(b)) /\ Cardinality(1 .. Len(b)) = Len(b)
    <3>1. PICK m \in Nat \ {0} : m = Len(b)
      BY <1>1
    <3>2. IsFiniteSet(1 .. m) /\ Cardinality(1 .. m) = IF 1 > m THEN 0 ELSE m - 1 + 1
      BY FS_Interval
    <3>3. Cardinality(1 .. m) = m
      BY <3>2
    <3> QED BY <3>1, <3>2, <3>3
  <2>3. IsFiniteSet(T[n]) /\ Cardinality(T[n]) <= Len(b)
    BY <2>1, <2>2, FS_Subset
  <2>4. Cardinality(T[n]) \in Nat
    BY <2>3, FS_CardinalityType
  <2> QED BY <1>1, <2>3, <2>4
<1>5. P \in Seq(0 .. Len(b)) /\ Len(P) = Elapsed(b) /\ DOMAIN P = 1 .. Elapsed(b)
  <2>1. P \in [1 .. Elapsed(b) -> 0 .. Len(b)]
    BY <1>2, <1>4
  <2> QED BY <1>1, <2>1
<1>6. ASSUME NEW i \in 1 .. Elapsed(b), NEW j \in 1 .. Elapsed(b), i <= j
      PROVE  (i - 1) * E <= (j - 1) * E /\ (i - 1) * E \in Nat /\ (j - 1) * E \in Nat
  <2> DEFINE u == i - 1
             v == j - i
  <2>1. u \in Nat /\ v \in Nat /\ E \in Nat /\ u + v = j - 1
    BY <1>1, <1>6
  <2> HIDE DEF u, v
  <2>2. (u + v) * E = u * E + v * E /\ u * E \in Nat /\ v * E \in Nat
    BY <2>1, Distribute
  <2>3. u * E <= (u + v) * E /\ u * E \in Nat /\ (u + v) * E \in Nat
    BY <2>2
  <2> QED BY <2>1, <2>3 DEF u
<1>7. \A i, j \in DOMAIN P : i <= j => P[i] <= P[j]
  <2> SUFFICES ASSUME NEW i \in 1 .. Elapsed(b), NEW j \in 1 .. Elapsed(b), i <= j
               PROVE  P[i] <= P[j]
    BY <1>5
  <2>1. T[i] \subseteq T[j]
    <3> DEFINE x == C + (i - 1) * E
               y == C + (j - 1) * E
    <3>1. x \in Nat /\ y \in Nat /\ x <= y
      BY <1>1, <1>6
    <3>2. T[i] = {k \in 1 .. Len(b) : stored[b[k]] < x} /\ T[j] = {k \in 1 .. Len(b) : stored[b[k]] < y}
      BY <1>3
    <3> HIDE DEF x, y
    <3>3. \A k \in 1 .. Len(b) : stored[b[k]] < x => stored[b[k]] < y
      BY <1>1, <3>1
    <3> QED BY <3>2, <3>3
  <2>2. Cardinality(T[i]) <= Cardinality(T[j])
    BY <1>4, <2>1, FS_Subset
  <2> QED BY <1>2, <2>2
<1>8. ASSUME InOrder(b), NEW n \in 1 .. Elapsed(b)
      PROVE  \A i \in 1 .. Len(b) : i <= P[n] <=> stored[b[i]] < C + (n - 1) * E
  <2>1. T[n] \subseteq 1 .. Len(b) /\ Len(b) \in Nat
    BY <1>1, <1>3
  <2>2. (n - 1) * E \in Nat
    BY <1>6
  <2>3. \A i, j \in 1 .. Len(b) : i <= j /\ j \in T[n] => i \in T[n]
    <3> DEFINE x == C + (n - 1) * E
    <3>1. x \in Nat
      BY <1>1, <2>2
    <3>2. T[n] = {k \in 1 .. Len(b) : stored[b[k]] < x}
      BY <1>3
    <3> HIDE DEF x
    <3>3. \A i, j \in 1 .. Len(b) : i <= j => stored[b[i]] <= stored[b[j]]
      BY <1>1, <1>8 DEF InOrder
    <3> QED BY <1>1, <3>1, <3>2, <3>3
  <2>4. \A i \in 1 .. Len(b) : i \in T[n] <=> i <= Cardinality(T[n])
    BY <2>1, <2>3, InitialSegment
  <2> QED BY <1>2, <1>3, <2>4
<1> QED BY <1>5, <1>7, <1>8 DEF P, C, E

(* Both policies.                                                          *)
LEMMA PositionsAre ==
  ASSUME TypeOK, NEW b \in Seq(Keys), b # <<>>
  PROVE  /\ TriggeringPositions(b) \in Seq(0 .. Len(b))
         /\ \A i, j \in DOMAIN TriggeringPositions(b) :
              i <= j => TriggeringPositions(b)[i] <= TriggeringPositions(b)[j]
BY AmountPositionsAre, TimePositionsAre DEF TriggeringPositions

LEMMA PolicyType ==
  ASSUME TypeOK, NEW b \in Seq(Keys), b # <<>>, PolicyStep(b)
  PROVE  remaining_data_points' \in 0 .. DataPointsForTrigger - 1 /\ next_trigger_at' \in Nat
<1>1. CASE config.trigger = "DataAmountTrigger"
  BY <1>1, AmountPositionsAre DEF PolicyStep, TypeOK
<1>2. CASE config.trigger # "DataAmountTrigger"
  <2>1. ClockStart(b) \in Nat /\ Elapsed(b) * TriggerEvery \in Nat
    BY ElapsedIs
  <2> QED BY <1>2, <2>1 DEF PolicyStep, TypeOK
<1> QED BY <1>1, <1>2

(* Sorting and filtering a response.                                       *)
LEMMA SortedType ==
  ASSUME TypeOK, NEW S, S \subseteq Keys, NEW s \in Sorted(S)
  PROVE  /\ s \in Seq(S) /\ s \in Seq(Keys)
         /\ \A i, j \in 1 .. Len(s) : i < j => SortsBefore(s[i], s[j])
<1>1. IsFiniteSet(S)
  BY KeysFinite
<1>2. s \in SetToSeqs(S) /\ \A i, j \in DOMAIN s : i < j => SortsBefore(s[i], s[j])
  BY DEF Sorted
<1>3. s \in Seq(S) /\ DOMAIN s = 1 .. Len(s)
  BY <1>1, <1>2, SetAsSequence
<1>4. s \in Seq(Keys)
  BY <1>3, SeqMonotonic
<1> QED BY <1>2, <1>3, <1>4

LEMMA RequestType ==
  ASSUME TypeOK, NEW S, S \subseteq Keys, NEW s \in ByTimestamp(S)
  PROVE  /\ s \in Seq(S) /\ s \in Seq(Keys) /\ DOMAIN s = 1 .. Len(s) /\ Len(s) \in Nat
         /\ \A i, j \in DOMAIN s : i < j => s[i] # s[j] /\ stored[s[i]] <= stored[s[j]]
<1>1. IsFiniteSet(S)
  BY KeysFinite
<1>2. s \in SetToSeqs(S) /\ \A i, j \in 1 .. Len(s) : i < j => stored[s[i]] <= stored[s[j]]
  BY DEF ByTimestamp, IsSorted, NotLater
<1>3. /\ s \in Seq(S) /\ DOMAIN s = 1 .. Len(s) /\ Len(s) \in Nat
      /\ \A i, j \in 1 .. Len(s) : i # j => s[i] # s[j]
  BY <1>1, <1>2, SetAsSequence
<1>4. s \in Seq(Keys)
  BY <1>3, SeqMonotonic
<1> QED BY <1>2, <1>3, <1>4

(* The newest timestamp of what a response brought.                        *)
LEMMA TimestampAfterIs ==
  ASSUME TypeOK, NEW S, S \subseteq Keys
  PROVE  /\ TimestampAfter(S) \in Nat
         /\ \A k \in S : stored[k] <= TimestampAfter(S)
         /\ S = {} => TimestampAfter(S) = last_timestamp
         /\ S # {} => \E k \in S : TimestampAfter(S) = stored[k]
<1> DEFINE V == {stored[k] : k \in S}
<1>1. stored \in Seq(Nat) /\ Keys = 1 .. Len(stored) /\ last_timestamp \in Nat
  BY Constants, SeqMonotonic, BatchAssumption DEF TypeOK
<1>2. PICK m \in Nat : \A i \in 1 .. Len(stored) : stored[i] <= m
  BY <1>1, SequenceBounded
<1>3. V \subseteq 0 .. m
  BY <1>1, <1>2
<1>4. CASE S = {}
  BY <1>1, <1>4 DEF TimestampAfter
<1>5. CASE S # {}
  <2>1. V # {} /\ 0 \in Int /\ m \in Int
    BY <1>5
  <2>5. \A x \in V : x \in Nat
    BY <1>1, <1>3
  <2>2. TimestampAfter(S) = Max(V)
    BY <1>5 DEF TimestampAfter
  <2> HIDE DEF V
  <2>3. Max(V) \in V /\ \A x \in V : x <= Max(V)
    BY <1>3, <2>1, MaxBounded
  <2>4. Max(V) \in Nat
    BY <2>3, <2>5
  <2> QED BY <1>5, <2>2, <2>3, <2>4 DEF V
<1> QED BY <1>4, <1>5
-----------------------------------------------------------------------------
(* Type correctness.                                                       *)
Training == [trigger : Nat, from : Nat, model : Nat, informed : Nat]
Positions == {"replay", "fetch", "stream", "data", "trigger", "train", "training",
              "after_trigger", "done", "failed"}

LEMMA TypeInit == Init => TypeOK
<1> SUFFICES ASSUME Init PROVE TypeOK
  OBVIOUS
<1>1. config \in [experiment : BOOLEAN, trigger : {"DataAmountTrigger", "TimeTrigger"},
                  maximum_triggers : Nat, start : Nat, stop : Nat,
                  use_previous_model : BOOLEAN, initial_model : Nat] /\ config \in Configs
  BY BatchAssumption DEF Init
<1>2. last_timestamp \in Nat /\ previous_model_id \in Nat /\ pc \in Positions
  BY <1>1 DEF Init, Positions
<1>3. /\ stored \in Seq(Times) /\ responses \in Seq(Keys) /\ new_data \in Seq(Keys)
      /\ batch \in Seq(Keys) /\ informed \in Seq(Keys) /\ stream \in Seq(Keys)
      /\ triggering_positions \in Seq(0 .. Len(batch)) /\ trigger_ends \in Seq(0 .. Len(informed))
      /\ trainings \in Seq([trigger : Nat, from : Nat, model : Nat, informed : Nat])
      /\ Len(stored) = 0 /\ Len(batch) = 0
  BY DEF Init
<1> QED BY <1>1, <1>2, <1>3, BatchAssumption DEF Init, TypeOK, Positions, NotSet

(* Storing a sample adds a key: whatever is made of keys stays so.         *)
LEMMA StoredGrows ==
  ASSUME TypeOK, NEW t \in Times, StoreSample(t)
  PROVE  /\ Keys \subseteq Keys' /\ stored' \in Seq(Times) /\ Len(stored') = Len(stored) + 1
         /\ \A k \in Keys : stored'[k] = stored[k]
         /\ \A s \in Seq(Keys) : s \in Seq(Keys')
<1>1. stored \in Seq(Times) /\ stored' = Append(stored, t) /\ Keys = 1 .. Len(stored)
  BY Constants DEF StoreSample
<1>2. /\ stored' \in Seq(Times) /\ Len(stored') = Len(stored) + 1
      /\ \A k \in 1 .. Len(stored) : stored'[k] = stored[k]
  BY <1>1, AppendProperties
<1>3. Keys' = 1 .. Len(stored) + 1
  BY <1>2 DEF Keys
<1>4. Keys \subseteq Keys'
  BY <1>1, <1>3
<1>5. \A s \in Seq(Keys) : s \in Seq(Keys')
  BY <1>4, SeqMonotonic
<1> QED BY <1>1, <1>2, <1>4, <1>5

LEMMA StoreSampleType ==
  ASSUME TypeOK, NEW t \in Times, StoreSample(t)
  PROVE  TypeOK'
<1>1. /\ Keys \subseteq Keys' /\ stored' \in Seq(Times) /\ Len(stored') = Len(stored) + 1
      /\ \A s \in Seq(Keys) : s \in Seq(Keys')
  BY StoredGrows
<1>2. UNCHANGED <<storage_errors, config, pc, pollVars, responses, new_data, batchVars, policyVars,
                  num_triggers, selectorVars, trainingVars, stream>>
  BY DEF StoreSample
<1>3. late' \subseteq Keys' /\ Len(stored') <= MaxSamples
  <2>1. Len(stored) + 1 \in Keys'
    BY <1>1, Constants DEF Keys
  <2>2. late \subseteq Keys
    BY DEF TypeOK
  <2>3. late' \subseteq late \cup {Len(stored) + 1}
    BY DEF StoreSample
  <2>4. late' \subseteq Keys'
    BY <1>1, <2>1, <2>2, <2>3
  <2>5. Len(stored) < MaxSamples
    BY DEF StoreSample
  <2>6. Len(stored) \in Nat /\ MaxSamples \in Nat
    BY BatchAssumption, Constants
  <2>7. Len(stored') <= MaxSamples
    BY <1>1, <2>5, <2>6
  <2> QED BY <2>4, <2>7
<1>4. /\ responses' \in Seq(Keys') /\ new_data' \in Seq(Keys') /\ batch' \in Seq(Keys')
      /\ informed' \in Seq(Keys') /\ stream' \in Seq(Keys')
  BY <1>1, <1>2 DEF TypeOK, pollVars, batchVars, selectorVars
<1> QED BY <1>1, <1>2, <1>3, <1>4
        DEF TypeOK, pollVars, batchVars, policyVars, selectorVars, trainingVars

(* Every other step leaves the stored samples alone.                       *)
LEMMA TypeKept ==
  ASSUME TypeOK, UNCHANGED <<stored, late, config>>, pc' \in Positions,
         storage_errors' \in 0 .. MaxStorageErrors,
         last_timestamp' \in Nat, previous_largest_keys' \subseteq Keys,
         largest_keys' \subseteq Keys, continue_running' \in BOOLEAN,
         responses' \in Seq(Keys), new_data' \in Seq(Keys), stream' \in Seq(Keys),
         UNCHANGED batchVars \/ /\ batch' \in Seq(Keys)
                                /\ triggering_positions' \in Seq(0 .. Len(batch'))
                                /\ previous_trigger_idx' \in 0 .. Len(batch'),
         remaining_data_points' \in 0 .. DataPointsForTrigger - 1, next_trigger_at' \in Nat,
         num_triggers' \in Nat, previous_model_id' \in Nat,
         UNCHANGED selectorVars \/ /\ informed' \in Seq(Keys)
                                   /\ trigger_ends' \in Seq(0 .. Len(informed')),
         trainings' \in Seq(Training)
  PROVE  TypeOK'
<1>1. Keys' = Keys
  BY DEF Keys
<1>2. /\ batch' \in Seq(Keys) /\ triggering_positions' \in Seq(0 .. Len(batch'))
      /\ previous_trigger_idx' \in 0 .. Len(batch')
  BY DEF TypeOK, batchVars
<1>3. informed' \in Seq(Keys) /\ trigger_ends' \in Seq(0 .. Len(informed'))
  BY DEF TypeOK, selectorVars
<1>4. stored' \in Seq(Times) /\ Len(stored') <= MaxSamples /\ late' \subseteq Keys /\ config' \in Configs
  BY DEF TypeOK
<1> QED BY <1>1, <1>2, <1>3, <1>4 DEF TypeOK, Positions, Training

(* The unchanged variables of a step, for TypeKept.                        *)
LEMMA TypeParts ==
  ASSUME TypeOK
  PROVE  /\ pc \in Positions /\ storage_errors \in 0 .. MaxStorageErrors
         /\ last_timestamp \in Nat /\ previous_largest_keys \subseteq Keys
         /\ largest_keys \subseteq Keys /\ continue_running \in BOOLEAN
         /\ responses \in Seq(Keys) /\ new_data \in Seq(Keys) /\ stream \in Seq(Keys)
         /\ remaining_data_points \in 0 .. DataPointsForTrigger - 1 /\ next_trigger_at \in Nat
         /\ num_triggers \in Nat /\ previous_model_id \in Nat
         /\ trainings \in Seq(Training)
BY DEF TypeOK, Positions, Training

LEMMA RequestSteps ==
  ASSUME TypeOK, ReplayData \/ FetchNewData \/ StorageFails \/ NextResponse \/ EndOfStream
  PROVE  TypeOK'
<1>0. TypeOK
  OBVIOUS
<1> USE TypeParts
<1>1. CASE ReplayData
  <2>1. PICK s \in ByTimestamp(ReplayInterval) : stream' = s /\ responses' = s
    BY <1>1 DEF ReplayData
  <2>2. ReplayInterval \subseteq Keys
    BY DEF ReplayInterval, InInterval
  <2>3. s \in Seq(Keys)
    BY <2>1, <2>2, RequestType
  <2>4. stream' \in Seq(Keys) /\ responses' \in Seq(Keys) /\ pc' \in Positions
    BY <1>1, <2>1, <2>3 DEF ReplayData, Positions
  <2> QED BY <1>0, <1>1, <2>4, TypeKept
          DEF ReplayData, storageVars, pollVars, policyVars, trainingVars
<1>2. CASE FetchNewData
  <2>1. FromLastTimestamp \subseteq Keys /\ responses' \in ByTimestamp(FromLastTimestamp)
    BY <1>2 DEF FetchNewData, FromLastTimestamp, InInterval
  <2>2. responses' \in Seq(Keys)
    BY <2>1, RequestType
  <2>3. pc' \in Positions
    BY <1>2 DEF FetchNewData, Positions
  <2> QED BY <1>0, <1>2, <2>2, <2>3, TypeKept
          DEF FetchNewData, storageVars, pollVars, policyVars, trainingVars
<1>3. CASE StorageFails
  <2>1. responses' \in Seq(Keys) /\ storage_errors' \in 0 .. MaxStorageErrors
    BY <1>3, BatchAssumption DEF StorageFails
  <2> QED BY <1>0, <1>3, <2>1, TypeKept
          DEF StorageFails, storageVars, pollVars, policyVars, trainingVars
<1>4. CASE NextResponse
  <2> DEFINE data == {k \in ToSet(Response) : ~ProcessedBefore(k)}
             newest == TimestampAfter(data)
  <2>1. data \subseteq Keys
    <3>1. Response \in Seq(Keys)
      BY ResponseSplit
    <3> QED BY <3>1 DEF ToSet
  <2>2. newest \in Nat
    BY <2>1, TimestampAfterIs
  <2>3. new_data' \in Sorted(data) /\ NextResponses \in Seq(Keys)
    BY <1>4, ResponseSplit DEF NextResponse
  <2>4. new_data' \in Seq(Keys)
    BY <2>1, <2>3, SortedType
  <2>5. last_timestamp' \in Nat /\ largest_keys' \subseteq Keys
    BY <1>4, <2>1, <2>2 DEF NextResponse
  <2>6. responses' \in Seq(Keys) /\ pc' \in Positions
    BY <1>4, <2>3 DEF NextResponse, Positions
  <2> QED BY <1>0, <1>4, <2>4, <2>5, <2>6, TypeKept
          DEF NextResponse, storageVars, pollVars, policyVars, trainingVars
<1>5. CASE EndOfStream
  <2>1. pc' \in Positions /\ previous_largest_keys' \subseteq Keys
    BY <1>5 DEF EndOfStream, Positions
  <2> QED BY <1>0, <1>5, <2>1, TypeKept
          DEF EndOfStream, storageVars, pollVars, policyVars, trainingVars
<1> QED BY <1>1, <1>2, <1>3, <1>4, <1>5

(* More samples for the selector.                                          *)
LEMMA InformType ==
  ASSUME TypeOK, NEW data \in Seq(Keys), InformSelector(data)
  PROVE  /\ informed' \in Seq(Keys) /\ Len(informed') = Len(informed) + Len(data)
         /\ \A i \in 1 .. Len(informed) : informed'[i] = informed[i]
         /\ \A i \in 1 .. Len(data) : informed'[Len(informed) + i] = data[i]
         /\ trigger_ends \in Seq(0 .. Len(informed'))
         /\ Append(trigger_ends, Len(informed')) \in Seq(0 .. Len(informed'))
<1>1. informed \in Seq(Keys) /\ informed' = informed \o data
  BY DEF TypeOK, InformSelector
<1>2. /\ informed' \in Seq(Keys) /\ Len(informed') = Len(informed) + Len(data)
      /\ \A i \in 1 .. Len(informed) : informed'[i] = informed[i]
      /\ \A i \in 1 .. Len(data) : informed'[Len(informed) + i] = data[i]
      /\ Len(informed) \in Nat /\ Len(data) \in Nat
  BY <1>1, Concatenation
<1>3. 0 .. Len(informed) \subseteq 0 .. Len(informed') /\ Len(informed') \in 0 .. Len(informed')
  BY <1>2
<1>4. trigger_ends \in Seq(0 .. Len(informed'))
  BY <1>3, SeqMonotonic DEF TypeOK
<1>5. Append(trigger_ends, Len(informed')) \in Seq(0 .. Len(informed'))
  BY <1>3, <1>4, AppendProperties
<1> QED BY <1>2, <1>4, <1>5

LEMMA BatchSteps ==
  ASSUME TypeOK,
         HandleBatchWithoutTrigger \/ HandleBatchWithTriggers \/ EndOfResponse
  PROVE  TypeOK'
<1>0. TypeOK
  OBVIOUS
<1>1. PICK n \in 0 .. Len(new_data) :
           /\ new_data # <<>> => n > 0
           /\ NextBatch \in Seq(Keys) /\ Len(NextBatch) = n
           /\ AfterBatch \in Seq(Keys)
  BY BatchSplit
<1> USE TypeParts
<1>2. new_data # <<>> => NextBatch # <<>>
  BY <1>1
<1>3. CASE HandleBatchWithoutTrigger
  <2>1. NextBatch # <<>> /\ PolicyStep(NextBatch) /\ InformSelector(NextBatch)
    BY <1>2, <1>3 DEF HandleBatchWithoutTrigger
  <2>2. remaining_data_points' \in 0 .. DataPointsForTrigger - 1 /\ next_trigger_at' \in Nat
    BY <1>1, <2>1, PolicyType
  <2>3. informed' \in Seq(Keys) /\ trigger_ends' \in Seq(0 .. Len(informed'))
    BY <1>1, <1>3, <2>1, InformType DEF HandleBatchWithoutTrigger
  <2>4. new_data' \in Seq(Keys)
    BY <1>1, <1>3 DEF HandleBatchWithoutTrigger
  <2> QED BY <1>0, <1>3, <2>2, <2>3, <2>4, TypeKept
          DEF HandleBatchWithoutTrigger, storageVars, pollVars, trainingVars
<1>4. CASE HandleBatchWithTriggers
  <2>1. NextBatch # <<>> /\ PolicyStep(NextBatch)
    BY <1>2, <1>4 DEF HandleBatchWithTriggers
  <2>2. remaining_data_points' \in 0 .. DataPointsForTrigger - 1 /\ next_trigger_at' \in Nat
    BY <1>1, <2>1, PolicyType
  <2>3. TriggeringPositions(NextBatch) \in Seq(0 .. Len(NextBatch))
    BY <1>1, <2>1, PositionsAre
  <2>4. /\ batch' \in Seq(Keys) /\ triggering_positions' \in Seq(0 .. Len(batch'))
        /\ previous_trigger_idx' \in 0 .. Len(batch')
    BY <1>1, <1>4, <2>3 DEF HandleBatchWithTriggers
  <2>5. new_data' \in Seq(Keys) /\ pc' \in Positions
    BY <1>1, <1>4 DEF HandleBatchWithTriggers, Positions
  <2> QED BY <1>0, <1>4, <2>2, <2>4, <2>5, TypeKept
          DEF HandleBatchWithTriggers, storageVars, pollVars, trainingVars
<1>5. CASE EndOfResponse
  <2>1. responses' \in Seq(Keys) /\ pc' \in Positions
    BY <1>5 DEF EndOfResponse, Positions
  <2>2. continue_running' \in BOOLEAN
    BY <1>5 DEF EndOfResponse
  <2> QED BY <1>0, <1>5, <2>1, <2>2, TypeKept
          DEF EndOfResponse, storageVars, pollVars, policyVars, trainingVars
<1> QED BY <1>3, <1>4, <1>5

(* What the steps of a trigger hand over.                                  *)
LEMMA TriggerParts ==
  ASSUME TypeOK, ControlInv, Triggering
  PROVE  /\ triggering_positions[1] \in 0 .. Len(batch)
         /\ Head(triggering_positions) = triggering_positions[1]
         /\ Len(triggering_positions) \in Nat \ {0}
         /\ TriggeringData \in Seq(Keys)
         /\ Len(TriggeringData) = triggering_positions[1] - previous_trigger_idx
         /\ \A i \in 1 .. Len(TriggeringData) : TriggeringData[i] = batch[previous_trigger_idx + i]
         /\ RemainingData \in Seq(Keys)
         /\ Len(RemainingData) = Len(batch) - triggering_positions[1]
         /\ \A i \in 1 .. Len(RemainingData) : RemainingData[i] = batch[triggering_positions[1] + i]
<1> DEFINE p == triggering_positions[1]
           q == previous_trigger_idx
<1>1. /\ triggering_positions # <<>> /\ triggering_positions \in Seq(0 .. Len(batch))
      /\ q <= p /\ q \in 0 .. Len(batch) /\ batch \in Seq(Keys)
  BY DEF TypeOK, ControlInv
<1>2. p \in 0 .. Len(batch) /\ Head(triggering_positions) = p /\ Len(triggering_positions) \in Nat \ {0}
  BY <1>1
<1>3. Len(batch) \in Nat /\ \A i \in 1 .. Len(batch) : batch[i] \in Keys
  BY <1>1
<1> HIDE DEF p, q
<1>4. /\ TriggeringData \in Seq(Keys) /\ Len(TriggeringData) = p - q
      /\ \A i \in 1 .. Len(TriggeringData) : TriggeringData[i] = batch[q + i]
  <2>1. TriggeringData = SubSeq(batch, q + 1, p)
    BY <1>2 DEF TriggeringData, q
  <2>2. q + 1 \in Int /\ p \in Int /\ \A i \in q + 1 .. p : batch[i] \in Keys
    BY <1>1, <1>2, <1>3
  <2>3. /\ SubSeq(batch, q + 1, p) \in Seq(Keys)
        /\ Len(SubSeq(batch, q + 1, p)) = IF q + 1 <= p THEN p - (q + 1) + 1 ELSE 0
        /\ \A i \in 1 .. p - (q + 1) + 1 : SubSeq(batch, q + 1, p)[i] = batch[q + 1 + i - 1]
    BY <2>2, SubSeqProperties
  <2>4. Len(TriggeringData) = p - q /\ p - q \in Nat
    BY <1>1, <1>2, <2>1, <2>2, <2>3
  <2>5. ASSUME NEW i \in 1 .. p - q PROVE TriggeringData[i] = batch[q + i]
    <3>1. i \in 1 .. p - (q + 1) + 1 /\ q + 1 + i - 1 = q + i
      BY <1>1, <1>2
    <3> QED BY <2>1, <2>3, <3>1
  <2> QED BY <2>1, <2>3, <2>4, <2>5
<1>5. /\ RemainingData \in Seq(Keys) /\ Len(RemainingData) = Len(batch) - p
      /\ \A i \in 1 .. Len(RemainingData) : RemainingData[i] = batch[p + i]
  <2>1. RemainingData = SubSeq(batch, p + 1, Len(batch))
    BY <1>2 DEF RemainingData
  <2> QED BY <1>1, <1>2, <2>1, PrefixAndRest
<1> QED BY <1>2, <1>4, <1>5 DEF p, q

LEMMA TriggerSteps ==
  ASSUME TypeOK, ControlInv, TrainedInv,
         InformSelectorAndTrigger \/ StartTraining \/ StoreTrainedModel \/ FinishTrigger
  PROVE  TypeOK'
<1>0. TypeOK
  OBVIOUS
<1> USE TypeParts
<1>1. Triggering
  BY DEF Triggering, InformSelectorAndTrigger, StartTraining, StoreTrainedModel, FinishTrigger
<1>2. CASE InformSelectorAndTrigger
  <2>1. TriggeringData \in Seq(Keys) /\ InformSelector(TriggeringData)
    BY <1>1, <1>2, TriggerParts DEF InformSelectorAndTrigger, Trigger
  <2>2. informed' \in Seq(Keys) /\ trigger_ends' \in Seq(0 .. Len(informed'))
    BY <1>2, <2>1, InformType DEF InformSelectorAndTrigger, Trigger
  <2>3. previous_trigger_idx' \in 0 .. Len(batch)
    BY <1>1, <1>2, TriggerParts DEF InformSelectorAndTrigger
  <2>4. /\ batch' \in Seq(Keys) /\ triggering_positions' \in Seq(0 .. Len(batch'))
        /\ previous_trigger_idx' \in 0 .. Len(batch')
    BY <1>2, <2>3 DEF TypeOK, InformSelectorAndTrigger
  <2>5. pc' \in Positions
    BY <1>2 DEF InformSelectorAndTrigger, TrainOrSkip, Positions
  <2> QED BY <1>0, <1>2, <2>2, <2>4, <2>5, TypeKept
          DEF InformSelectorAndTrigger, storageVars, pollVars, policyVars, trainingVars
<1>3. CASE StartTraining
  <2>1. Len(trigger_ends) \in Nat /\ Len(informed) \in Nat
    BY DEF TypeOK
  <2>2. trainings' \in Seq(Training)
    <3> DEFINE t == [trigger |-> Len(trigger_ends), from |-> previous_model_id,
                     model |-> NoModel, informed |-> Len(informed)]
    <3>1. t \in Training
      BY <2>1 DEF NoModel, Training
    <3>2. trainings \in Seq(Training) /\ trainings' = Append(trainings, t)
      BY <1>3 DEF StartTraining
    <3> HIDE DEF t
    <3> QED BY <3>1, <3>2, AppendProperties
  <2>3. pc' \in Positions
    BY <1>3 DEF StartTraining, Positions
  <2> QED BY <1>0, <1>3, <2>2, <2>3, TypeKept
          DEF StartTraining, storageVars, pollVars, policyVars
<1>4. CASE StoreTrainedModel
  <2>1. trainings # <<>> /\ trainings \in Seq(Training)
    BY <1>4 DEF TrainedInv, StoreTrainedModel
  <2> DEFINE model == Len(trainings) + config.initial_model
  <2>2. model \in Nat
    <3>1. Len(trainings) \in Nat
      BY <2>1
    <3>2. config.initial_model \in Nat
      BY Constants
    <3> QED BY <3>1, <3>2
  <2>3. trainings' = [trainings EXCEPT ![Len(trainings)].model = model] /\ Len(trainings) \in 1 .. Len(trainings)
    BY <1>4, <2>1 DEF StoreTrainedModel
  <2> HIDE DEF model
  <2>4. trainings' \in Seq(Training)
    <3> DEFINE n == Len(trainings)
    <3>1. n \in Nat /\ trainings \in [1 .. n -> Training] /\ n \in 1 .. n
      BY <2>1, <2>3
    <3>2. trainings' = [trainings EXCEPT ![n] = [trainings[n] EXCEPT !.model = model]]
      BY <2>3
    <3> HIDE DEF n
    <3>3. [trainings[n] EXCEPT !.model = model] \in Training
      BY <2>2, <3>1 DEF Training
    <3>4. trainings' \in [1 .. n -> Training]
      BY <3>1, <3>2, <3>3
    <3> QED BY <3>1, <3>4
  <2>5. previous_model_id' \in Nat
    BY <1>4, <2>2 DEF StoreTrainedModel, PreviousModel, model
  <2>6. pc' \in Positions
    BY <1>4 DEF StoreTrainedModel, Positions
  <2> QED BY <1>0, <1>4, <2>4, <2>5, <2>6, TypeKept
          DEF StoreTrainedModel, storageVars, pollVars, policyVars
<1>5. CASE FinishTrigger
  <2>1. \E data \in Seq(Keys) : InformSelector(data)
    <3>1. RemainingData \in Seq(Keys) /\ <<>> \in Seq(Keys)
      BY <1>1, TriggerParts
    <3> QED BY <1>5, <3>1 DEF FinishTrigger
  <2>2. informed' \in Seq(Keys) /\ trigger_ends' \in Seq(0 .. Len(informed'))
    BY <1>5, <2>1, InformType DEF FinishTrigger
  <2>3. num_triggers' \in Nat /\ pc' \in Positions /\ new_data' \in Seq(Keys)
    <3>1. num_triggers' \in Nat
      BY <1>5 DEF FinishTrigger
    <3>2. pc' \in Positions
      BY <1>5 DEF FinishTrigger, Positions
    <3>3. new_data' = <<>> \/ new_data' = new_data
      BY <1>5 DEF FinishTrigger
    <3>4. <<>> \in Seq(Keys)
      OBVIOUS
    <3> QED BY <3>1, <3>2, <3>3, <3>4
  <2>4. /\ batch' \in Seq(Keys) /\ triggering_positions' \in Seq(0 .. Len(batch'))
        /\ previous_trigger_idx' \in 0 .. Len(batch')
    <3>1. CASE batch' = <<>> /\ triggering_positions' = <<>> /\ previous_trigger_idx' = 0
      <4>1. Len(batch') = 0
        BY <3>1
      <4> QED BY <3>1, <4>1
    <3>2. CASE /\ triggering_positions' = Tail(triggering_positions)
               /\ UNCHANGED <<batch, previous_trigger_idx>>
      <4>1. triggering_positions \in Seq(0 .. Len(batch)) /\ triggering_positions # <<>>
        BY <1>1 DEF TypeOK, ControlInv
      <4>2. Tail(triggering_positions) \in Seq(0 .. Len(batch))
        BY <4>1
      <4> QED BY <3>2, <4>2 DEF TypeOK
    <3> QED BY <1>5, <3>1, <3>2 DEF FinishTrigger
  <2> QED BY <1>0, <1>5, <2>2, <2>3, <2>4, TypeKept
          DEF FinishTrigger, storageVars, pollVars, policyVars, trainingVars
<1> QED BY <1>2, <1>3, <1>4, <1>5

LEMMA StopSteps ==
  ASSUME TypeOK, Fail \/ Interrupt \/ UNCHANGED vars
  PROVE  TypeOK'
<1>0. TypeOK
  OBVIOUS
<1>1. pc' \in Positions
  BY DEF Fail, Interrupt, vars, TypeOK, Positions
<1> QED BY <1>0, <1>1, TypeParts, TypeKept
        DEF Fail, Interrupt, vars, storageVars, pollVars, policyVars, trainingVars

LEMMA TypeStep == TypeOK /\ ControlInv /\ TrainedInv /\ [Next]_vars => TypeOK'
<1> SUFFICES ASSUME TypeOK, ControlInv, TrainedInv, [Next]_vars PROVE TypeOK'
  OBVIOUS
<1> QED BY RequestSteps, BatchSteps, TriggerSteps, StopSteps, StoreSampleType DEF Next, Execute
-----------------------------------------------------------------------------
(* What the executor has in its hands.                                     *)
LEMMA ControlInit == Init => ControlInv
BY DEF Init, ControlInv, Triggering, TriggerCut, Stopped

LEMMA PositionsAfterFirst ==
  ASSUME NEW S, NEW P \in Seq(S), P # <<>>
  PROVE  /\ Len(P) \in Nat /\ Len(P) >= 1 /\ DOMAIN P = 1 .. Len(P)
         /\ Head(P) = P[1] /\ \A i \in 1 .. Len(P) : P[i] \in S
         /\ Tail(P) \in Seq(S) /\ Len(Tail(P)) = Len(P) - 1 /\ DOMAIN Tail(P) = 1 .. Len(P) - 1
         /\ \A i \in 1 .. Len(P) - 1 : Tail(P)[i] = P[i + 1]
         /\ Len(P) # 1 => Len(P) > 1 /\ Tail(P) # <<>>
<1>1. Len(P) \in Nat /\ Len(P) # 0 /\ DOMAIN P = 1 .. Len(P) /\ Head(P) = P[1]
  OBVIOUS
<1>2. \A i \in 1 .. Len(P) : P[i] \in S
  OBVIOUS
<1>3. /\ Tail(P) \in Seq(S) /\ Len(Tail(P)) = Len(P) - 1
      /\ \A i \in 1 .. Len(Tail(P)) : Tail(P)[i] = P[i + 1]
  BY HeadTailProperties
<1>4. DOMAIN Tail(P) = 1 .. Len(Tail(P)) /\ (Len(Tail(P)) # 0 => Tail(P) # <<>>)
  <2> DEFINE T == Tail(P)
  <2>1. T \in Seq(S)
    BY <1>3
  <2> HIDE DEF T
  <2>2. DOMAIN T = 1 .. Len(T) /\ (Len(T) # 0 => T # <<>>)
    BY <2>1
  <2> QED BY <2>2 DEF T
<1> QED BY <1>1, <1>2, <1>3, <1>4

LEMMA ControlStep == TypeOK /\ ControlInv /\ [Next]_vars => ControlInv'
<1> SUFFICES ASSUME TypeOK, ControlInv, [Next]_vars PROVE ControlInv'
  OBVIOUS
<1>0. Len(trigger_ends) \in Nat /\ num_triggers \in Nat
  BY DEF TypeOK
<1> USE DEF ControlInv, Triggering, TriggerCut, Stopped
<1>1. CASE ReplayData
  BY <1>1 DEF ReplayData, batchVars, selectorVars
<1>2. CASE FetchNewData
  BY <1>2 DEF FetchNewData, batchVars, selectorVars
<1>3. CASE NextResponse
  BY <1>3 DEF NextResponse, batchVars, selectorVars
<1>4. CASE EndOfStream
  BY <1>4 DEF EndOfStream, batchVars, selectorVars
<1>5. CASE HandleBatchWithoutTrigger
  BY <1>5 DEF HandleBatchWithoutTrigger, batchVars
<1>6. CASE HandleBatchWithTriggers
  <2>1. NextBatch \in Seq(Keys) /\ NextBatch # <<>>
    <3>1. PICK n \in 0 .. Len(new_data) :
             /\ new_data # <<>> => n > 0
             /\ NextBatch \in Seq(Keys) /\ Len(NextBatch) = n
      BY BatchSplit
    <3> QED BY <1>6, <3>1 DEF HandleBatchWithTriggers
  <2> DEFINE P == TriggeringPositions(NextBatch)
  <2>2. /\ P \in Seq(0 .. Len(NextBatch)) /\ P # <<>>
        /\ \A i, j \in DOMAIN P : i <= j => P[i] <= P[j]
    BY <1>6, <2>1, PositionsAre DEF HandleBatchWithTriggers
  <2> HIDE DEF P
  <2>3. 0 <= P[1]
    BY <2>1, <2>2
  <2>4. triggering_positions' = P /\ previous_trigger_idx' = 0 /\ pc' = "trigger" /\ pc = "data"
        /\ UNCHANGED <<config, responses, num_triggers, trigger_ends, stream>>
    BY <1>6 DEF HandleBatchWithTriggers, selectorVars, P
  <2> QED BY <2>2, <2>3, <2>4
<1>7. CASE EndOfResponse
  BY <1>7 DEF EndOfResponse, batchVars, selectorVars
<1>8. CASE InformSelectorAndTrigger
  <2>1. Head(triggering_positions) = triggering_positions[1]
    BY <1>8, TriggerParts DEF InformSelectorAndTrigger
  <2>2. pc' \in {"train", "after_trigger"}
    BY <1>8 DEF InformSelectorAndTrigger, TrainOrSkip
  <2>3. Len(trigger_ends') = Len(trigger_ends) + 1
    BY <1>8 DEF InformSelectorAndTrigger, Trigger, TypeOK
  <2>4. /\ previous_trigger_idx' = triggering_positions[1] /\ pc = "trigger"
        /\ UNCHANGED <<config, responses, new_data, num_triggers, stream, triggering_positions>>
    BY <1>8, <2>1 DEF InformSelectorAndTrigger
  <2>5. triggering_positions[1] <= triggering_positions[1]
    <3>1. triggering_positions[1] \in 0 .. Len(batch)
      BY <2>4, TriggerParts
    <3> QED BY <3>1
  <2>6. Len(trigger_ends') = num_triggers' + 1
    BY <1>0, <2>3, <2>4
  <2> QED BY <2>2, <2>4, <2>5, <2>6
<1>9. CASE StartTraining
  BY <1>9 DEF StartTraining, batchVars, selectorVars
<1>10. CASE StoreTrainedModel
  BY <1>10 DEF StoreTrainedModel, batchVars, selectorVars
<1>11. CASE FinishTrigger
  <2>1. /\ num_triggers' = num_triggers + 1 /\ pc = "after_trigger"
        /\ UNCHANGED <<config, responses, trigger_ends, stream>>
    BY <1>11 DEF FinishTrigger
  <2>2. CASE pc' = "data"
    <3>1. batch' = <<>> /\ triggering_positions' = <<>> /\ previous_trigger_idx' = 0
      BY <1>11, <2>2 DEF FinishTrigger
    <3> QED BY <1>0, <2>1, <2>2, <3>1
  <2>3. CASE pc' # "data"
    <3>1. /\ pc' = "trigger" /\ ~LastOfBatch /\ triggering_positions' = Tail(triggering_positions)
          /\ previous_trigger_idx' = previous_trigger_idx
      BY <1>11, <2>3 DEF FinishTrigger
    <3> DEFINE P == triggering_positions
    <3>7. P \in Seq(0 .. Len(batch)) /\ P # <<>> /\ Len(P) # 1 /\ previous_trigger_idx = P[1]
      BY <2>1, <3>1 DEF TypeOK, LastOfBatch
    <3>2. Len(P) \in Nat /\ Len(P) > 1 /\ \A i \in 1 .. Len(P) : P[i] \in 0 .. Len(batch)
      BY <3>7, PositionsAfterFirst
    <3>3. /\ Tail(P) # <<>> /\ DOMAIN Tail(P) = 1 .. Len(P) - 1 /\ DOMAIN P = 1 .. Len(P)
          /\ \A i \in 1 .. Len(P) - 1 : Tail(P)[i] = P[i + 1]
      BY <3>7, PositionsAfterFirst
    <3>4. \A i, j \in DOMAIN P : i <= j => P[i] <= P[j]
      BY <2>1
    <3>5. Tail(P)[1] = P[2] /\ P[1] <= P[2]
      BY <3>2, <3>3, <3>4
    <3>6. \A i, j \in DOMAIN Tail(P) : i <= j => Tail(P)[i] <= Tail(P)[j]
      <4> SUFFICES ASSUME NEW i \in 1 .. Len(P) - 1, NEW j \in 1 .. Len(P) - 1, i <= j
                   PROVE  Tail(P)[i] <= Tail(P)[j]
        BY <3>3
      <4>1. i + 1 \in DOMAIN P /\ j + 1 \in DOMAIN P /\ i + 1 <= j + 1
        BY <3>2, <3>3
      <4> QED BY <3>3, <3>4, <4>1
    <3> QED BY <1>0, <2>1, <3>1, <3>3, <3>5, <3>6, <3>7
  <2> QED BY <2>2, <2>3
<1>12. CASE StorageFails
  BY <1>12 DEF StorageFails, batchVars, selectorVars
<1>13. CASE Fail
  BY <1>13 DEF Fail, batchVars, selectorVars
<1>14. CASE Interrupt
  BY <1>14 DEF Interrupt, batchVars, selectorVars
<1>15. ASSUME NEW t \in Times, StoreSample(t) PROVE ControlInv'
  BY <1>15 DEF StoreSample, batchVars, selectorVars
<1>16. CASE UNCHANGED vars
  BY <1>16 DEF vars, batchVars, selectorVars
<1> QED BY <1>1, <1>2, <1>3, <1>4, <1>5, <1>6, <1>7, <1>8, <1>9, <1>10, <1>11, <1>12, <1>13, <1>14,
           <1>15, <1>16 DEF Next, Execute
-----------------------------------------------------------------------------
(* Triggers and trainings.                                                 *)
LEMMA CutsType ==
  ASSUME TypeOK
  PROVE  /\ Len(trigger_ends) \in Nat /\ Len(informed) \in Nat /\ Triggers = 1 .. Len(trigger_ends)
         /\ DOMAIN trigger_ends = Triggers
         /\ trigger_ends = <<>> <=> Len(trigger_ends) = 0
         /\ \A i \in Triggers : trigger_ends[i] \in 0 .. Len(informed) /\ StartOf(trigger_ends, i) \in 0 .. Len(informed)
         /\ LastEnd \in 0 .. Len(informed)
<1>1. trigger_ends \in Seq(0 .. Len(informed)) /\ informed \in Seq(Keys)
  BY DEF TypeOK
<1>2. /\ Len(trigger_ends) \in Nat /\ Len(informed) \in Nat /\ Triggers = 1 .. Len(trigger_ends)
      /\ DOMAIN trigger_ends = Triggers /\ \A i \in Triggers : trigger_ends[i] \in 0 .. Len(informed)
      /\ trigger_ends = <<>> <=> Len(trigger_ends) = 0
  BY <1>1 DEF Triggers
<1>3. \A i \in Triggers : StartOf(trigger_ends, i) \in 0 .. Len(informed)
  BY <1>2 DEF StartOf
<1>4. LastEnd \in 0 .. Len(informed)
  BY <1>2 DEF LastEnd
<1> QED BY <1>2, <1>3, <1>4

(* A trigger has samples when its end is past the end of the one before.   *)
LEMMA SamplesOfTrigger ==
  ASSUME TypeOK, NEW i \in Triggers
  PROVE  /\ TriggerData(i) # <<>> <=> HasSamples(trigger_ends, i)
         /\ HasSamples(trigger_ends, i) => Len(TriggerData(i)) = trigger_ends[i] - StartOf(trigger_ends, i)
         /\ ToSet(TriggerData(i)) = {informed[j] : j \in StartOf(trigger_ends, i) + 1 .. trigger_ends[i]}
<1> DEFINE a == StartOf(trigger_ends, i)
           b == trigger_ends[i]
           t == SubSeq(informed, a + 1, b)
<1>1. a \in 0 .. Len(informed) /\ b \in 0 .. Len(informed) /\ Len(informed) \in Nat
  BY CutsType
<1>2. TriggerData(i) = t
  <2>1. a + 1 = IF i = 1 THEN 1 ELSE trigger_ends[i - 1] + 1
    BY DEF StartOf
  <2> QED BY <2>1 DEF TriggerData
<1>3. \A j \in 1 .. Len(informed) : informed[j] \in Keys
  BY DEF TypeOK
<1> HIDE DEF a, b
<1>4. a + 1 \in Int /\ b \in Int /\ \A j \in a + 1 .. b : informed[j] \in Keys
  BY <1>1, <1>3
<1>5. /\ t \in Seq(Keys) /\ Len(t) = IF a + 1 <= b THEN b - (a + 1) + 1 ELSE 0
      /\ \A j \in 1 .. b - (a + 1) + 1 : t[j] = informed[a + 1 + j - 1]
  BY <1>4, SubSeqProperties
<1> HIDE DEF t
<1>6. Len(t) = IF a < b THEN b - a ELSE 0
  BY <1>1, <1>5
<1>7. DOMAIN t = 1 .. Len(t) /\ (t = <<>> <=> Len(t) = 0)
  BY <1>5
<1>8. \A j \in 1 .. b - a : t[j] = informed[a + j]
  <2> SUFFICES ASSUME NEW j \in 1 .. b - a PROVE t[j] = informed[a + j]
    OBVIOUS
  <2>1. j \in 1 .. b - (a + 1) + 1 /\ a + 1 + j - 1 = a + j
    BY <1>1
  <2> QED BY <1>5, <2>1
<1>9. \A k \in ToSet(t) : k \in {informed[j] : j \in a + 1 .. b}
  <2> SUFFICES ASSUME NEW n \in 1 .. Len(t) PROVE t[n] \in {informed[j] : j \in a + 1 .. b}
    BY <1>7 DEF ToSet
  <2>1. n \in 1 .. b - a /\ a + n \in a + 1 .. b
    BY <1>1, <1>6
  <2> QED BY <1>8, <2>1
<1>10. \A j \in a + 1 .. b : informed[j] \in ToSet(t)
  <2> SUFFICES ASSUME NEW j \in a + 1 .. b PROVE informed[j] \in ToSet(t)
    OBVIOUS
  <2> DEFINE n == j - a
  <2>1. n \in 1 .. b - a /\ n \in 1 .. Len(t) /\ a + n = j
    BY <1>1, <1>6
  <2> HIDE DEF n
  <2>2. t[n] = informed[j]
    BY <1>8, <2>1
  <2> QED BY <1>7, <2>1, <2>2 DEF ToSet
<1>11. ToSet(t) = {informed[j] : j \in a + 1 .. b}
  BY <1>9, <1>10
<1> QED BY <1>1, <1>2, <1>6, <1>7, <1>11 DEF HasSamples, a, b

LEMMA TrainingsType ==
  ASSUME TypeOK
  PROVE  /\ trainings \in Seq(Training) /\ Len(trainings) \in Nat
         /\ DOMAIN trainings = 1 .. Len(trainings) /\ (trainings = <<>> <=> Len(trainings) = 0)
         /\ \A j \in 1 .. Len(trainings) : trainings[j] \in Training
<1>1. trainings \in Seq(Training)
  BY DEF TypeOK, Training
<1> QED BY <1>1

(* The steps that neither cut a trigger nor start or end a training.       *)
QuietStep ==
  \/ ReplayData \/ FetchNewData \/ NextResponse \/ EndOfStream
  \/ HandleBatchWithoutTrigger \/ HandleBatchWithTriggers \/ EndOfResponse \/ FinishTrigger
  \/ Fail \/ Interrupt \/ StorageFails \/ (\E t \in Times : StoreSample(t)) \/ UNCHANGED vars

LEMMA Quiet ==
  ASSUME QuietStep
  PROVE  /\ UNCHANGED <<trigger_ends, trainings, previous_model_id, config>>
         /\ TriggerCut' => TriggerCut /\ informed' = informed
         /\ \/ pc' = pc
            \/ pc' \in {"failed", "done"}
            \/ pc \notin {"train", "training", "failed", "done"} /\ pc' \notin {"train", "training"}
<1> USE DEF TriggerCut, storageVars, pollVars, batchVars, policyVars, selectorVars, trainingVars, Stopped
<1>1. CASE ReplayData \/ FetchNewData \/ NextResponse \/ EndOfStream \/ EndOfResponse
  BY <1>1 DEF ReplayData, FetchNewData, NextResponse, EndOfStream, EndOfResponse
<1>2. CASE HandleBatchWithoutTrigger \/ HandleBatchWithTriggers
  BY <1>2 DEF HandleBatchWithoutTrigger, HandleBatchWithTriggers
<1>3. CASE FinishTrigger
  BY <1>3 DEF FinishTrigger
<1>4. CASE Fail \/ Interrupt \/ StorageFails
  BY <1>4 DEF Fail, Interrupt, StorageFails
<1>5. CASE \E t \in Times : StoreSample(t)
  BY <1>5 DEF StoreSample
<1>6. CASE UNCHANGED vars
  BY <1>6 DEF vars
<1> QED BY <1>1, <1>2, <1>3, <1>4, <1>5, <1>6 DEF QuietStep

LEMMA CutInit == Init => CutInv /\ TrainedInv
<1> SUFFICES ASSUME Init PROVE CutInv /\ TrainedInv
  OBVIOUS
<1>1. Len(trigger_ends) = 0 /\ DOMAIN trainings = {} /\ Len(trainings) = 0 /\ Triggers = {}
      /\ pc \in {"replay", "fetch"}
  BY DEF Init, Triggers
<1>2. ContinuedModel(Len(trainings)) = config.initial_model
  BY <1>1 DEF ContinuedModel
<1> QED BY <1>1, <1>2 DEF Init, CutInv, TrainedInv, TriggerCut

LEMMA CutStep == TypeOK /\ ControlInv /\ CutInv /\ TypeOK' /\ [Next]_vars => CutInv'
<1> SUFFICES ASSUME TypeOK, ControlInv, CutInv, TypeOK', [Next]_vars PROVE CutInv'
  OBVIOUS
<1>1. CASE QuietStep
  BY <1>1, Quiet DEF CutInv, Triggers, LastEnd
<1>2. CASE InformSelectorAndTrigger
  <2> DEFINE n == Len(trigger_ends)
             l == Len(informed')
  <2>1. TriggeringData \in Seq(Keys) /\ InformSelector(TriggeringData)
        /\ trigger_ends' = Append(trigger_ends, l)
    BY <1>2, TriggerParts DEF InformSelectorAndTrigger, Trigger, Triggering
  <2>2. l = Len(informed) + Len(TriggeringData) /\ Len(informed) \in Nat /\ Len(TriggeringData) \in Nat
    BY <2>1, InformType, CutsType
  <2>3. /\ n \in Nat /\ Len(trigger_ends') = n + 1 /\ trigger_ends'[n + 1] = l
        /\ \A i \in 1 .. n : trigger_ends'[i] = trigger_ends[i]
        /\ Triggers = 1 .. n /\ Triggers' = 1 .. n + 1
    <3>1. trigger_ends \in Seq(Nat) /\ l \in Nat
      <4>1. 0 .. Len(informed) \subseteq Nat
        BY CutsType
      <4>2. trigger_ends \in Seq(Nat)
        BY <4>1, SeqMonotonic DEF TypeOK
      <4> QED BY <2>2, <4>2
    <3> HIDE DEF l
    <3> QED BY <2>1, <3>1, AppendProperties DEF Triggers
  <2>4. \A i \in 1 .. n : trigger_ends[i] \in 0 .. Len(informed)
    BY <2>3, CutsType
  <2> HIDE DEF n, l
  <2>5. \A i, j \in 1 .. n + 1 : i <= j => trigger_ends'[i] <= trigger_ends'[j]
    <3> SUFFICES ASSUME NEW i \in 1 .. n + 1, NEW j \in 1 .. n + 1, i <= j
                 PROVE  trigger_ends'[i] <= trigger_ends'[j]
      OBVIOUS
    <3>1. CASE j \in 1 .. n
      <4>1. i \in 1 .. n
        BY <2>3, <3>1
      <4> QED BY <2>3, <3>1, <4>1 DEF CutInv
    <3>2. CASE j = n + 1
      BY <2>2, <2>3, <2>4, <3>2
    <3> QED BY <2>3, <3>1, <3>2
  <2>6. LastEnd' = Len(informed')
    <3>1. trigger_ends' # <<>>
      BY <2>1
    <3> QED BY <2>3, <3>1 DEF LastEnd, l
  <2> QED BY <2>3, <2>5, <2>6 DEF CutInv
<1>3. CASE StartTraining \/ StoreTrainedModel
  BY <1>3 DEF StartTraining, StoreTrainedModel, CutInv, Triggers, LastEnd, TriggerCut, selectorVars
<1> QED BY <1>1, <1>2, <1>3 DEF Next, Execute, QuietStep
LEMMA TrainedStep ==
  TypeOK /\ ControlInv /\ CutInv /\ TrainedInv /\ TypeOK' /\ [Next]_vars => TrainedInv'
<1> SUFFICES ASSUME TypeOK, ControlInv, CutInv, TrainedInv, TypeOK', [Next]_vars
             PROVE  TrainedInv'
  OBVIOUS
<1>1. CASE QuietStep
  <2>1. UNCHANGED <<trigger_ends, trainings, previous_model_id, config>>
    BY <1>1, Quiet
  <2>2. /\ Triggers' = Triggers
        /\ \A i : ContinuedModel(i)' = ContinuedModel(i)
        /\ \A i : Trained(i)' = Trained(i)
    BY <2>1 DEF Triggers, ContinuedModel, Trained
  <2>3. Len(trainings)' = Len(trainings)
    BY <2>1
  <2> QED BY <1>1, <2>1, <2>2, <2>3, Quiet DEF TrainedInv, Stopped
<1>2. PICK n \in Nat : n = Len(trigger_ends)
  BY CutsType
<1>3. PICK m \in Nat : m = Len(trainings)
  BY TrainingsType
<1>4. /\ Triggers = 1 .. n /\ DOMAIN trainings = 1 .. m /\ (trainings = <<>> <=> m = 0)
      /\ \A i \in 1 .. n : trigger_ends[i] \in Nat
  <2>2. DOMAIN trainings = 1 .. m /\ (trainings = <<>> <=> m = 0)
    BY <1>3, TrainingsType
  <2> QED BY <1>2, <2>2, CutsType
<1>5. \A j \in 1 .. m :
          /\ trainings[j].trigger \in 1 .. n /\ HasSamples(trigger_ends, trainings[j].trigger)
          /\ trainings[j].informed = trigger_ends[trainings[j].trigger]
          /\ trainings[j].from = ContinuedModel(j - 1)
  BY <1>4 DEF TrainedInv
<1>6. \A i, j \in 1 .. m : i < j => trainings[i].trigger < trainings[j].trigger
  BY <1>4 DEF TrainedInv
<1>7. CASE InformSelectorAndTrigger
  <2>1. /\ trigger_ends' = Append(trigger_ends, Len(informed')) /\ pc' = TrainOrSkip /\ pc = "trigger"
        /\ UNCHANGED <<trainings, previous_model_id, config>>
    BY <1>7 DEF InformSelectorAndTrigger, Trigger, trainingVars
  <2>2. /\ Len(trigger_ends') = n + 1 /\ trigger_ends'[n + 1] = Len(informed')
        /\ \A i \in 1 .. n : trigger_ends'[i] = trigger_ends[i]
        /\ Triggers' = 1 .. n + 1
    <3>1. trigger_ends \in Seq(Nat)
      <4>1. 0 .. Len(informed) \subseteq Nat
        BY CutsType
      <4> QED BY <4>1, SeqMonotonic DEF TypeOK
    <3>2. Len(informed') \in Nat
      BY DEF TypeOK
    <3> QED BY <1>2, <2>1, <3>1, <3>2, AppendProperties DEF Triggers
  <2>3. StartOf(trigger_ends', n + 1) = LastEnd
    BY <1>2, <1>4, <2>2, CutsType DEF StartOf, LastEnd
  <2>4. HasSamples(trigger_ends', n + 1) <=> pc' = "train"
    <3>1. HasSamples(trigger_ends', n + 1) <=> LastEnd < Len(informed')
      BY <2>2, <2>3 DEF HasSamples
    <3>2. LastEnd = IF trigger_ends = <<>> THEN 0 ELSE Last(trigger_ends)
      BY DEF LastEnd, Last
    <3>3. Len(informed') > LastEnd <=> LastEnd < Len(informed')
      OBVIOUS
    <3> QED BY <2>1, <3>1, <3>2, <3>3 DEF TrainOrSkip
  <2>5. \A i \in 1 .. n : HasSamples(trigger_ends', i) <=> HasSamples(trigger_ends, i)
    BY <2>2 DEF HasSamples, StartOf
  <2>6. pc' \in {"train", "after_trigger"}
    BY <2>1 DEF TrainOrSkip
  <2>7. /\ \A i : ContinuedModel(i)' = ContinuedModel(i)
        /\ \A i : Trained(i)' = Trained(i)
        /\ DOMAIN trainings' = 1 .. m /\ Len(trainings') = m
    BY <1>3, <1>4, <2>1 DEF ContinuedModel, Trained
  <2>8. \A j \in 1 .. m :
          /\ trainings'[j].trigger \in 1 .. n + 1 /\ HasSamples(trigger_ends', trainings'[j].trigger)
          /\ trainings'[j].informed = trigger_ends'[trainings'[j].trigger]
          /\ trainings'[j].from = ContinuedModel(j - 1)' /\ trainings'[j].trigger < n + 1
    BY <1>5, <2>1, <2>2, <2>5, <2>7
  <2>9. \A i \in 1 .. n : HasSamples(trigger_ends, i) => Trained(i)
    BY <1>4, <2>1 DEF TrainedInv
  <2>10. \A i \in 1 .. n + 1 : HasSamples(trigger_ends', i) =>
            Trained(i)' \/ (i = n + 1 /\ pc' = "train")
    <3> SUFFICES ASSUME NEW i \in 1 .. n + 1, HasSamples(trigger_ends', i), i # n + 1
                 PROVE  Trained(i)'
      BY <2>4
    <3>1. i \in 1 .. n
      OBVIOUS
    <3>2. Trained(i)
      BY <2>5, <2>9, <3>1
    <3> QED BY <2>1, <3>2 DEF Trained
  <2>11. previous_model_id' = ContinuedModel(m)'
    BY <1>3, <2>1, <2>7 DEF TrainedInv, Stopped
  <2>12. \A i, j \in 1 .. m : i < j => trainings'[i].trigger < trainings'[j].trigger
    BY <1>6, <2>1
  <2>13. pc' # "training" /\ (pc' \in {"train", "failed", "done"} <=> pc' = "train")
    BY <2>6
  <2>14. \A i \in Triggers' : HasSamples(trigger_ends', i) =>
           Trained(i)' \/ (i = Len(trigger_ends') /\ pc' \in {"train", "failed", "done"})
    BY <2>2, <2>10
  <2>15. pc' = "train" => /\ HasSamples(trigger_ends', Len(trigger_ends'))
                          /\ \A j \in 1 .. m : trainings'[j].trigger < Len(trigger_ends')
    BY <2>2, <2>4, <2>8
  <2>16. previous_model_id' = ContinuedModel(Len(trainings))'
    BY <2>7, <2>11 DEF ContinuedModel
  <2> QED BY <2>2, <2>7, <2>8, <2>12, <2>13, <2>14, <2>15, <2>16 DEF TrainedInv
<1>8. CASE StartTraining
  <2> DEFINE t == [trigger |-> Len(trigger_ends), from |-> previous_model_id,
                   model |-> NoModel, informed |-> Len(informed)]
  <2>1. /\ trainings' = Append(trainings, t) /\ pc = "train" /\ pc' = "training"
        /\ UNCHANGED <<trigger_ends, informed, previous_model_id, config>>
    BY <1>8 DEF StartTraining, selectorVars
  <2>2. /\ Len(trainings') = m + 1 /\ DOMAIN trainings' = 1 .. m + 1 /\ trainings'[m + 1] = t
        /\ \A j \in 1 .. m : trainings'[j] = trainings[j]
    <3>1. trainings \in Seq(Training) /\ trainings' \in Seq(Training) /\ t \in Training
      BY CutsType DEF TypeOK, NoModel, Training
    <3> HIDE DEF t
    <3> QED BY <1>3, <2>1, <3>1, AppendProperties
  <2>3. t.trigger = n /\ t.from = previous_model_id /\ t.informed = Len(informed)
    BY <1>2
  <2>4. n \in 1 .. n /\ Len(informed) = trigger_ends[n] /\ HasSamples(trigger_ends, n)
    <3>1. LastEnd = Len(informed) /\ HasSamples(trigger_ends, n) /\ n = Len(trigger_ends)
      BY <1>2, <2>1 DEF CutInv, TrainedInv, TriggerCut
    <3>2. n # 0
      <4>1. Len(trigger_ends) = num_triggers + 1 /\ num_triggers \in Nat
        BY <2>1 DEF ControlInv, Stopped, TriggerCut, TypeOK
      <4> QED BY <1>2, <4>1
    <3> QED BY <1>2, <3>1, <3>2 DEF LastEnd
  <2>5. \A i \in 0 .. m : ContinuedModel(i)' = ContinuedModel(i)
    BY <2>1, <2>2 DEF ContinuedModel
  <2>6. previous_model_id = ContinuedModel(m)
    BY <1>3, <2>1 DEF TrainedInv, Stopped
  <2> HIDE DEF t
  <2>7. Triggers' = 1 .. n /\ Len(trigger_ends') = n
    BY <1>2, <2>1 DEF Triggers
  <2>8. \A j \in 1 .. m + 1 :
          /\ trainings'[j].trigger \in 1 .. n /\ HasSamples(trigger_ends', trainings'[j].trigger)
          /\ trainings'[j].informed = trigger_ends'[trainings'[j].trigger]
          /\ trainings'[j].from = ContinuedModel(j - 1)'
    <3> SUFFICES ASSUME NEW j \in 1 .. m + 1
                 PROVE  /\ trainings'[j].trigger \in 1 .. n
                        /\ HasSamples(trigger_ends', trainings'[j].trigger)
                        /\ trainings'[j].informed = trigger_ends'[trainings'[j].trigger]
                        /\ trainings'[j].from = ContinuedModel(j - 1)'
      OBVIOUS
    <3>1. ContinuedModel(j - 1)' = ContinuedModel(j - 1)
      BY <2>5
    <3>2. CASE j \in 1 .. m
      BY <1>5, <2>1, <2>2, <3>1, <3>2
    <3>3. CASE j = m + 1
      BY <2>1, <2>2, <2>3, <2>4, <2>6, <3>1, <3>3
    <3> QED BY <3>2, <3>3
  <2>9. \A j \in 1 .. m : trainings[j].trigger < n
    BY <1>2, <1>4, <2>1 DEF TrainedInv
  <2>10. \A i, j \in 1 .. m + 1 : i < j => trainings'[i].trigger < trainings'[j].trigger
    <3> SUFFICES ASSUME NEW i \in 1 .. m + 1, NEW j \in 1 .. m + 1, i < j
                 PROVE  trainings'[i].trigger < trainings'[j].trigger
      OBVIOUS
    <3>1. i \in 1 .. m
      OBVIOUS
    <3>2. CASE j \in 1 .. m
      BY <1>6, <2>2, <3>1, <3>2
    <3>3. CASE j = m + 1
      BY <2>2, <2>3, <2>9, <3>1, <3>3
    <3> QED BY <3>2, <3>3
  <2>11. \A i \in 1 .. n : HasSamples(trigger_ends', i) => Trained(i)'
    <3> SUFFICES ASSUME NEW i \in 1 .. n, HasSamples(trigger_ends, i)
                 PROVE  \E j \in DOMAIN trainings' : trainings'[j].trigger = i
      BY <2>1 DEF Trained
    <3>1. CASE i = n
      <4>1. m + 1 \in DOMAIN trainings' /\ trainings'[m + 1].trigger = i
        BY <2>2, <2>3, <3>1
      <4> QED BY <4>1
    <3>2. CASE i # n
      <4>1. Trained(i)
        BY <1>2, <1>4, <3>2 DEF TrainedInv
      <4>2. PICK j \in 1 .. m : trainings[j].trigger = i
        BY <1>4, <4>1 DEF Trained
      <4>3. j \in DOMAIN trainings' /\ trainings'[j].trigger = i
        BY <2>2, <4>2
      <4> QED BY <4>3
    <3> QED BY <3>1, <3>2
  <2>12. ~config'.use_previous_model => previous_model_id' = config'.initial_model
    BY <2>1, <2>6 DEF ContinuedModel
  <2>13. trainings' # <<>>
    BY <2>2
  <2> QED BY <2>1, <2>2, <2>7, <2>8, <2>10, <2>11, <2>12, <2>13 DEF TrainedInv
<1>9. CASE StoreTrainedModel
  <2> DEFINE model == m + config.initial_model
  <2>1. /\ trainings' = [trainings EXCEPT ![m].model = model]
        /\ previous_model_id' = (IF config.use_previous_model THEN model ELSE previous_model_id)
        /\ pc = "training" /\ pc' = "after_trigger" /\ UNCHANGED <<trigger_ends, informed, config>>
    BY <1>3, <1>9 DEF StoreTrainedModel, PreviousModel, selectorVars
  <2>2. m # 0
    BY <1>4, <2>1 DEF TrainedInv
  <2>3. /\ Len(trainings') = m /\ DOMAIN trainings' = 1 .. m
        /\ \A j \in 1 .. m : /\ trainings'[j].trigger = trainings[j].trigger
                             /\ trainings'[j].from = trainings[j].from
                             /\ trainings'[j].informed = trainings[j].informed
        /\ \A j \in 1 .. m - 1 : trainings'[j].model = trainings[j].model
        /\ trainings'[m].model = model
    <3>2. \A j \in 1 .. m : trainings[j] \in Training
      BY <1>3, TrainingsType
    <3>3. DOMAIN trainings' = 1 .. m /\ m \in 1 .. m
      BY <1>4, <2>1, <2>2
    <3>4. trainings'[m] = [trainings[m] EXCEPT !.model = model]
          /\ \A j \in 1 .. m : j # m => trainings'[j] = trainings[j]
      BY <1>4, <2>1, <3>3
    <3>6. Len(trainings') = m
      <4>1. DOMAIN trainings' = 1 .. Len(trainings') /\ Len(trainings') \in Nat
        <5>1. trainings' \in Seq(Training)
          BY DEF TypeOK, Training
        <5> QED BY <5>1
      <4> QED BY <3>3, <4>1
    <3> HIDE DEF model
    <3>7. /\ trainings'[m].trigger = trainings[m].trigger /\ trainings'[m].from = trainings[m].from
          /\ trainings'[m].informed = trainings[m].informed /\ trainings'[m].model = model
      BY <3>2, <3>3, <3>4 DEF Training
    <3>8. \A j \in 1 .. m : /\ trainings'[j].trigger = trainings[j].trigger
                             /\ trainings'[j].from = trainings[j].from
                             /\ trainings'[j].informed = trainings[j].informed
      BY <3>4, <3>7
    <3>9. \A j \in 1 .. m - 1 : trainings'[j].model = trainings[j].model
      BY <3>4
    <3> QED BY <3>3, <3>6, <3>7, <3>8, <3>9
  <2> HIDE DEF model
  <2>4. \A i \in 0 .. m - 1 : ContinuedModel(i)' = ContinuedModel(i)
    BY <2>1, <2>3 DEF ContinuedModel
  <2>5. \A j \in 1 .. m : ContinuedModel(j - 1)' = ContinuedModel(j - 1)
    BY <2>4
  <2>6. previous_model_id' = ContinuedModel(m)'
    <3>1. CASE config.use_previous_model
      BY <2>1, <2>2, <2>3, <3>1 DEF ContinuedModel
    <3>2. CASE ~config.use_previous_model
      <4>1. previous_model_id = config.initial_model
        BY <2>1, <3>2 DEF TrainedInv, Stopped
      <4> QED BY <2>1, <3>2, <4>1 DEF ContinuedModel
    <3> QED BY <3>1, <3>2
  <2>7. Triggers' = 1 .. n /\ Len(trigger_ends') = n
    BY <1>2, <2>1 DEF Triggers
  <2>8. \A i \in 1 .. n : HasSamples(trigger_ends', i) => Trained(i)'
    BY <1>4, <2>1, <2>3 DEF TrainedInv, Trained
  <2>9. \A j \in 1 .. m :
          /\ trainings'[j].trigger \in 1 .. n /\ HasSamples(trigger_ends', trainings'[j].trigger)
          /\ trainings'[j].informed = trigger_ends'[trainings'[j].trigger]
          /\ trainings'[j].from = ContinuedModel(j - 1)'
    BY <1>5, <2>1, <2>3, <2>5
  <2>10. \A i, j \in 1 .. m : i < j => trainings'[i].trigger < trainings'[j].trigger
    BY <1>6, <2>3
  <2>11. previous_model_id' = ContinuedModel(Len(trainings))'
    BY <2>3, <2>6 DEF ContinuedModel
  <2> QED BY <2>1, <2>3, <2>7, <2>8, <2>9, <2>10, <2>11 DEF TrainedInv
<1> QED BY <1>1, <1>7, <1>8, <1>9 DEF Next, Execute, QuietStep

(* Trainings follow the triggers in every state of the invariant.          *)
LEMMA TriggersTrained == TypeOK /\ TrainedInv => TrainingsFollowTriggers
<1> SUFFICES ASSUME TypeOK, TrainedInv PROVE TrainingsFollowTriggers
  OBVIOUS
<1>1. \A i \in Triggers : i \in NonEmptyTriggers <=> HasSamples(trigger_ends, i)
  BY SamplesOfTrigger DEF NonEmptyTriggers
<1>2. NonEmptyTriggers \subseteq Triggers /\ \A i \in Triggers : i \in Nat /\ i <= Len(trigger_ends)
  BY CutsType DEF NonEmptyTriggers
<1>3. \A j \in DOMAIN trainings : trainings[j].trigger \in NonEmptyTriggers
  BY <1>1 DEF TrainedInv
<1>4. \A i \in NonEmptyTriggers :
        i < Len(trigger_ends) \/ pc \notin {"train", "failed", "done"}
          => \E j \in DOMAIN trainings : trainings[j].trigger = i
  BY <1>1, <1>2, CutsType DEF TrainedInv, Trained
<1>5. \A j \in DOMAIN trainings :
        trainings[j].from = IF j = 1 \/ ~config.use_previous_model
                                THEN config.initial_model ELSE trainings[j - 1].model
  <2> SUFFICES ASSUME NEW j \in DOMAIN trainings
               PROVE  trainings[j].from = IF j = 1 \/ ~config.use_previous_model
                                THEN config.initial_model ELSE trainings[j - 1].model
    OBVIOUS
  <2>1. j \in Nat /\ (j = 1 <=> j - 1 = 0)
    BY TrainingsType
  <2> QED BY <2>1 DEF TrainedInv, ContinuedModel
<1> QED BY <1>3, <1>4, <1>5 DEF TrainedInv, TrainingsFollowTriggers
-----------------------------------------------------------------------------
(* The triggers of the amount policy.                                      *)
(* The steps that move neither samples to the selector nor the policy on.  *)
WaitStep ==
  \/ ReplayData \/ FetchNewData \/ NextResponse \/ EndOfStream \/ EndOfResponse
  \/ Fail \/ Interrupt \/ StorageFails \/ (\E t \in Times : StoreSample(t)) \/ UNCHANGED vars

LEMMA Waiting ==
  ASSUME WaitStep
  PROVE  /\ UNCHANGED <<batchVars, policyVars, informed, trigger_ends, num_triggers, config>>
         /\ \/ Stopped'
            \/ pc' = pc
            \/ ~Stopped /\ ~Triggering /\ ~Triggering'
<1> USE DEF storageVars, pollVars, batchVars, policyVars, selectorVars, Stopped, Triggering
<1>1. CASE ReplayData \/ FetchNewData \/ NextResponse \/ EndOfStream \/ EndOfResponse
  BY <1>1 DEF ReplayData, FetchNewData, NextResponse, EndOfStream, EndOfResponse
<1>2. CASE Fail \/ Interrupt \/ StorageFails
  BY <1>2 DEF Fail, Interrupt, StorageFails
<1>3. CASE \E t \in Times : StoreSample(t)
  BY <1>3 DEF StoreSample
<1>4. CASE UNCHANGED vars
  BY <1>4 DEF vars
<1> QED BY <1>1, <1>2, <1>3, <1>4 DEF WaitStep

(* Below the limit after a trigger means below the limit before it.        *)
LEMMA FinishOnTrack ==
  ASSUME TypeOK, FinishTrigger
  PROVE  /\ OnTrack' => OnTrack /\ (pc' = "trigger" <=> ~LastOfBatch)
         /\ \A i : WithinLimit(i)' = WithinLimit(i)
<1>1. /\ num_triggers' = num_triggers + 1 /\ config' = config /\ pc = "after_trigger"
      /\ num_triggers \in Nat /\ config.maximum_triggers \in Nat
  BY Constants DEF FinishTrigger, TypeOK
<1> DEFINE over == config.maximum_triggers # 0 /\ num_triggers + 1 >= config.maximum_triggers
<1>2. (LimitReached(num_triggers)' <=> over) /\ (LimitReached(num_triggers') <=> over)
  BY <1>1 DEF LimitReached, NoLimit
<1>3. LimitReached(num_triggers) => over
  BY <1>1 DEF LimitReached, NoLimit
<1> HIDE DEF over
<1>4. ASSUME OnTrack' PROVE OnTrack /\ (pc' = "trigger" <=> ~LastOfBatch)
  <2>1. ~over /\ ~LimitReached(num_triggers) /\ ~LimitReached(num_triggers')
    BY <1>2, <1>3, <1>4 DEF OnTrack
  <2>2. OnTrack
    BY <1>1, <2>1 DEF OnTrack, Stopped
  <2>3. pc' = "trigger" <=> ~LastOfBatch
    BY <2>1 DEF FinishTrigger
  <2> QED BY <2>2, <2>3
<1>5. \A i : WithinLimit(i)' = WithinLimit(i)
  BY <1>1 DEF WithinLimit
<1> QED BY <1>4, <1>5

(* The trigger the selector is told of next.                               *)
LEMMA NewTrigger ==
  ASSUME TypeOK, TypeOK', ControlInv, InformSelectorAndTrigger
  PROVE  /\ Triggers = 1 .. num_triggers /\ Triggers' = 1 .. num_triggers + 1
         /\ trigger_ends'[num_triggers + 1] = Len(informed')
         /\ StartOf(trigger_ends', num_triggers + 1) = LastEnd
         /\ \A i \in Triggers : /\ trigger_ends'[i] = trigger_ends[i]
                                /\ StartOf(trigger_ends', i) = StartOf(trigger_ends, i)
         /\ LastEnd' = Len(informed')
         /\ WithinLimit(num_triggers + 1) => OnTrack
<1>1. pc = "trigger" /\ trigger_ends' = Append(trigger_ends, Len(informed'))
  BY DEF InformSelectorAndTrigger, Trigger
<1>2. PICK n \in Nat : n = Len(trigger_ends) /\ n = num_triggers
  BY <1>1, CutsType DEF ControlInv, Stopped, TriggerCut
<1>3. trigger_ends \in Seq(Nat)
  <2>1. 0 .. Len(informed) \subseteq Nat
    BY CutsType
  <2> QED BY <2>1, SeqMonotonic DEF TypeOK
<1> DEFINE l == Len(informed')
<1>4. l \in Nat /\ trigger_ends' = Append(trigger_ends, l)
  BY <1>1 DEF TypeOK
<1> HIDE DEF l
<1>5. /\ Len(trigger_ends') = n + 1 /\ trigger_ends'[n + 1] = l
      /\ \A i \in 1 .. n : trigger_ends'[i] = trigger_ends[i]
  <2>1. /\ Len(Append(trigger_ends, l)) = Len(trigger_ends) + 1
        /\ \A i \in 1 .. Len(trigger_ends) : Append(trigger_ends, l)[i] = trigger_ends[i]
        /\ Append(trigger_ends, l)[Len(trigger_ends) + 1] = l
    BY <1>3, <1>4, AppendProperties
  <2> QED BY <1>2, <1>4, <2>1
<1>6. Triggers = 1 .. n /\ Triggers' = 1 .. n + 1
  BY <1>2, <1>5 DEF Triggers
<1>7. StartOf(trigger_ends', n + 1) = LastEnd
  BY <1>2, <1>5, CutsType DEF StartOf, LastEnd
<1>8. \A i \in 1 .. n : StartOf(trigger_ends', i) = StartOf(trigger_ends, i)
  BY <1>5 DEF StartOf
<1>9. LastEnd' = l
  <2>1. trigger_ends' # <<>>
    <3>1. Len(trigger_ends') # 0
      BY <1>2, <1>5
    <3> QED BY <3>1
  <2> QED BY <1>5, <2>1 DEF LastEnd
<1>10. WithinLimit(n + 1) => OnTrack
  BY <1>1, <1>2, Constants DEF WithinLimit, OnTrack, LimitReached, Stopped, NoLimit
<1> QED BY <1>2, <1>5, <1>6, <1>7, <1>8, <1>9, <1>10 DEF l

LEMMA AmountInit == Init => AmountInv
<1> SUFFICES ASSUME Init PROVE AmountInv
  OBVIOUS
<1>1. Triggers = {} /\ LastEnd = 0 /\ Len(informed) = 0 /\ ~Triggering /\ remaining_data_points = 0
  BY DEF Init, Triggers, LastEnd, Triggering
<1> QED BY <1>1 DEF AmountInv

LEMMA AmountStep ==
  TypeOK /\ ControlInv /\ CutInv /\ AmountInv /\ TypeOK' /\ [Next]_vars => AmountInv'
<1> SUFFICES ASSUME TypeOK, ControlInv, CutInv, AmountInv, TypeOK', [Next]_vars,
                    config'.trigger = "DataAmountTrigger"
             PROVE  AmountInv'
  BY DEF AmountInv
<1>0. config' = config /\ config.trigger = "DataAmountTrigger"
  BY DEF Next, Execute, ReplayData, FetchNewData, NextResponse, EndOfStream,
         HandleBatchWithoutTrigger, HandleBatchWithTriggers, EndOfResponse,
         InformSelectorAndTrigger, StartTraining, StoreTrainedModel, FinishTrigger,
         Fail, Interrupt, StorageFails, StoreSample, vars
<1>1. CASE WaitStep
  <2>1. UNCHANGED <<batch, triggering_positions, previous_trigger_idx, remaining_data_points,
                    informed, trigger_ends, num_triggers, config>>
    BY <1>1, Waiting DEF batchVars, policyVars
  <2>2. /\ Triggers' = Triggers /\ LastEnd' = LastEnd /\ \A i : WithinLimit(i)' = WithinLimit(i)
    BY <2>1 DEF Triggers, LastEnd, WithinLimit
  <2>3. OnTrack' => OnTrack /\ (Triggering' <=> Triggering) /\ (pc' = "trigger" <=> pc = "trigger")
    BY <1>1, <2>1, Waiting DEF OnTrack, Stopped, Triggering, LimitReached
  <2> QED BY <2>1, <2>2, <2>3 DEF AmountInv
<1> DEFINE D == DataPointsForTrigger
<1>2. /\ D \in Nat \ {0} /\ Len(informed) \in Nat /\ LastEnd \in 0 .. Len(informed)
      /\ num_triggers \in Nat /\ remaining_data_points \in Nat
  <2>1. D \in Nat \ {0} /\ Len(informed) \in Nat /\ LastEnd \in 0 .. Len(informed)
    BY Constants, CutsType
  <2>2. num_triggers \in Nat /\ remaining_data_points \in 0 .. D - 1
    BY DEF TypeOK
  <2> QED BY <2>1, <2>2
<1> HIDE DEF D
<1>3. CASE HandleBatchWithoutTrigger
  <2>1. NextBatch \in Seq(Keys) /\ InformSelector(NextBatch) /\ AmountPositions(NextBatch) = <<>>
        /\ remaining_data_points' = (remaining_data_points + Len(NextBatch)) % DataPointsForTrigger
    BY <1>0, <1>3, BatchSplit DEF HandleBatchWithoutTrigger, PolicyStep, TriggeringPositions
  <2>2. remaining_data_points' = remaining_data_points + Len(NextBatch)
    BY <2>1, AmountPositionsAre
  <2>3. Len(informed') = Len(informed) + Len(NextBatch)
    BY <2>1, InformType
  <2>4. /\ UNCHANGED <<trigger_ends, num_triggers, config, pc>> /\ pc = "data"
    BY <1>3 DEF HandleBatchWithoutTrigger
  <2>5. /\ Triggers' = Triggers /\ LastEnd' = LastEnd /\ \A i : WithinLimit(i)' = WithinLimit(i)
        /\ ~Triggering /\ ~Triggering' /\ (OnTrack' <=> OnTrack)
    BY <2>4 DEF Triggers, LastEnd, WithinLimit, Triggering, OnTrack, Stopped, LimitReached
  <2>6. OnTrack' => Len(informed') - LastEnd' = remaining_data_points'
    <3>1. OnTrack => Len(informed) - LastEnd = remaining_data_points
      BY <1>0, <2>5 DEF AmountInv
    <3>2. Len(NextBatch) \in Nat
      BY <2>1
    <3> QED BY <1>2, <2>2, <2>3, <2>5, <3>1, <3>2
  <2> QED BY <1>0, <2>4, <2>5, <2>6 DEF AmountInv
<1>4. CASE HandleBatchWithTriggers
  <2> DEFINE P == AmountPositions(NextBatch)
  <2>1. NextBatch \in Seq(Keys) /\ P # <<>>
        /\ remaining_data_points' = (remaining_data_points + Len(NextBatch)) % DataPointsForTrigger
        /\ batch' = NextBatch /\ triggering_positions' = P /\ previous_trigger_idx' = 0
    BY <1>0, <1>4, BatchSplit DEF HandleBatchWithTriggers, PolicyStep, TriggeringPositions
  <2>2. /\ P[1] = D - remaining_data_points
        /\ Len(NextBatch) - P[Len(P)] = remaining_data_points'
        /\ \A i \in 1 .. Len(P) - 1 : P[i + 1] - P[i] = D
    BY <2>1, AmountPositionsAre DEF D
  <2> HIDE DEF P
  <2>3. /\ UNCHANGED <<trigger_ends, num_triggers, config, informed>> /\ pc = "data" /\ pc' = "trigger"
    BY <1>4 DEF HandleBatchWithTriggers, selectorVars
  <2>4. /\ Triggers' = Triggers /\ LastEnd' = LastEnd /\ \A i : WithinLimit(i)' = WithinLimit(i)
        /\ ~Triggering /\ Triggering' /\ (OnTrack' <=> OnTrack)
    BY <2>3 DEF Triggers, LastEnd, WithinLimit, Triggering, OnTrack, Stopped, LimitReached
  <2>5. OnTrack' => Len(informed') - LastEnd' + P[1] - 0 = D
    <3>1. OnTrack => Len(informed) - LastEnd = remaining_data_points
      BY <1>0, <2>4 DEF AmountInv
    <3>2. /\ OnTrack' => OnTrack
          /\ Len(informed') = Len(informed) /\ LastEnd' = LastEnd
      BY <2>3, <2>4
    <3> SUFFICES ASSUME OnTrack' PROVE Len(informed') - LastEnd' + P[1] - 0 = D
      OBVIOUS
    <3>3. Len(informed) - LastEnd = remaining_data_points
      BY <3>1, <3>2
    <3>4. D \in Int /\ LastEnd \in Int /\ Len(informed) \in Int /\ remaining_data_points \in Int
      BY <1>2
    <3>5. P[1] = D - remaining_data_points
      BY <2>2
    <3>6. Len(informed') - LastEnd' = remaining_data_points
      BY <3>2, <3>3
    <3> QED BY <3>4, <3>5, <3>6
  <2> QED BY <1>0, <2>1, <2>2, <2>3, <2>4, <2>5 DEF AmountInv, D
<1>5. CASE InformSelectorAndTrigger
  <2>1. /\ InformSelector(TriggeringData) /\ TriggeringData \in Seq(Keys)
        /\ trigger_ends' = Append(trigger_ends, Len(informed')) /\ pc = "trigger"
        /\ UNCHANGED <<batch, triggering_positions, remaining_data_points, num_triggers, config>>
    BY <1>5, TriggerParts DEF InformSelectorAndTrigger, Trigger, Triggering, policyVars
  <2>2. pc' \in {"train", "after_trigger"}
    BY <1>5 DEF InformSelectorAndTrigger, TrainOrSkip
  <2>3. PICK n \in Nat : n = num_triggers
    BY <1>2
  <2>4. /\ trigger_ends'[n + 1] = Len(informed') /\ StartOf(trigger_ends', n + 1) = LastEnd
        /\ \A i \in 1 .. n : /\ trigger_ends'[i] = trigger_ends[i]
                             /\ StartOf(trigger_ends', i) = StartOf(trigger_ends, i)
        /\ Triggers' = 1 .. n + 1 /\ Triggers = 1 .. n
        /\ WithinLimit(n + 1) => OnTrack
    BY <1>5, <2>3, NewTrigger
  <2>7. /\ \A i : WithinLimit(i)' = WithinLimit(i) /\ Triggering' /\ (OnTrack' <=> OnTrack)
    BY <2>1, <2>2 DEF WithinLimit, Triggering, OnTrack, Stopped, LimitReached
  <2>9. OnTrack => trigger_ends'[n + 1] - StartOf(trigger_ends', n + 1) = D
    <3>1. OnTrack => Len(informed) - LastEnd + triggering_positions[1] - previous_trigger_idx = D
      BY <1>0, <2>1 DEF AmountInv, Triggering, D
    <3>2. Len(informed') = Len(informed) + (triggering_positions[1] - previous_trigger_idx)
      BY <2>1, InformType, TriggerParts DEF Triggering
    <3>3. triggering_positions[1] \in Int /\ previous_trigger_idx \in Int
      <4>1. triggering_positions[1] \in 0 .. Len(batch)
        BY <2>1, TriggerParts DEF Triggering
      <4>2. previous_trigger_idx \in 0 .. Len(batch)
        BY DEF TypeOK
      <4> QED BY <4>1, <4>2
    <3> QED BY <1>2, <2>4, <3>1, <3>2, <3>3
  <2>10. \A i \in 1 .. n + 1 : WithinLimit(i)' => trigger_ends'[i] - StartOf(trigger_ends', i) = D
    BY <1>0, <2>4, <2>7, <2>9 DEF AmountInv, D
  <2>11. Triggering
    BY <2>1 DEF Triggering
  <2> QED BY <1>0, <2>1, <2>2, <2>4, <2>7, <2>10, <2>11 DEF AmountInv, D
<1>6. CASE StartTraining \/ StoreTrainedModel
  <2>1. UNCHANGED <<batch, triggering_positions, previous_trigger_idx, remaining_data_points,
                    informed, trigger_ends, num_triggers, config>> /\ pc \in {"train", "training"}
                    /\ pc' \in {"training", "after_trigger"}
    BY <1>6 DEF StartTraining, StoreTrainedModel, batchVars, policyVars, selectorVars
  <2>2. /\ Triggers' = Triggers /\ LastEnd' = LastEnd /\ \A i : WithinLimit(i)' = WithinLimit(i)
    BY <2>1 DEF Triggers, LastEnd, WithinLimit
  <2>3. /\ OnTrack' <=> OnTrack
        /\ Triggering' /\ Triggering /\ pc' # "trigger"
    BY <2>1 DEF OnTrack, Stopped, Triggering, LimitReached
  <2> QED BY <1>0, <2>1, <2>2, <2>3 DEF AmountInv
<1>7. CASE FinishTrigger
  <2>1. /\ UNCHANGED <<remaining_data_points, trigger_ends, config>> /\ pc = "after_trigger"
        /\ pc' \in {"data", "trigger"}
    BY <1>7 DEF FinishTrigger, policyVars
  <2>2. /\ Triggers' = Triggers /\ LastEnd' = LastEnd /\ \A i : WithinLimit(i)' = WithinLimit(i)
        /\ LastEnd = Len(informed) /\ Triggering /\ previous_trigger_idx = triggering_positions[1]
        /\ triggering_positions # <<>>
    BY <2>1 DEF Triggers, LastEnd, WithinLimit, CutInv, TriggerCut, Triggering, ControlInv
  <2> DEFINE P == triggering_positions
             T == Tail(P)
  <2>3. /\ Len(P) \in Nat /\ Len(P) >= 1 /\ \A i \in 1 .. Len(P) : P[i] \in 0 .. Len(batch)
        /\ Len(T) = Len(P) - 1 /\ \A i \in 1 .. Len(P) - 1 : T[i] = P[i + 1]
    <3>1. P \in Seq(0 .. Len(batch)) /\ P # <<>>
      BY <2>2 DEF TypeOK
    <3> HIDE DEF P
    <3> QED BY <3>1, PositionsAfterFirst
  <2>8. P = triggering_positions /\ T = Tail(triggering_positions)
    OBVIOUS
  <2>4. OnTrack => /\ \A i \in 1 .. Len(P) - 1 : P[i + 1] - P[i] = D
                   /\ Len(batch) - P[Len(P)] = remaining_data_points
    BY <1>0, <2>2 DEF AmountInv, D
  <2> HIDE DEF P, T
  <2>9. PICK m \in Nat : m = Len(P)
    BY <2>3
  <2>10. /\ m >= 1 /\ \A i \in 1 .. m : P[i] \in Int
         /\ Len(T) = m - 1 /\ \A i \in 1 .. m - 1 : T[i] = P[i + 1]
    BY <2>3, <2>9
  <2>5. CASE ~OnTrack'
    BY <1>0, <2>1, <2>2, <2>5 DEF AmountInv
  <2>6. CASE OnTrack' /\ LastOfBatch
    <3>1. OnTrack /\ pc' = "data" /\ m = 1
      BY <1>7, <2>1, <2>6, <2>8, <2>9, FinishOnTrack DEF LastOfBatch
    <3>2. InformSelector(RemainingData) /\ RemainingData \in Seq(Keys)
          /\ Len(RemainingData) = Len(batch) - P[1]
      BY <1>7, <2>2, <2>6, <2>8, TriggerParts DEF FinishTrigger
    <3>3. Len(informed') = Len(informed) + Len(RemainingData)
      BY <3>2, InformType
    <3>4. Len(informed') - LastEnd' = remaining_data_points'
      <4>1. Len(batch) - P[1] = remaining_data_points
        BY <2>4, <2>9, <3>1
      <4> QED BY <1>2, <2>1, <2>2, <3>2, <3>3, <4>1
    <3> QED BY <1>0, <2>1, <2>2, <3>1, <3>4 DEF AmountInv, Triggering
  <2>7. CASE OnTrack' /\ ~LastOfBatch
    <3>1. OnTrack /\ pc' = "trigger"
      BY <1>7, <2>7, FinishOnTrack
    <3>7. m > 1
      <4>1. m # 1
        BY <2>7, <2>8, <2>9 DEF LastOfBatch
      <4> QED BY <2>10, <4>1
    <3>2. /\ triggering_positions' = T /\ batch' = batch
          /\ previous_trigger_idx' = P[1] /\ InformSelector(<<>>)
      BY <1>7, <2>2, <2>7, <2>8, <3>1 DEF FinishTrigger
    <3>3. Len(informed') = Len(informed)
      <4>1. <<>> \in Seq(Keys) /\ Len(<<>>) = 0
        OBVIOUS
      <4>2. Len(informed') = Len(informed) + Len(<<>>)
        BY <3>2, <4>1, InformType
      <4> QED BY <1>2, <4>1, <4>2
    <3>8. \A i \in 1 .. m - 1 : P[i + 1] - P[i] = D
      BY <2>4, <2>9, <3>1
    <3>4. Len(informed') - LastEnd' + T[1] - P[1] = D
      <4>1. T[1] = P[2] /\ P[2] - P[1] = D /\ P[1] \in Int /\ P[2] \in Int
        <5>1. 1 \in 1 .. m - 1 /\ 1 \in 1 .. m /\ 2 \in 1 .. m /\ 1 + 1 = 2
          BY <3>7
        <5> QED BY <2>10, <3>8, <5>1
      <4>2. Len(informed') - LastEnd' = 0
        BY <1>2, <2>2, <3>3
      <4> QED BY <4>1, <4>2
    <3>5. \A i \in 1 .. Len(T) - 1 : T[i + 1] - T[i] = D
      <4> SUFFICES ASSUME NEW i \in 1 .. m - 2 PROVE T[i + 1] - T[i] = D
        BY <2>10
      <4>1. i \in 1 .. m - 1 /\ i + 1 \in 1 .. m - 1
        OBVIOUS
      <4> QED BY <2>10, <3>8, <4>1
    <3>6. Len(batch) - T[Len(T)] = remaining_data_points
      <4>1. T[m - 1] = P[m]
        <5>1. m - 1 \in 1 .. m - 1 /\ m - 1 + 1 = m
          BY <3>7
        <5> QED BY <2>10, <5>1
      <4> QED BY <2>4, <2>9, <2>10, <3>1, <4>1
    <3> QED BY <1>0, <2>1, <2>2, <3>1, <3>2, <3>4, <3>5, <3>6 DEF AmountInv, Triggering, D
  <2> QED BY <2>5, <2>6, <2>7
<1> QED BY <1>1, <1>3, <1>4, <1>5, <1>6, <1>7 DEF Next, Execute, WaitStep

LEMMA AmountsExact ==
  TypeOK /\ AmountInv /\ config.trigger = "DataAmountTrigger" => AmountTriggersExact
<1> SUFFICES ASSUME TypeOK, AmountInv, config.trigger = "DataAmountTrigger",
                    NEW i \in Triggers, WithinLimit(i)
             PROVE  Len(TriggerData(i)) = DataPointsForTrigger
  BY DEF AmountTriggersExact
<1>1. trigger_ends[i] - StartOf(trigger_ends, i) = DataPointsForTrigger
  BY DEF AmountInv
<1>2. /\ trigger_ends[i] \in Nat /\ StartOf(trigger_ends, i) \in Nat
      /\ DataPointsForTrigger \in Nat \ {0}
  BY CutsType, Constants
<1>3. HasSamples(trigger_ends, i)
  BY <1>1, <1>2 DEF HasSamples
<1> QED BY <1>1, <1>3, SamplesOfTrigger
-----------------------------------------------------------------------------
(* What a replay has in its hands.                                         *)
LEMMA WithinPart ==
  ASSUME NEW S, NEW s \in Seq(S), NEW t \in Seq(S), NEW n, Within(s, t, n),
         NEW p \in Seq(S), NEW a \in Nat, a + Len(p) <= Len(s),
         \A i \in 1 .. Len(p) : p[i] = s[a + i]
  PROVE  Within(p, t, n + a)
<1>1. /\ Len(s) \in Nat /\ Len(t) \in Nat /\ Len(p) \in Nat
      /\ n \in 0 .. Len(t) - Len(s) /\ \A i \in 1 .. Len(s) : s[i] = t[n + i]
  BY DEF Within
<1>2. n + a \in 0 .. Len(t) - Len(p)
  BY <1>1
<1>3. ASSUME NEW i \in 1 .. Len(p) PROVE p[i] = t[n + a + i]
  <2>1. a + i \in 1 .. Len(s) /\ n + (a + i) = n + a + i
    BY <1>1
  <2> QED BY <1>1, <2>1
<1> QED BY <1>2, <1>3 DEF Within

(* Both parts of a sequence cut in two run on with what it ran on with.    *)
LEMMA WithinSplit ==
  ASSUME NEW S, NEW s \in Seq(S), NEW t \in Seq(S), NEW c \in Nat, Within(s, t, c),
         NEW n \in 0 .. Len(s), NEW p \in Seq(S), NEW q \in Seq(S),
         Len(p) = n, \A i \in 1 .. n : p[i] = s[i],
         Len(q) = Len(s) - n, \A i \in 1 .. Len(s) - n : q[i] = s[n + i]
  PROVE  Within(p, t, c) /\ Within(q, t, c + n)
<1>1. Len(s) \in Nat /\ n \in Nat /\ n <= Len(s) /\ c + 0 = c
  OBVIOUS
<1>2. 0 + Len(p) <= Len(s) /\ \A i \in 1 .. Len(p) : p[i] = s[0 + i]
  BY <1>1
<1>3. n + Len(q) <= Len(s) /\ \A i \in 1 .. Len(q) : q[i] = s[n + i]
  BY <1>1
<1>4. Within(p, t, c + 0)
  BY <1>2, WithinPart
<1>5. Within(q, t, c + n)
  BY <1>1, <1>3, WithinPart
<1> QED BY <1>1, <1>4, <1>5

LEMMA WithinJoin ==
  ASSUME NEW S, NEW s \in Seq(S), NEW p \in Seq(S), NEW t \in Seq(S), NEW n,
         Within(s, t, n), Within(p, t, n + Len(s))
  PROVE  Within(s \o p, t, n)
<1> DEFINE c == s \o p
<1>1. /\ Len(c) = Len(s) + Len(p) /\ Len(s) \in Nat /\ Len(p) \in Nat /\ Len(t) \in Nat
      /\ \A i \in 1 .. Len(s) : c[i] = s[i]
      /\ \A i \in 1 .. Len(p) : c[Len(s) + i] = p[i]
  <2>1. Len(t) \in Nat
    OBVIOUS
  <2> QED BY <2>1, Concatenation
<1> HIDE DEF c
<1>2. /\ n \in Nat /\ n + Len(s) <= Len(t) - Len(p)
      /\ \A i \in 1 .. Len(s) : s[i] = t[n + i]
      /\ \A i \in 1 .. Len(p) : p[i] = t[n + Len(s) + i]
  BY <1>1 DEF Within
<1>3. n \in 0 .. Len(t) - Len(c)
  BY <1>1, <1>2
<1>4. ASSUME NEW i \in 1 .. Len(c) PROVE c[i] = t[n + i]
  <2>1. CASE i <= Len(s)
    BY <1>1, <1>2, <2>1
  <2>2. CASE i > Len(s)
    <3> DEFINE j == i - Len(s)
    <3>1. j \in 1 .. Len(p) /\ Len(s) + j = i /\ n + Len(s) + j = n + i
      BY <1>1, <1>2, <2>2
    <3> HIDE DEF j
    <3> QED BY <1>1, <1>2, <3>1
  <2> QED BY <1>1, <2>1, <2>2
<1> QED BY <1>3, <1>4 DEF Within, c

LEMMA WithinEmpty ==
  ASSUME NEW S, NEW t \in Seq(S), NEW n \in 0 .. Len(t)
  PROVE  Within(<<>>, t, n)
<1>1. Len(t) \in Nat /\ Len(<<>>) = 0
  OBVIOUS
<1> QED BY <1>1 DEF Within

(* The samples of a replay are sorted already: sorting them by timestamp,  *)
(* ties in the order they were sent, changes nothing.                      *)
LEMMA SortedAlready ==
  ASSUME TypeOK, StreamInv, NEW n, Within(Response, stream, n),
         NEW s \in Sorted(ToSet(Response))
  PROVE  s = Response
<1> DEFINE R == Response
           m == Len(R)
           S == ToSet(R)
<1>1. R \in Seq(Keys) /\ m \in Nat /\ DOMAIN R = 1 .. m
  BY ResponseSplit
<1>2. stream \in Seq(Keys) /\ DOMAIN stream = 1 .. Len(stream) /\ Len(stream) \in Nat
  BY DEF TypeOK
<1>3. n \in 0 .. Len(stream) - m /\ \A i \in 1 .. m : R[i] = stream[n + i]
  BY DEF Within
<1> HIDE DEF R
<1>4. \A i, j \in 1 .. m : i < j => R[i] # R[j] /\ stored[R[i]] <= stored[R[j]]
  <2> SUFFICES ASSUME NEW i \in 1 .. m, NEW j \in 1 .. m, i < j
               PROVE  R[i] # R[j] /\ stored[R[i]] <= stored[R[j]]
    OBVIOUS
  <2>1. n + i \in DOMAIN stream /\ n + j \in DOMAIN stream /\ n + i < n + j
    BY <1>1, <1>2, <1>3
  <2> QED BY <1>3, <2>1 DEF StreamInv
<1>5. S = {R[i] : i \in 1 .. m} /\ S \subseteq Keys
  BY <1>1 DEF ToSet
<1>6. \A i \in 1 .. m : stored[R[i]] \in Nat
  <2>1. \A i \in 1 .. m : R[i] \in Keys
    BY <1>1
  <2> QED BY <2>1, Constants
<1>7. IsFiniteSet(S) /\ Cardinality(S) = m
  <2> DEFINE f == [i \in 1 .. m |-> R[i]]
  <2>1. f \in Bijection(1 .. m, S)
    <3>1. f \in Surjection(1 .. m, S)
      BY <1>5 DEF Surjection
    <3>2. f \in Injection(1 .. m, S)
      <4> SUFFICES ASSUME NEW i \in 1 .. m, NEW j \in 1 .. m, R[i] = R[j] PROVE i = j
        BY <3>1 DEF Injection, Surjection, IsInjective
      <4>1. ~(i < j) /\ ~(j < i)
        BY <1>4
      <4> QED BY <4>1
    <3> QED BY <3>1, <3>2 DEF Bijection
  <2> QED BY <1>1, <2>1, FS_CountingElements, FS_NatBijection DEF ExistsBijection
<1>8. /\ DOMAIN s = 1 .. m /\ s \in Seq(S) /\ Len(s) = m
      /\ \A i, j \in 1 .. m : i # j => s[i] # s[j]
      /\ \A i, j \in 1 .. m : i < j => SortsBefore(s[i], s[j])
  <2>1. s \in SetToSeqs(S) /\ \A i, j \in DOMAIN s : i < j => SortsBefore(s[i], s[j])
    BY DEF Sorted, R
  <2> QED BY <1>7, <2>1, SetAsSequence
<1>9. \A i \in 1 .. m : \E j \in 1 .. m : R[j] = s[i]
  <2>1. \A i \in 1 .. m : s[i] \in S
    BY <1>8
  <2> QED BY <1>5, <2>1
<1> DEFINE p == [i \in 1 .. m |-> CHOOSE j \in 1 .. m : R[j] = s[i]]
<1>10. p \in [1 .. m -> 1 .. m] /\ \A i \in 1 .. m : R[p[i]] = s[i]
  BY <1>9
<1> HIDE DEF p, S
<1>11. ASSUME NEW i \in 1 .. m, NEW j \in 1 .. m, i < j PROVE p[i] < p[j]
  <2>1. SortsBefore(s[i], s[j]) /\ p[i] \in 1 .. m /\ p[j] \in 1 .. m /\ s[i] = R[p[i]] /\ s[j] = R[p[j]]
    BY <1>8, <1>10, <1>11
  <2>2. CASE Earlier(s[i], s[j])
    <3>1. stored[R[p[i]]] < stored[R[p[j]]]
      BY <2>1, <2>2 DEF Earlier
    <3>2. ~(p[j] < p[i]) /\ p[i] # p[j]
      BY <1>4, <1>6, <2>1, <3>1
    <3> QED BY <2>1, <3>2
  <2>3. CASE SentBefore(s[i], s[j])
    <3>1. PICK u \in 1 .. m, v \in 1 .. m : u < v /\ R[u] = R[p[i]] /\ R[v] = R[p[j]]
      BY <1>1, <2>1, <2>3 DEF SentBefore, R
    <3>2. u = p[i] /\ v = p[j]
      <4>1. ~(u < p[i]) /\ ~(p[i] < u) /\ ~(v < p[j]) /\ ~(p[j] < v)
        BY <1>4, <2>1, <3>1
      <4> QED BY <2>1, <4>1
    <3> QED BY <3>1, <3>2
  <2> QED BY <2>1, <2>2, <2>3 DEF SortsBefore
<1>12. \A i \in 1 .. m : p[i] = i
  BY <1>1, <1>10, <1>11, IncreasingIsIdentity
<1>13. \A i \in 1 .. m : s[i] = R[i]
  BY <1>10, <1>12
<1>14. s \in Seq(Keys)
  BY <1>5, <1>8, SeqMonotonic
<1> QED BY <1>1, <1>8, <1>13, <1>14, SeqEqual DEF R

LEMMA StreamInit == Init => StreamInv /\ ReplayInv
<1> SUFFICES ASSUME Init PROVE StreamInv /\ ReplayInv
  OBVIOUS
<1>1. config.maximum_triggers \in Nat
  BY BatchAssumption DEF Init
<1>2. DOMAIN stream = {} /\ ~LimitReached(num_triggers)
  BY <1>1 DEF Init, LimitReached, NoLimit
<1>3. Within(<<>>, <<>>, 0) /\ Len(<<>>) = 0
  BY DEF Within
<1> QED BY <1>1, <1>2, <1>3 DEF Init, StreamInv, ReplayInv, ChainFollows, Follows, Cut

LEMMA StreamStep == TypeOK /\ StreamInv /\ [Next]_vars => StreamInv'
<1> SUFFICES ASSUME TypeOK, StreamInv, [Next]_vars PROVE StreamInv'
  OBVIOUS
<1>1. CASE ReplayData
  <2>1. PICK s \in ByTimestamp(ReplayInterval) : stream' = s
    BY <1>1 DEF ReplayData
  <2>2. ReplayInterval \subseteq Keys
    BY DEF ReplayInterval, InInterval
  <2>3. stored' = stored
    BY <1>1 DEF ReplayData, storageVars
  <2>4. \A i, j \in DOMAIN s : i < j => s[i] # s[j] /\ stored[s[i]] <= stored[s[j]]
    BY <2>1, <2>2, RequestType
  <2> QED BY <2>1, <2>3, <2>4 DEF StreamInv
<1>2. ASSUME NEW t \in Times, StoreSample(t) PROVE StreamInv'
  <2>1. \A k \in Keys : stored'[k] = stored[k]
    BY <1>2, StoredGrows
  <2>2. \A i \in DOMAIN stream : stream[i] \in Keys
    BY DEF TypeOK
  <2>3. stream' = stream
    BY <1>2 DEF StoreSample
  <2> QED BY <2>1, <2>2, <2>3 DEF StreamInv
<1>3. CASE UNCHANGED <<stored, stream>>
  BY <1>3 DEF StreamInv
<1>4. UNCHANGED <<stored, stream>> \/ ReplayData \/ \E t \in Times : StoreSample(t)
  BY DEF Next, Execute, ReplayData, FetchNewData, NextResponse, EndOfStream,
         HandleBatchWithoutTrigger, HandleBatchWithTriggers, EndOfResponse,
         InformSelectorAndTrigger, StartTraining, StoreTrainedModel, FinishTrigger,
         Fail, Interrupt, StorageFails, vars, storageVars
<1> QED BY <1>1, <1>2, <1>3, <1>4

(* What is in hand of a running replay, typed.                             *)
LEMMA ReplayParts ==
  ASSUME TypeOK, ControlInv, ReplayInv, config.experiment, ~Stopped
  PROVE  /\ informed \in Seq(Keys) /\ batch \in Seq(Keys) /\ new_data \in Seq(Keys)
         /\ responses \in Seq(Keys) /\ stream \in Seq(Keys)
         /\ Len(informed) \in Nat /\ Len(batch) \in Nat /\ Len(new_data) \in Nat
         /\ Len(responses) \in Nat /\ Len(stream) \in Nat
         /\ previous_trigger_idx \in 0 .. Len(batch)
         /\ Within(informed, stream, 0) /\ Len(informed) <= Len(stream)
         /\ pc \notin {"data", "stream"} => ~LimitReached(num_triggers)
         /\ pc = "data" /\ new_data # <<>> => ~LimitReached(num_triggers)
         /\ pc = "stream" /\ responses # <<>> => ~LimitReached(num_triggers)
         /\ ~Triggering => Len(batch) = 0 /\ previous_trigger_idx = 0
         /\ ~LimitReached(num_triggers) =>
              /\ Within(batch, stream, Len(informed) - previous_trigger_idx)
              /\ Within(new_data, stream, Cut) /\ Cut \in Nat
              /\ Within(responses, stream, Cut + Len(new_data))
              /\ Cut + Len(new_data) + Len(responses) <= Len(stream)
              /\ storage_errors = 0 => Cut + Len(new_data) + Len(responses) = Len(stream)
<1>1. /\ informed \in Seq(Keys) /\ batch \in Seq(Keys) /\ new_data \in Seq(Keys)
      /\ responses \in Seq(Keys) /\ stream \in Seq(Keys) /\ previous_trigger_idx \in 0 .. Len(batch)
  BY DEF TypeOK
<1>2. /\ Len(informed) \in Nat /\ Len(batch) \in Nat /\ Len(new_data) \in Nat
      /\ Len(responses) \in Nat /\ Len(stream) \in Nat
  BY <1>1
<1>3. Within(informed, stream, 0)
  BY DEF ReplayInv, Follows
<1>4. Len(informed) <= Len(stream)
  BY <1>2, <1>3 DEF Within
<1>5. /\ pc \notin {"data", "stream"} => ~LimitReached(num_triggers)
      /\ pc = "data" /\ new_data # <<>> => ~LimitReached(num_triggers)
      /\ pc = "stream" /\ responses # <<>> => ~LimitReached(num_triggers)
  BY DEF ReplayInv
<1>6. ~Triggering => Len(batch) = 0 /\ previous_trigger_idx = 0
  <2>1. ~Triggering => batch = <<>> /\ previous_trigger_idx = 0
    BY DEF ControlInv
  <2>2. Len(<<>>) = 0
    OBVIOUS
  <2> QED BY <2>1, <2>2
<1>7. ASSUME ~LimitReached(num_triggers)
      PROVE  /\ Within(batch, stream, Len(informed) - previous_trigger_idx)
             /\ Within(new_data, stream, Cut)
             /\ Within(responses, stream, Cut + Len(new_data))
             /\ storage_errors = 0 => Cut + Len(new_data) + Len(responses) = Len(stream)
  BY <1>7 DEF ReplayInv, ChainFollows, Follows
<1>8. ASSUME ~LimitReached(num_triggers)
      PROVE  Cut \in Nat /\ Cut + Len(new_data) + Len(responses) <= Len(stream)
  <2>1. Cut \in 0 .. Len(stream) - Len(new_data)
    BY <1>7, <1>8 DEF Within
  <2>2. Cut + Len(new_data) \in 0 .. Len(stream) - Len(responses)
    BY <1>7, <1>8 DEF Within
  <2> QED BY <1>2, <2>1, <2>2
<1> QED BY <1>1, <1>2, <1>3, <1>4, <1>5, <1>6, <1>7, <1>8

(* The steps of a replay on requests and responses.                        *)
LEMMA ReplayRequests ==
  ASSUME TypeOK, ControlInv, StreamInv, ReplayInv, TypeOK', config'.experiment, ~Stopped', ~Stopped,
         ReplayData \/ FetchNewData \/ NextResponse \/ EndOfStream \/ EndOfResponse \/ StorageFails
  PROVE  ReplayInv'
<1>0. config' = config /\ config.experiment
  BY DEF ReplayData, FetchNewData, NextResponse, EndOfStream, EndOfResponse, StorageFails
<1>1. CASE ReplayData
  <2>1. PICK s \in ByTimestamp(ReplayInterval) : stream' = s /\ responses' = s
    BY <1>1 DEF ReplayData
  <2>2. ReplayInterval \subseteq Keys
    BY DEF ReplayInterval, InInterval
  <2>3. s \in Seq(Keys) /\ Len(s) \in Nat
    BY <2>1, <2>2, RequestType
  <2>4. /\ pc = "replay" /\ pc' = "stream" /\ UNCHANGED <<informed, batch, new_data, num_triggers, previous_trigger_idx>>
    BY <1>1 DEF ReplayData, selectorVars, batchVars
  <2>5. /\ batch = <<>> /\ previous_trigger_idx = 0 /\ new_data = <<>> /\ Len(<<>>) = 0
        /\ stream = <<>> /\ ~LimitReached(num_triggers)
    BY <1>0, <2>4, ReplayParts DEF ControlInv, Triggering, Stopped
  <2>6. informed = <<>> /\ Len(informed) = 0
    BY <1>0, <2>5, ReplayParts
  <2>7. ~LimitReached(num_triggers)'
    BY <1>0, <2>4, <2>5 DEF LimitReached
  <2>8. Cut' = 0 /\ Len(informed') - previous_trigger_idx' = 0
    BY <2>4, <2>5, <2>6 DEF Cut
  <2>9. Within(<<>>, s, 0) /\ Within(s, s, 0)
    <3>1. Within(<<>>, s, 0)
      BY <2>3, WithinEmpty
    <3>2. Within(s, s, 0)
      BY <2>3 DEF Within
    <3> QED BY <3>1, <3>2
  <2>10. Cut' + Len(new_data') = 0 /\ Cut' + Len(new_data') + Len(responses') = Len(stream')
    BY <2>1, <2>3, <2>4, <2>5, <2>8
  <2>11. ChainFollows'
    BY <2>1, <2>4, <2>5, <2>8, <2>9, <2>10 DEF ChainFollows, Follows
  <2> QED BY <2>1, <2>4, <2>6, <2>7, <2>9, <2>11 DEF ReplayInv, Follows
<1>2. CASE NextResponse
  <2>1. /\ pc = "stream" /\ responses # <<>> /\ responses' = NextResponses
        /\ UNCHANGED <<informed, batch, num_triggers, previous_trigger_idx, stream, storage_errors>>
    BY <1>2 DEF NextResponse, selectorVars, batchVars, storageVars
  <2>2. new_data' \in Sorted(ToSet(Response))
    <3>1. {k \in ToSet(Response) : ~ProcessedBefore(k)} = ToSet(Response)
      BY <1>0 DEF ProcessedBefore
    <3> QED BY <1>2, <3>1 DEF NextResponse
  <2>3. ~LimitReached(num_triggers) /\ new_data = <<>>
    BY <1>0, <2>1, ReplayParts DEF ControlInv
  <2>4. PICK n \in 0 .. Len(responses) :
           /\ Response \in Seq(Keys) /\ Len(Response) = n
           /\ \A i \in 1 .. n : Response[i] = responses[i]
           /\ NextResponses \in Seq(Keys) /\ Len(NextResponses) = Len(responses) - n
           /\ \A i \in 1 .. Len(responses) - n : NextResponses[i] = responses[n + i]
    BY ResponseSplit
  <2> DEFINE c == Cut
  <2>5. /\ c \in Nat /\ Within(responses, stream, c) /\ Len(new_data) = 0
        /\ stream \in Seq(Keys) /\ responses \in Seq(Keys) /\ Len(responses) \in Nat
        /\ storage_errors = 0 => c + Len(responses) = Len(stream)
    <3>1. Len(new_data) = 0
      BY <2>3
    <3>2. /\ Cut \in Nat /\ Within(responses, stream, Cut + Len(new_data))
          /\ stream \in Seq(Keys) /\ responses \in Seq(Keys) /\ Len(responses) \in Nat
          /\ storage_errors = 0 => Cut + Len(new_data) + Len(responses) = Len(stream)
      BY <1>0, <2>3, ReplayParts
    <3>3. Cut + Len(new_data) = Cut
      BY <3>1, <3>2
    <3> QED BY <3>1, <3>2, <3>3
  <2>9. Cut' = c
    BY <2>1 DEF Cut
  <2> HIDE DEF c
  <2>6. Within(Response, stream, c) /\ Within(NextResponses, stream, c + n)
    <3> DEFINE p == Response
               q == NextResponses
    <3>1. /\ p \in Seq(Keys) /\ Len(p) = n /\ \A i \in 1 .. n : p[i] = responses[i]
          /\ q \in Seq(Keys) /\ Len(q) = Len(responses) - n
          /\ \A i \in 1 .. Len(responses) - n : q[i] = responses[n + i]
      BY <2>4
    <3> HIDE DEF p, q
    <3>2. Within(p, stream, c) /\ Within(q, stream, c + n)
      BY <2>5, <3>1, WithinSplit
    <3> QED BY <3>2 DEF p, q
  <2>7. new_data' = Response
    BY <2>2, <2>6, SortedAlready
  <2>8. ~LimitReached(num_triggers)'
    BY <1>0, <2>1, <2>3 DEF LimitReached
  <2>10. c + Len(new_data') = c + n /\ c + Len(new_data') + Len(responses') = c + Len(responses)
    <3>1. Len(new_data') = n /\ Len(responses') = Len(responses) - n
      BY <2>1, <2>4, <2>7
    <3>2. n \in Nat /\ c \in Nat /\ Len(responses) \in Nat
      BY <2>5
    <3> QED BY <3>1, <3>2
  <2>11. Within(batch, stream, Len(informed) - previous_trigger_idx) /\ Within(informed, stream, 0)
    BY <1>0, <2>3, ReplayParts
  <2>12. ChainFollows'
    BY <2>1, <2>5, <2>6, <2>7, <2>9, <2>10, <2>11 DEF ChainFollows, Follows
  <2> QED BY <2>1, <2>8, <2>11, <2>12 DEF ReplayInv, Follows
<1>3. CASE FetchNewData \/ EndOfStream
  BY <1>0, <1>3 DEF FetchNewData, EndOfStream, ControlInv, Stopped
<1>4. CASE EndOfResponse
  <2>1. /\ pc = "data" /\ pc' = "stream" /\ new_data = <<>>
        /\ responses' = IF LimitReached(num_triggers) THEN <<>> ELSE responses
        /\ UNCHANGED <<informed, batch, num_triggers, previous_trigger_idx, stream, storage_errors, new_data>>
    BY <1>0, <1>4 DEF EndOfResponse, selectorVars, batchVars, storageVars
  <2>2. (LimitReached(num_triggers)' <=> LimitReached(num_triggers)) /\ Cut' = Cut
    BY <1>0, <2>1 DEF LimitReached, Cut
  <2>3. CASE LimitReached(num_triggers)
    BY <1>0, <2>1, <2>2, <2>3 DEF ReplayInv, Follows
  <2>4. CASE ~LimitReached(num_triggers)
    BY <1>0, <2>1, <2>2, <2>4 DEF ReplayInv, Follows, ChainFollows
  <2> QED BY <2>3, <2>4
<1>5. CASE StorageFails
  <2>1. /\ pc = "stream" /\ pc' = "stream" /\ responses # <<>> /\ responses' = <<>>
        /\ storage_errors' = storage_errors + 1
        /\ UNCHANGED <<informed, batch, num_triggers, previous_trigger_idx, stream, new_data>>
    BY <1>5 DEF StorageFails, selectorVars, batchVars
  <2>2. ~LimitReached(num_triggers)
    BY <1>0, <2>1, ReplayParts
  <2>3. ~LimitReached(num_triggers)' /\ Cut' = Cut /\ storage_errors' # 0
    BY <1>0, <2>1, <2>2 DEF LimitReached, Cut, TypeOK
  <2>4. Within(<<>>, stream, Cut + Len(new_data))
    <3>1. Cut + Len(new_data) \in 0 .. Len(stream) /\ stream \in Seq(Keys)
      <4>1. /\ Cut \in Nat /\ Len(new_data) \in Nat /\ Len(responses) \in Nat /\ Len(stream) \in Nat
            /\ Cut + Len(new_data) + Len(responses) <= Len(stream) /\ stream \in Seq(Keys)
        BY <1>0, <2>2, ReplayParts
      <4> QED BY <4>1
    <3> QED BY <3>1, WithinEmpty
  <2>5. ChainFollows'
    BY <1>0, <2>1, <2>2, <2>3, <2>4, ReplayParts DEF ChainFollows, Follows
  <2> QED BY <1>0, <2>1, <2>3, <2>5, ReplayParts DEF ReplayInv, Follows
<1> QED BY <1>1, <1>2, <1>3, <1>4, <1>5

(* The steps of a replay on batches and triggers.                          *)
LEMMA ReplayBatches ==
  ASSUME TypeOK, ControlInv, ReplayInv, TypeOK', config'.experiment, ~Stopped', ~Stopped,
         HandleBatchWithoutTrigger \/ HandleBatchWithTriggers
  PROVE  ReplayInv'
<1>1. /\ config' = config /\ config.experiment /\ pc = "data" /\ new_data # <<>>
      /\ UNCHANGED <<stream, num_triggers, responses, storage_errors>>
  BY DEF HandleBatchWithoutTrigger, HandleBatchWithTriggers, storageVars
<1>2. /\ informed \in Seq(Keys) /\ stream \in Seq(Keys) /\ new_data \in Seq(Keys)
      /\ Len(informed) \in Nat /\ Len(new_data) \in Nat /\ Len(responses) \in Nat
      /\ Len(batch) = 0 /\ previous_trigger_idx = 0
      /\ ~LimitReached(num_triggers) /\ Within(informed, stream, 0)
  BY <1>1, ReplayParts DEF Triggering
<1> DEFINE l == Len(informed)
           m == Len(new_data)
<1>3. Cut = l
  BY <1>2 DEF Cut
<1>4. /\ Within(new_data, stream, l) /\ Within(responses, stream, l + m)
      /\ storage_errors = 0 => l + m + Len(responses) = Len(stream)
  BY <1>1, <1>2, <1>3, ReplayParts
<1>5. PICK n \in 0 .. Len(new_data) :
           /\ NextBatch \in Seq(Keys) /\ Len(NextBatch) = n
           /\ \A i \in 1 .. n : NextBatch[i] = new_data[i]
           /\ AfterBatch \in Seq(Keys) /\ Len(AfterBatch) = Len(new_data) - n
           /\ \A i \in 1 .. Len(new_data) - n : AfterBatch[i] = new_data[n + i]
  BY BatchSplit
<1>6. Within(NextBatch, stream, l) /\ Within(AfterBatch, stream, l + n)
  <2> DEFINE p == NextBatch
             q == AfterBatch
             L == l
  <2>1. /\ p \in Seq(Keys) /\ Len(p) = n /\ \A i \in 1 .. n : p[i] = new_data[i]
        /\ q \in Seq(Keys) /\ Len(q) = Len(new_data) - n
        /\ \A i \in 1 .. Len(new_data) - n : q[i] = new_data[n + i]
    BY <1>5
  <2>2. /\ new_data \in Seq(Keys) /\ stream \in Seq(Keys) /\ L \in Nat /\ Within(new_data, stream, L)
    BY <1>2, <1>4
  <2> HIDE DEF p, q, L
  <2>3. Within(p, stream, L) /\ Within(q, stream, L + n)
    BY <2>1, <2>2, WithinSplit
  <2> QED BY <2>3 DEF p, q, L
<1>7. ~LimitReached(num_triggers)'
  BY <1>1, <1>2 DEF LimitReached
<1>8. CASE HandleBatchWithoutTrigger
  <2>1. /\ InformSelector(NextBatch) /\ new_data' = AfterBatch /\ pc' = "data"
        /\ UNCHANGED <<batch, previous_trigger_idx>>
    BY <1>1, <1>2, <1>8 DEF HandleBatchWithoutTrigger, batchVars
  <2>2. Len(informed') = l + n
    BY <1>5, <2>1, InformType
  <2>3. Within(informed', stream, 0)
    <3>1. 0 + l = l
      BY <1>2
    <3>2. Within(informed \o NextBatch, stream, 0)
      BY <1>2, <1>5, <1>6, <3>1, WithinJoin
    <3> QED BY <2>1, <3>2 DEF InformSelector
  <2>4. Len(informed') - previous_trigger_idx' = l + n /\ Cut' = l + n
    BY <1>2, <1>5, <2>1, <2>2 DEF Cut
  <2>5. Within(batch, stream, l + n)
    <3>1. batch = <<>>
      BY <1>1 DEF ControlInv, Stopped, Triggering
    <3>2. l + n \in 0 .. Len(stream)
      BY <1>2, <1>5, <1>6 DEF Within
    <3> QED BY <1>2, <3>1, <3>2, WithinEmpty
  <2>6. Cut' + Len(new_data') = l + m
    <3>1. Len(new_data') = m - n
      BY <1>5, <2>1
    <3> QED BY <1>2, <2>4, <3>1
  <2>7. ChainFollows'
    BY <1>1, <1>4, <1>6, <2>1, <2>4, <2>5, <2>6 DEF ChainFollows, Follows
  <2> QED BY <1>1, <1>7, <2>1, <2>3, <2>7 DEF ReplayInv, Follows
<1>9. CASE HandleBatchWithTriggers
  <2>1. /\ batch' = NextBatch /\ new_data' = AfterBatch /\ pc' = "trigger" /\ previous_trigger_idx' = 0
        /\ informed' = informed
    BY <1>1, <1>9 DEF HandleBatchWithTriggers, selectorVars
  <2>2. Len(informed') - previous_trigger_idx' = l /\ Cut' = l + n
    <3>1. Len(batch') = n /\ Len(informed') = l /\ previous_trigger_idx' = 0
      BY <1>5, <2>1
    <3>2. Cut' = Len(informed') - previous_trigger_idx' + Len(batch')
      BY DEF Cut
    <3> QED BY <1>2, <3>1, <3>2
  <2>3. Cut' + Len(new_data') = l + m
    BY <1>2, <1>5, <2>1, <2>2
  <2>4. ChainFollows'
    BY <1>1, <1>4, <1>6, <2>1, <2>2, <2>3 DEF ChainFollows, Follows
  <2> QED BY <1>1, <1>2, <1>7, <2>1, <2>4 DEF ReplayInv, Follows
<1> QED BY <1>8, <1>9

LEMMA ReplayTriggers ==
  ASSUME TypeOK, ControlInv, ReplayInv, TypeOK', config'.experiment, ~Stopped', ~Stopped,
         InformSelectorAndTrigger \/ FinishTrigger
  PROVE  ReplayInv'
<1>1. /\ config' = config /\ config.experiment /\ pc \in {"trigger", "after_trigger"}
      /\ UNCHANGED <<stream, responses, storage_errors>>
  BY DEF InformSelectorAndTrigger, FinishTrigger, storageVars
<1>2. Triggering /\ ~LimitReached(num_triggers)
  BY <1>1, ReplayParts DEF Triggering
<1> DEFINE l == Len(informed)
           q == previous_trigger_idx
           t == triggering_positions[1]
           b == Len(batch)
<1>3. /\ informed \in Seq(Keys) /\ stream \in Seq(Keys) /\ batch \in Seq(Keys)
      /\ l \in Nat /\ b \in Nat /\ Len(new_data) \in Nat /\ Len(responses) \in Nat
      /\ q \in 0 .. b /\ t \in 0 .. b /\ q <= t
      /\ Within(informed, stream, 0) /\ Len(informed) <= Len(stream) /\ Len(stream) \in Nat
  BY <1>1, <1>2, ReplayParts, TriggerParts DEF ControlInv
<1>4. /\ Within(batch, stream, l - q) /\ Within(new_data, stream, Cut)
      /\ Within(responses, stream, Cut + Len(new_data))
      /\ storage_errors = 0 => Cut + Len(new_data) + Len(responses) = Len(stream)
  BY <1>1, <1>2, ReplayParts
<1>5. CASE InformSelectorAndTrigger
  <2>1. /\ InformSelector(TriggeringData) /\ TriggeringData \in Seq(Keys)
        /\ Len(TriggeringData) = t - q /\ previous_trigger_idx' = t
        /\ \A i \in 1 .. Len(TriggeringData) : TriggeringData[i] = batch[q + i]
        /\ UNCHANGED <<batch, new_data, num_triggers>>
    BY <1>2, <1>5, TriggerParts DEF InformSelectorAndTrigger, Trigger
  <2>2. Within(TriggeringData, stream, l)
    <3>1. q \in Nat /\ q + Len(TriggeringData) <= Len(batch) /\ l - q + q = l
      BY <1>3, <2>1
    <3>2. Within(TriggeringData, stream, l - q + q)
      BY <1>3, <1>4, <2>1, <3>1, WithinPart
    <3> QED BY <3>1, <3>2
  <2>3. Len(informed') = l + (t - q)
    BY <2>1, InformType
  <2>4. Within(informed', stream, 0)
    <3>1. 0 + l = l
      BY <1>3
    <3>2. Within(informed \o TriggeringData, stream, 0)
      BY <1>3, <2>1, <2>2, <3>1, WithinJoin
    <3> QED BY <2>1, <3>2 DEF InformSelector
  <2>5. Len(informed') - previous_trigger_idx' = l - q /\ Cut' = Cut
    BY <1>3, <2>1, <2>3 DEF Cut
  <2>6. ~LimitReached(num_triggers)'
    BY <1>1, <1>2, <2>1 DEF LimitReached
  <2>7. ChainFollows'
    BY <1>1, <1>4, <2>1, <2>5 DEF ChainFollows, Follows
  <2> QED BY <1>1, <2>4, <2>6, <2>7 DEF ReplayInv, Follows
<1>6. CASE FinishTrigger
  <2> DEFINE data == IF LastOfBatch THEN RemainingData ELSE <<>>
  <2>1. q = t /\ InformSelector(data)
    BY <1>1, <1>6 DEF FinishTrigger, ControlInv, TriggerCut
  <2>2. /\ RemainingData \in Seq(Keys) /\ Len(RemainingData) = b - t
        /\ \A i \in 1 .. Len(RemainingData) : RemainingData[i] = batch[t + i]
    BY <1>2, TriggerParts
  <2>3. Within(RemainingData, stream, l)
    <3>1. t \in Nat /\ t + Len(RemainingData) <= Len(batch) /\ l - q + t = l
      BY <1>3, <2>1, <2>2
    <3>2. Within(RemainingData, stream, l - q + t)
      BY <1>3, <1>4, <2>2, <3>1, WithinPart
    <3> QED BY <3>1, <3>2
  <2>4. data \in Seq(Keys) /\ Within(data, stream, l)
    <3>1. <<>> \in Seq(Keys) /\ Within(<<>>, stream, l)
      BY <1>3, WithinEmpty
    <3> QED BY <2>2, <2>3, <3>1
  <2> HIDE DEF data
  <2>5. Len(informed') = l + Len(data)
    BY <2>1, <2>4, InformType
  <2>6. Within(informed', stream, 0)
    <3>1. 0 + l = l
      BY <1>3
    <3>2. Within(informed \o data, stream, 0)
      BY <1>3, <2>4, <3>1, WithinJoin
    <3> QED BY <2>1, <3>2 DEF InformSelector
  <2>7. LimitReached(num_triggers)' <=> LimitReached(num_triggers')
    BY <1>1 DEF LimitReached
  <2>8. CASE LimitReached(num_triggers')
    <3>1. pc' = "data" /\ new_data' = <<>>
      BY <1>6, <2>8 DEF FinishTrigger
    <3> QED BY <1>1, <2>6, <2>7, <2>8, <3>1 DEF ReplayInv, Follows
  <2>9. CASE ~LimitReached(num_triggers') /\ LastOfBatch
    <3>1. batch' = <<>> /\ previous_trigger_idx' = 0 /\ new_data' = new_data
      BY <1>6, <2>9 DEF FinishTrigger
    <3>2. Len(data) = b - t /\ Len(<<>>) = 0
      BY <2>2, <2>9 DEF data
    <3>3. Len(batch') = 0 /\ Len(informed') = l + (b - t)
      BY <2>5, <3>1, <3>2
    <3>4. Len(informed') - previous_trigger_idx' = Cut /\ Cut' = Cut /\ Cut = l + (b - t)
      BY <1>3, <2>1, <3>1, <3>3 DEF Cut
    <3>5. Within(<<>>, stream, Cut)
      <4>1. Cut \in 0 .. Len(stream)
        BY <1>3, <1>4, <3>4 DEF Within
      <4> QED BY <1>3, <4>1, WithinEmpty
    <3>6. ChainFollows'
      BY <1>1, <1>4, <3>1, <3>4, <3>5 DEF ChainFollows, Follows
    <3> QED BY <1>1, <2>6, <2>7, <2>9, <3>6 DEF ReplayInv, Follows
  <2>10. CASE ~LimitReached(num_triggers') /\ ~LastOfBatch
    <3>1. UNCHANGED <<batch, previous_trigger_idx, new_data>>
      BY <1>6, <2>10 DEF FinishTrigger
    <3>2. Len(data) = 0
      BY <2>10 DEF data
    <3>3. Len(informed') = l
      BY <1>3, <2>5, <3>2
    <3>4. Len(informed') - previous_trigger_idx' = l - q /\ Cut' = Cut
      BY <3>1, <3>3 DEF Cut
    <3>5. ChainFollows'
      BY <1>1, <1>4, <3>1, <3>4 DEF ChainFollows, Follows
    <3> QED BY <1>1, <2>6, <2>7, <2>10, <3>5 DEF ReplayInv, Follows
  <2> QED BY <2>8, <2>9, <2>10
<1> QED BY <1>5, <1>6

LEMMA ReplayStep ==
  TypeOK /\ ControlInv /\ StreamInv /\ ReplayInv /\ TypeOK' /\ [Next]_vars => ReplayInv'
<1> SUFFICES ASSUME TypeOK, ControlInv, StreamInv, ReplayInv, TypeOK', [Next]_vars,
                    config'.experiment, ~Stopped'
             PROVE  ReplayInv'
  BY DEF ReplayInv
<1> DEFINE Idle == /\ UNCHANGED <<informed, batch, new_data, responses, stream, config, num_triggers,
                                  previous_trigger_idx, storage_errors>>
                   /\ pc' = pc \/ /\ pc \notin {"data", "stream", "failed", "done"}
                                  /\ pc' \notin {"data", "stream"}
<1>1. CASE Idle
  <2>1. /\ LimitReached(num_triggers)' <=> LimitReached(num_triggers)
        /\ Cut' = Cut /\ ~Stopped /\ config.experiment
    BY <1>1 DEF LimitReached, Cut, Stopped
  <2> QED BY <1>1, <2>1 DEF ReplayInv, ChainFollows, Follows
<1>2. CASE StartTraining \/ StoreTrainedModel \/ UNCHANGED vars \/ \E t \in Times : StoreSample(t)
  <2>1. Idle
    BY <1>2 DEF StartTraining, StoreTrainedModel, StoreSample, vars, selectorVars, batchVars, storageVars
  <2> QED BY <1>1, <2>1
<1>3. CASE Fail \/ Interrupt
  BY <1>3 DEF Fail, Interrupt, Stopped
<1>4. CASE \/ ReplayData \/ FetchNewData \/ NextResponse \/ EndOfStream \/ EndOfResponse \/ StorageFails
           \/ HandleBatchWithoutTrigger \/ HandleBatchWithTriggers
           \/ InformSelectorAndTrigger \/ FinishTrigger
  <2>1. ~Stopped
    BY <1>4 DEF Stopped, ReplayData, FetchNewData, NextResponse, EndOfStream, EndOfResponse, StorageFails,
         HandleBatchWithoutTrigger, HandleBatchWithTriggers, InformSelectorAndTrigger, FinishTrigger
  <2> QED BY <1>4, <2>1, ReplayRequests, ReplayBatches, ReplayTriggers
<1> QED BY <1>2, <1>3, <1>4 DEF Next, Execute
-----------------------------------------------------------------------------
(* The order of the samples that are still to be handled.                  *)
Rest(t, s) ==
  \E n \in 0 .. Len(s) : DOMAIN t = 1 .. Len(s) - n /\ \A i \in DOMAIN t : t[i] = s[n + i]

LEMMA RestElements ==
  ASSUME NEW S, NEW s \in Seq(S), NEW t, Rest(t, s)
  PROVE  /\ \A i \in DOMAIN t : \E u \in DOMAIN s : t[i] = s[u]
         /\ \A i, j \in DOMAIN t : i <= j =>
              \E u, v \in DOMAIN s : u <= v /\ t[i] = s[u] /\ t[j] = s[v]
<1>1. PICK n \in 0 .. Len(s) : DOMAIN t = 1 .. Len(s) - n /\ \A i \in DOMAIN t : t[i] = s[n + i]
  BY DEF Rest
<1>2. Len(s) \in Nat /\ DOMAIN s = 1 .. Len(s)
  OBVIOUS
<1>3. \A i \in DOMAIN t : n + i \in DOMAIN s /\ t[i] = s[n + i] /\ i \in Nat
  BY <1>1, <1>2
<1>4. ASSUME NEW i \in DOMAIN t, NEW j \in DOMAIN t, i <= j
      PROVE  \E u, v \in DOMAIN s : u <= v /\ t[i] = s[u] /\ t[j] = s[v]
  <2>1. n + i <= n + j
    BY <1>1, <1>3, <1>4
  <2> QED BY <1>3, <2>1
<1> QED BY <1>3, <1>4

LEMMA RestOf ==
  ASSUME NEW S, NEW s \in Seq(S)
  PROVE  Rest(s, s) /\ Rest(<<>>, s)
<1>1. Len(s) \in Nat /\ DOMAIN s = 1 .. Len(s) /\ DOMAIN <<>> = {}
  OBVIOUS
<1>2. Rest(s, s)
  <2>1. 0 \in 0 .. Len(s) /\ DOMAIN s = 1 .. Len(s) - 0 /\ \A i \in DOMAIN s : 0 + i = i
    BY <1>1
  <2>2. \A i \in DOMAIN s : s[i] = s[0 + i]
    BY <2>1
  <2> QED BY <2>1, <2>2 DEF Rest
<1>3. Rest(<<>>, s)
  <2>1. Len(s) \in 0 .. Len(s) /\ 1 .. Len(s) - Len(s) = {}
    BY <1>1
  <2> QED BY <1>1, <2>1 DEF Rest
<1> QED BY <1>2, <1>3

(* The steps that bring no new samples from storage.                       *)
RequestStep == ReplayData \/ FetchNewData \/ NextResponse

LEMMA DataShrinks ==
  ASSUME TypeOK, [Next]_vars, ~Stopped', ~RequestStep
  PROVE  /\ ~Stopped /\ config' = config /\ last_timestamp' = last_timestamp
         /\ \A k \in Keys : stored'[k] = stored[k]
         /\ Rest(new_data', new_data) /\ Rest(responses', responses)
<1>1. /\ Rest(new_data, new_data) /\ Rest(<<>>, new_data)
      /\ Rest(responses, responses) /\ Rest(<<>>, responses)
  <2>1. new_data \in Seq(Keys) /\ responses \in Seq(Keys)
    BY DEF TypeOK
  <2> QED BY <2>1, RestOf
<1>2. Rest(AfterBatch, new_data)
  <2>1. PICK n \in 0 .. Len(new_data) :
           /\ AfterBatch \in Seq(Keys) /\ Len(AfterBatch) = Len(new_data) - n
           /\ \A i \in 1 .. Len(new_data) - n : AfterBatch[i] = new_data[n + i]
    BY BatchSplit
  <2>2. DOMAIN AfterBatch = 1 .. Len(new_data) - n
    BY <2>1
  <2> QED BY <2>1, <2>2 DEF Rest
<1> USE <1>1, <1>2 DEF Stopped, storageVars, pollVars
<1>3. CASE EndOfStream \/ EndOfResponse \/ StorageFails
  BY <1>3 DEF EndOfStream, EndOfResponse, StorageFails
<1>4. CASE HandleBatchWithoutTrigger \/ HandleBatchWithTriggers
  BY <1>4 DEF HandleBatchWithoutTrigger, HandleBatchWithTriggers
<1>5. CASE InformSelectorAndTrigger \/ StartTraining \/ StoreTrainedModel
  BY <1>5 DEF InformSelectorAndTrigger, StartTraining, StoreTrainedModel
<1>6. CASE FinishTrigger
  BY <1>6 DEF FinishTrigger
<1>7. CASE Fail \/ Interrupt
  BY <1>7 DEF Fail, Interrupt
<1>8. ASSUME NEW t \in Times, StoreSample(t)
      PROVE  /\ ~Stopped /\ config' = config /\ last_timestamp' = last_timestamp
             /\ \A k \in Keys : stored'[k] = stored[k]
             /\ Rest(new_data', new_data) /\ Rest(responses', responses)
  <2>1. \A k \in Keys : stored'[k] = stored[k]
    BY <1>8, StoredGrows
  <2> QED BY <1>8, <2>1 DEF StoreSample
<1>9. CASE UNCHANGED vars
  BY <1>9 DEF vars
<1> QED BY <1>3, <1>4, <1>5, <1>6, <1>7, <1>8, <1>9 DEF Next, Execute, RequestStep

LEMMA OrderInit == Init => OrderInv /\ ClockInv
<1> SUFFICES ASSUME Init PROVE OrderInv /\ ClockInv
  OBVIOUS
<1>1. DOMAIN new_data = {} /\ DOMAIN responses = {}
  BY DEF Init
<1> QED BY <1>1 DEF Init, OrderInv, ClockInv, InOrder, NoneBefore, Triggering

LEMMA OrderKept ==
  ASSUME TypeOK, OrderInv, [Next]_vars, ~Stopped', ~RequestStep
  PROVE  OrderInv'
<1>1. /\ ~Stopped /\ config' = config /\ last_timestamp' = last_timestamp
      /\ \A k \in Keys : stored'[k] = stored[k]
      /\ Rest(new_data', new_data) /\ Rest(responses', responses)
  BY DataShrinks
<1>2. new_data \in Seq(Keys) /\ responses \in Seq(Keys)
  BY DEF TypeOK
<1>3. /\ \A i \in DOMAIN new_data' : \E u \in DOMAIN new_data : new_data'[i] = new_data[u]
      /\ \A i, j \in DOMAIN new_data' : i <= j =>
           \E u, v \in DOMAIN new_data : u <= v /\ new_data'[i] = new_data[u] /\ new_data'[j] = new_data[v]
  BY <1>1, <1>2, RestElements
<1>4. /\ \A i \in DOMAIN responses' : \E u \in DOMAIN responses : responses'[i] = responses[u]
      /\ \A i, j \in DOMAIN responses' : i <= j =>
           \E u, v \in DOMAIN responses : u <= v /\ responses'[i] = responses[u] /\ responses'[j] = responses[v]
  BY <1>1, <1>2, RestElements
<1>5. /\ \A u \in DOMAIN new_data : stored'[new_data[u]] = stored[new_data[u]]
      /\ \A u \in DOMAIN responses : stored'[responses[u]] = stored[responses[u]]
  BY <1>1, <1>2
<1>6. InOrder(new_data)' /\ InOrder(responses)'
  BY <1>1, <1>3, <1>4, <1>5 DEF OrderInv, InOrder
<1>7. \A i \in DOMAIN new_data' : \A j \in DOMAIN responses' :
        stored'[new_data'[i]] <= stored'[responses'[j]]
  BY <1>1, <1>3, <1>4, <1>5 DEF OrderInv, NoneBefore
<1>8. ~config.experiment =>
        /\ \A i \in DOMAIN new_data' : stored'[new_data'[i]] <= last_timestamp
        /\ \A i \in DOMAIN responses' : last_timestamp <= stored'[responses'[i]]
  BY <1>1, <1>3, <1>4, <1>5 DEF OrderInv, NoneBefore
<1> QED BY <1>1, <1>6, <1>7, <1>8 DEF OrderInv, NoneBefore

(* What a response brings, in order.                                       *)
LEMMA ResponseInOrder ==
  ASSUME TypeOK, OrderInv, ~Stopped, NextResponse
  PROVE  /\ InOrder(new_data') /\ InOrder(responses')
         /\ \A i \in DOMAIN new_data' : \E u \in DOMAIN responses : new_data'[i] = responses[u]
         /\ \A i \in DOMAIN responses' : \E u \in DOMAIN responses : responses'[i] = responses[u]
         /\ \A i \in DOMAIN new_data' : \A j \in DOMAIN responses' :
              stored[new_data'[i]] <= stored[responses'[j]]
         /\ ~config.experiment =>
              /\ last_timestamp' \in Nat /\ last_timestamp <= last_timestamp'
              /\ \A i \in DOMAIN new_data' : stored[new_data'[i]] <= last_timestamp'
              /\ \A i \in DOMAIN responses' : last_timestamp' <= stored[responses'[i]]
<1> DEFINE data == {k \in ToSet(Response) : ~ProcessedBefore(k)}
           newest == TimestampAfter(data)
<1>1. PICK n \in 0 .. Len(responses) :
           /\ Response \in Seq(Keys) /\ Len(Response) = n
           /\ \A i \in 1 .. n : Response[i] = responses[i]
           /\ NextResponses \in Seq(Keys) /\ Len(NextResponses) = Len(responses) - n
           /\ \A i \in 1 .. Len(responses) - n : NextResponses[i] = responses[n + i]
  BY ResponseSplit
<1>2. /\ responses \in Seq(Keys) /\ Len(responses) \in Nat /\ DOMAIN responses = 1 .. Len(responses)
      /\ DOMAIN Response = 1 .. n
      /\ \A i \in 1 .. Len(responses) : responses[i] \in Keys /\ stored[responses[i]] \in Nat
  <2>1. responses \in Seq(Keys) /\ Len(responses) \in Nat /\ DOMAIN responses = 1 .. Len(responses)
    BY DEF TypeOK
  <2>2. \A i \in 1 .. Len(responses) : responses[i] \in Keys
    BY <2>1
  <2> QED BY <1>1, <2>1, <2>2, Constants
<1>3. new_data' \in Sorted(data) /\ responses' = NextResponses
  BY DEF NextResponse
<1>4. data \subseteq Keys /\ \A k \in data : \E u \in 1 .. n : k = responses[u]
  <2>1. \A k \in ToSet(Response) : k \in Keys /\ \E u \in 1 .. n : k = responses[u]
    BY <1>1, <1>2 DEF ToSet
  <2> QED BY <2>1
<1> HIDE DEF data
<1>5. /\ new_data' \in Seq(data)
      /\ \A i, j \in 1 .. Len(new_data') : i < j => SortsBefore(new_data'[i], new_data'[j])
  BY <1>3, <1>4, SortedType
<1>6. Len(new_data') \in Nat /\ DOMAIN new_data' = 1 .. Len(new_data')
      /\ \A i \in DOMAIN new_data' : new_data'[i] \in data
  BY <1>5
<1>7. DOMAIN responses' = 1 .. Len(responses) - n
  BY <1>1, <1>3
<1>8. \A i \in DOMAIN responses' : responses'[i] = responses[n + i] /\ n + i \in 1 .. Len(responses) /\ i \in Nat
  BY <1>1, <1>2, <1>3, <1>7
<1>9. \A i, j \in 1 .. Len(responses) : i <= j => stored[responses[i]] <= stored[responses[j]]
  BY <1>2 DEF OrderInv, InOrder
<1>10. InOrder(new_data')
  <2> SUFFICES ASSUME NEW i \in DOMAIN new_data', NEW j \in DOMAIN new_data', i <= j
               PROVE  stored[new_data'[i]] <= stored[new_data'[j]]
    BY DEF InOrder
  <2>1. CASE i < j
    <3>1. SortsBefore(new_data'[i], new_data'[j])
      BY <1>5, <1>6, <2>1
    <3>2. stored[new_data'[i]] \in Nat /\ stored[new_data'[j]] \in Nat
      <4>1. new_data'[i] \in Keys /\ new_data'[j] \in Keys
        BY <1>4, <1>6
      <4> QED BY <4>1, Constants
    <3> QED BY <3>1, <3>2 DEF SortsBefore, Earlier, NotLater
  <2>2. CASE i = j
    <3>1. new_data'[i] \in Keys
      BY <1>4, <1>6
    <3>2. stored[new_data'[i]] \in Nat
      BY <3>1, Constants
    <3> QED BY <2>2, <3>2
  <2> QED BY <1>6, <2>1, <2>2
<1>11. InOrder(responses')
  <2> SUFFICES ASSUME NEW i \in DOMAIN responses', NEW j \in DOMAIN responses', i <= j
               PROVE  stored[responses'[i]] <= stored[responses'[j]]
    BY DEF InOrder
  <2>1. n + i <= n + j
    BY <1>8
  <2> QED BY <1>8, <1>9, <2>1
<1>12. \A i \in DOMAIN new_data' : \E u \in 1 .. n : new_data'[i] = responses[u]
  BY <1>4, <1>6
<1>13. ASSUME NEW k \in data, NEW j \in DOMAIN responses' PROVE stored[k] <= stored[responses'[j]]
  <2>1. PICK u \in 1 .. n : k = responses[u]
    BY <1>4
  <2>2. u \in 1 .. Len(responses) /\ u <= n + j
    BY <1>2, <1>8
  <2> QED BY <1>8, <1>9, <2>1, <2>2
<1>14. ASSUME ~config.experiment
       PROVE  /\ last_timestamp' \in Nat /\ last_timestamp <= last_timestamp'
              /\ \A i \in DOMAIN new_data' : stored[new_data'[i]] <= last_timestamp'
              /\ \A i \in DOMAIN responses' : last_timestamp' <= stored[responses'[i]]
  <2>1. last_timestamp' = newest /\ last_timestamp \in Nat
    BY <1>14 DEF NextResponse, data, TypeOK
  <2>2. /\ newest \in Nat /\ \A k \in data : stored[k] <= newest
        /\ data = {} => newest = last_timestamp
        /\ data # {} => \E k \in data : newest = stored[k]
    BY <1>4, TimestampAfterIs
  <2>3. \A u \in 1 .. Len(responses) : last_timestamp <= stored[responses[u]]
    BY <1>2, <1>14 DEF OrderInv, NoneBefore
  <2>4. last_timestamp <= newest
    <3>1. \A k \in data : last_timestamp <= stored[k]
      <4> SUFFICES ASSUME NEW k \in data PROVE last_timestamp <= stored[k]
        OBVIOUS
      <4>1. PICK u \in 1 .. n : k = responses[u]
        BY <1>4
      <4> QED BY <1>2, <2>3, <4>1
    <3> QED BY <2>1, <2>2, <3>1
  <2>5. \A i \in DOMAIN responses' : newest <= stored[responses'[i]]
    BY <1>8, <1>13, <2>2, <2>3
  <2> QED BY <1>6, <2>1, <2>2, <2>4, <2>5
<1> QED BY <1>2, <1>6, <1>8, <1>10, <1>11, <1>12, <1>13, <1>14

LEMMA RequestInOrder ==
  ASSUME TypeOK, NEW S, S \subseteq Keys, NEW s \in ByTimestamp(S)
  PROVE  InOrder(s)
<1>1. /\ s \in Seq(Keys) /\ DOMAIN s = 1 .. Len(s) /\ Len(s) \in Nat
      /\ \A i, j \in DOMAIN s : i < j => stored[s[i]] <= stored[s[j]]
  BY RequestType
<1>2. \A i \in DOMAIN s : s[i] \in Keys /\ i \in Nat
  BY <1>1
<1>3. \A i \in DOMAIN s : stored[s[i]] \in Nat
  BY <1>2, Constants
<1> SUFFICES ASSUME NEW i \in DOMAIN s, NEW j \in DOMAIN s, i <= j
             PROVE  stored[s[i]] <= stored[s[j]]
  BY DEF InOrder
<1>4. CASE i < j
  BY <1>1, <1>4
<1>5. CASE i = j
  BY <1>3, <1>5
<1> QED BY <1>2, <1>4, <1>5

LEMMA OrderStep == TypeOK /\ ControlInv /\ OrderInv /\ TypeOK' /\ [Next]_vars => OrderInv'
<1> SUFFICES ASSUME TypeOK, ControlInv, OrderInv, TypeOK', [Next]_vars, ~Stopped' PROVE OrderInv'
  BY DEF OrderInv
<1>1. CASE ReplayData
  <2>1. PICK s \in ByTimestamp(ReplayInterval) : responses' = s
    BY <1>1 DEF ReplayData
  <2>2. ReplayInterval \subseteq Keys
    BY DEF ReplayInterval, InInterval
  <2>4. InOrder(s)
    BY <2>1, <2>2, RequestInOrder
  <2>5. /\ config.experiment /\ config' = config /\ stored' = stored /\ new_data = <<>> /\ new_data' = <<>>
        /\ DOMAIN <<>> = {}
    BY <1>1 DEF ReplayData, storageVars, ControlInv
  <2> QED BY <2>1, <2>4, <2>5 DEF OrderInv, InOrder, NoneBefore
<1>2. CASE FetchNewData
  <2>1. FromLastTimestamp \subseteq Keys /\ \A k \in FromLastTimestamp : last_timestamp <= stored[k]
    BY DEF FromLastTimestamp, InInterval
  <2>2. responses' \in ByTimestamp(FromLastTimestamp)
    BY <1>2 DEF FetchNewData
  <2> DEFINE s == responses'
  <2>3. s \in Seq(FromLastTimestamp) /\ DOMAIN s = 1 .. Len(s)
    BY <2>1, <2>2, RequestType
  <2>4. InOrder(s)
    BY <2>1, <2>2, RequestInOrder
  <2>5. \A i \in DOMAIN s : last_timestamp <= stored[s[i]]
    BY <2>1, <2>3
  <2>6. /\ config' = config /\ stored' = stored /\ new_data = <<>> /\ new_data' = <<>>
        /\ last_timestamp' = last_timestamp /\ DOMAIN <<>> = {}
    BY <1>2 DEF FetchNewData, storageVars, ControlInv
  <2> QED BY <2>4, <2>5, <2>6 DEF OrderInv, InOrder, NoneBefore
<1>3. CASE NextResponse
  <2>1. config' = config /\ stored' = stored /\ ~Stopped
    BY <1>3 DEF NextResponse, storageVars, Stopped
  <2> QED BY <1>3, <2>1, ResponseInOrder DEF OrderInv, InOrder, NoneBefore
<1>4. CASE ~RequestStep
  BY <1>4, OrderKept
<1> QED BY <1>1, <1>2, <1>3, <1>4 DEF RequestStep
-----------------------------------------------------------------------------
(* The clock of the time policy.                                           *)
BatchStep == HandleBatchWithoutTrigger \/ HandleBatchWithTriggers

LEMMA BatchInOrder ==
  ASSUME TypeOK, OrderInv, ~Stopped, new_data # <<>>
  PROVE  \E n \in 1 .. Len(new_data) :
           /\ NextBatch \in Seq(Keys) /\ NextBatch # <<>> /\ Len(NextBatch) = n
           /\ DOMAIN NextBatch = 1 .. n
           /\ \A i \in 1 .. n : NextBatch[i] = new_data[i]
           /\ InOrder(NextBatch)
           /\ \A i \in 1 .. n : stored[NextBatch[i]] <= stored[NextBatch[n]]
           /\ Last(NextBatch) = NextBatch[n]
           /\ DOMAIN AfterBatch = 1 .. Len(new_data) - n
           /\ \A i \in DOMAIN AfterBatch : stored[NextBatch[n]] <= stored[AfterBatch[i]]
<1>1. PICK n \in 0 .. Len(new_data) :
           /\ new_data # <<>> => n > 0
           /\ NextBatch \in Seq(Keys) /\ Len(NextBatch) = n
           /\ \A i \in 1 .. n : NextBatch[i] = new_data[i]
           /\ AfterBatch \in Seq(Keys) /\ Len(AfterBatch) = Len(new_data) - n
           /\ \A i \in 1 .. Len(new_data) - n : AfterBatch[i] = new_data[n + i]
  BY BatchSplit
<1>2. /\ n \in 1 .. Len(new_data) /\ DOMAIN NextBatch = 1 .. n /\ NextBatch # <<>>
      /\ DOMAIN AfterBatch = 1 .. Len(new_data) - n /\ Last(NextBatch) = NextBatch[n]
      /\ DOMAIN new_data = 1 .. Len(new_data) /\ Len(new_data) \in Nat
  BY <1>1 DEF TypeOK, Last
<1>3. \A i, j \in 1 .. Len(new_data) : i <= j => stored[new_data[i]] <= stored[new_data[j]]
  BY <1>2 DEF OrderInv, InOrder
<1>4. \A i, j \in 1 .. n : i <= j => stored[NextBatch[i]] <= stored[NextBatch[j]]
  BY <1>1, <1>2, <1>3
<1>5. \A i \in DOMAIN AfterBatch : stored[NextBatch[n]] <= stored[AfterBatch[i]]
  <2> SUFFICES ASSUME NEW i \in 1 .. Len(new_data) - n
               PROVE  stored[NextBatch[n]] <= stored[AfterBatch[i]]
    BY <1>2
  <2>1. n + i \in 1 .. Len(new_data) /\ n <= n + i /\ n \in 1 .. n
    BY <1>2
  <2> QED BY <1>1, <1>2, <1>3, <2>1
<1> QED BY <1>1, <1>2, <1>4, <1>5 DEF InOrder

(* The clock never gets more than one interval past the newest sample.     *)
LEMMA ClockAdvances ==
  ASSUME TypeOK, OrderInv, ClockInv, ~Stopped, config.trigger = "TimeTrigger",
         BatchStep
  PROVE  /\ next_trigger_at' = ClockStart(NextBatch) + Elapsed(NextBatch) * TriggerEvery
         /\ next_trigger_at' \in Nat \ {0}
         /\ \A n \in Nat : Len(NextBatch) = n =>
              next_trigger_at' - TriggerEvery <= stored[NextBatch[n]]
<1> DEFINE b == NextBatch
           C == ClockStart(b)
           e == Elapsed(b)
           E == TriggerEvery
<1>1. new_data # <<>> /\ PolicyStep(b)
  BY DEF BatchStep, HandleBatchWithoutTrigger, HandleBatchWithTriggers
<1>2. PICK n \in 1 .. Len(new_data) :
           /\ b \in Seq(Keys) /\ b # <<>> /\ Len(b) = n
           /\ \A i \in 1 .. n : b[i] = new_data[i]
           /\ \A i \in 1 .. n : stored[b[i]] <= stored[b[n]]
           /\ Last(b) = b[n]
  BY <1>1, BatchInOrder
<1>3. next_trigger_at' = C + e * E
  BY <1>1 DEF PolicyStep
<1>4. /\ C \in Nat \ {0} /\ e \in Nat /\ e * E \in Nat /\ E \in Nat \ {0}
      /\ b[1] \in Keys /\ Last(b) \in Keys
      /\ e # 0 => C + e * E <= stored[Last(b)] + E
  <2>1. E \in Nat \ {0}
    BY Constants
  <2> QED BY <1>2, <2>1, ElapsedIs
<1>5. stored[b[1]] \in Nat /\ stored[Last(b)] \in Nat
  BY <1>4, Constants
<1>6. C - E <= stored[b[n]]
  <2>1. CASE next_trigger_at = NotSet
    <3>1. C = stored[b[1]] + E /\ stored[b[1]] <= stored[b[n]]
      BY <1>2, <2>1 DEF ClockStart
    <3> HIDE DEF C
    <3> QED BY <1>2, <1>4, <1>5, <3>1
  <2>2. CASE next_trigger_at # NotSet
    <3>1. C = next_trigger_at
      BY <2>2 DEF ClockStart
    <3>2. \A i \in DOMAIN new_data : next_trigger_at - TriggerEvery <= stored[new_data[i]]
      BY <2>2 DEF ClockInv, NoneBefore
    <3>3. n \in DOMAIN new_data /\ n \in 1 .. n
      BY <1>2 DEF TypeOK
    <3> QED BY <1>2, <3>1, <3>2, <3>3
  <2> QED BY <2>1, <2>2
<1>7. next_trigger_at' - E <= stored[b[n]]
  <2>1. CASE e = 0
    <3>1. e * E = 0
      BY <1>4, <2>1
    <3> QED BY <1>3, <1>4, <1>6, <3>1
  <2>2. CASE e # 0
    <3> HIDE DEF C, e, E
    <3>1. stored[b[n]] \in Nat /\ C + e * E <= stored[b[n]] + E
      BY <1>2, <1>4, <1>5, <2>2
    <3> QED BY <1>3, <1>4, <3>1
  <2> QED BY <2>1, <2>2
<1> HIDE DEF C, e, E
<1>8. next_trigger_at' \in Nat \ {0}
  BY <1>3, <1>4
<1> QED BY <1>2, <1>3, <1>7, <1>8 DEF C, e, E

LEMMA ClockIdle ==
  ASSUME [Next]_vars, ~Stopped', ~BatchStep
  PROVE  /\ next_trigger_at' = next_trigger_at /\ config' = config
         /\ Triggering \/ (informed' = informed /\ ~Triggering')
         /\ pc' = "replay" => pc = "replay"
<1> USE DEF Stopped, Triggering, policyVars, selectorVars, storageVars, BatchStep
<1>1. CASE ReplayData \/ FetchNewData \/ NextResponse \/ EndOfStream \/ EndOfResponse \/ StorageFails
  BY <1>1 DEF ReplayData, FetchNewData, NextResponse, EndOfStream, EndOfResponse, StorageFails
<1>2. CASE InformSelectorAndTrigger \/ StartTraining \/ StoreTrainedModel \/ FinishTrigger
  BY <1>2 DEF InformSelectorAndTrigger, StartTraining, StoreTrainedModel, FinishTrigger, TrainOrSkip
<1>3. CASE Fail \/ Interrupt
  BY <1>3 DEF Fail, Interrupt
<1>4. CASE \E t \in Times : StoreSample(t)
  BY <1>4 DEF StoreSample
<1>5. CASE UNCHANGED vars
  BY <1>5 DEF vars
<1> QED BY <1>1, <1>2, <1>3, <1>4, <1>5 DEF Next, Execute

LEMMA ClockStep ==
  TypeOK /\ ControlInv /\ OrderInv /\ ClockInv /\ TypeOK' /\ OrderInv' /\ [Next]_vars => ClockInv'
<1> SUFFICES ASSUME TypeOK, ControlInv, OrderInv, ClockInv, TypeOK', OrderInv', [Next]_vars,
                    ~Stopped', config'.trigger = "TimeTrigger"
             PROVE  ClockInv'
  BY DEF ClockInv
<1> DEFINE low == next_trigger_at - TriggerEvery
<1>0. /\ new_data \in Seq(Keys) /\ responses \in Seq(Keys) /\ low \in Int
      /\ last_timestamp \in Nat /\ \A k \in Keys : stored[k] \in Nat
  <2>1. TriggerEvery \in Nat /\ \A k \in Keys : stored[k] \in Nat
    BY Constants
  <2>2. next_trigger_at \in Nat /\ new_data \in Seq(Keys) /\ responses \in Seq(Keys) /\ last_timestamp \in Nat
    BY DEF TypeOK
  <2> QED BY <2>1, <2>2
<1> HIDE DEF low
<1>1. CASE BatchStep
  <2>1. /\ config.trigger = "TimeTrigger" /\ ~Stopped /\ new_data # <<>> /\ config' = config
        /\ UNCHANGED <<stored, responses, last_timestamp>> /\ pc' # "replay"
        /\ new_data' = <<>> \/ new_data' = AfterBatch
    BY <1>1 DEF BatchStep, HandleBatchWithoutTrigger, HandleBatchWithTriggers, Stopped, storageVars, pollVars
  <2>2. PICK n \in 1 .. Len(new_data) :
           /\ NextBatch \in Seq(Keys) /\ Len(NextBatch) = n
           /\ \A i \in 1 .. n : NextBatch[i] = new_data[i]
           /\ \A i \in DOMAIN AfterBatch : stored[NextBatch[n]] <= stored[AfterBatch[i]]
           /\ DOMAIN AfterBatch = 1 .. Len(new_data) - n
    BY <2>1, BatchInOrder
  <2> DEFINE new == next_trigger_at' - TriggerEvery
             last == stored[NextBatch[n]]
  <2>3. /\ next_trigger_at' \in Nat \ {0} /\ new <= last
    BY <1>1, <2>1, <2>2, ClockAdvances
  <2>4. new \in Int /\ last \in Nat /\ last = stored[new_data[n]] /\ n \in DOMAIN new_data
        /\ TriggerEvery \in Nat
    <3>1. TriggerEvery \in Nat
      BY Constants
    <3>2. n \in DOMAIN new_data /\ NextBatch[n] = new_data[n] /\ NextBatch[n] \in Keys
      BY <1>0, <2>2
    <3> QED BY <1>0, <2>3, <3>1, <3>2
  <2> HIDE DEF new, last
  <2>5. \A i \in DOMAIN responses : last <= stored[responses[i]]
    BY <2>1, <2>4 DEF OrderInv, NoneBefore
  <2>6. ~config.experiment => last <= last_timestamp
    BY <2>1, <2>4 DEF OrderInv
  <2>7. \A i \in DOMAIN new_data' : last <= stored[new_data'[i]]
    <3>1. \A i \in DOMAIN AfterBatch : last <= stored[AfterBatch[i]]
      BY <2>2 DEF last
    <3>2. DOMAIN <<>> = {}
      OBVIOUS
    <3> QED BY <2>1, <3>1, <3>2
  <2>8. \A i \in DOMAIN responses : new <= stored[responses[i]]
    <3>1. \A i \in DOMAIN responses : stored[responses[i]] \in Nat
      BY <1>0
    <3> QED BY <2>3, <2>4, <2>5, <3>1
  <2>9. \A i \in DOMAIN new_data' : new <= stored[new_data'[i]]
    <3>1. \A i \in DOMAIN new_data' : stored[new_data'[i]] \in Nat
      <4>1. new_data' \in Seq(Keys) /\ Keys' = Keys
        BY <2>1 DEF TypeOK, Keys
      <4> QED BY <1>0, <4>1
    <3> QED BY <2>3, <2>4, <2>7, <3>1
  <2>10. ~config.experiment => last_timestamp >= new
    BY <1>0, <2>3, <2>4, <2>6
  <2> QED BY <2>1, <2>3, <2>8, <2>9, <2>10 DEF ClockInv, NoneBefore, NotSet, new
<1>2. CASE ~BatchStep
  <2>1. /\ next_trigger_at' = next_trigger_at /\ config' = config
        /\ Triggering \/ (informed' = informed /\ ~Triggering')
        /\ pc' = "replay" => pc = "replay"
    BY <1>2, ClockIdle
  <2>2. ~Stopped
    BY DEF Next, Execute, ReplayData, FetchNewData, NextResponse, EndOfStream, EndOfResponse,
         HandleBatchWithoutTrigger, HandleBatchWithTriggers, InformSelectorAndTrigger, StartTraining,
         StoreTrainedModel, FinishTrigger, Fail, Interrupt, StorageFails, StoreSample, vars, Stopped
  <2>3. CASE next_trigger_at = NotSet
    BY <2>1, <2>2, <2>3 DEF ClockInv
  <2>4. CASE next_trigger_at # NotSet
    <3>1. /\ \A i \in DOMAIN new_data : low <= stored[new_data[i]]
          /\ \A i \in DOMAIN responses : low <= stored[responses[i]]
          /\ ~config.experiment => last_timestamp >= low
          /\ pc # "replay"
      BY <2>1, <2>2, <2>4 DEF ClockInv, NoneBefore, low
    <3>2. /\ \A i \in DOMAIN new_data' : low <= stored'[new_data'[i]]
          /\ \A i \in DOMAIN responses' : low <= stored'[responses'[i]]
          /\ ~config.experiment => last_timestamp' >= low
      <4>1. CASE ~RequestStep
        <5>1. /\ last_timestamp' = last_timestamp
              /\ \A k \in Keys : stored'[k] = stored[k]
              /\ Rest(new_data', new_data) /\ Rest(responses', responses)
          BY <4>1, DataShrinks
        <5>2. /\ \A i \in DOMAIN new_data' : \E u \in DOMAIN new_data : new_data'[i] = new_data[u]
              /\ \A i \in DOMAIN responses' : \E u \in DOMAIN responses : responses'[i] = responses[u]
          BY <1>0, <5>1, RestElements
        <5>3. /\ \A u \in DOMAIN new_data : stored'[new_data[u]] = stored[new_data[u]]
              /\ \A u \in DOMAIN responses : stored'[responses[u]] = stored[responses[u]]
          BY <1>0, <5>1
        <5> QED BY <3>1, <5>1, <5>2, <5>3
      <4>2. CASE ReplayData
        BY <3>1, <4>2 DEF ReplayData
      <4>3. CASE FetchNewData
        <5>1. FromLastTimestamp \subseteq Keys /\ \A k \in FromLastTimestamp : last_timestamp <= stored[k]
          BY DEF FromLastTimestamp, InInterval
        <5>2. responses' \in ByTimestamp(FromLastTimestamp) /\ stored' = stored /\ new_data' = new_data
              /\ ~config.experiment /\ last_timestamp' = last_timestamp
          BY <4>3 DEF FetchNewData, storageVars, ControlInv
        <5>3. responses' \in Seq(FromLastTimestamp)
          BY <5>1, <5>2, RequestType
        <5>4. \A i \in DOMAIN responses' : last_timestamp <= stored[responses'[i]] /\ stored[responses'[i]] \in Nat
          BY <1>0, <5>1, <5>3
        <5>5. \A i \in DOMAIN responses' : low <= stored[responses'[i]]
          BY <1>0, <3>1, <5>2, <5>4
        <5> QED BY <3>1, <5>2, <5>5
      <4>4. CASE NextResponse
        <5>1. /\ \A i \in DOMAIN new_data' : \E u \in DOMAIN responses : new_data'[i] = responses[u]
              /\ \A i \in DOMAIN responses' : \E u \in DOMAIN responses : responses'[i] = responses[u]
              /\ ~config.experiment => last_timestamp' \in Nat /\ last_timestamp <= last_timestamp'
          BY <2>2, <4>4, ResponseInOrder
        <5>2. stored' = stored
          BY <4>4 DEF NextResponse, storageVars
        <5> QED BY <1>0, <3>1, <5>1, <5>2
      <4> QED BY <4>1, <4>2, <4>3, <4>4 DEF RequestStep
    <3> QED BY <2>1, <2>4, <3>1, <3>2 DEF ClockInv, NoneBefore, low
  <2> QED BY <2>3, <2>4
<1> QED BY <1>1, <1>2
-----------------------------------------------------------------------------
(* The windows of the time policy.                                         *)
LEMMA HandsType ==
  ASSUME TypeOK
  PROVE  /\ informed \in Seq(Keys) /\ Len(informed) \in Nat /\ DOMAIN informed = 1 .. Len(informed)
         /\ \A j \in 1 .. Len(informed) : informed[j] \in Keys
         /\ informed # <<>> => Len(informed) # 0 /\ informed[1] \in Keys
         /\ informed = <<>> => Len(informed) = 0
         /\ batch \in Seq(Keys) /\ Len(batch) \in Nat /\ DOMAIN batch = 1 .. Len(batch)
         /\ \A i \in 1 .. Len(batch) : batch[i] \in Keys
         /\ previous_trigger_idx \in 0 .. Len(batch) /\ num_triggers \in Nat
<1>1. /\ informed \in Seq(Keys) /\ batch \in Seq(Keys)
      /\ previous_trigger_idx \in 0 .. Len(batch) /\ num_triggers \in Nat
  BY DEF TypeOK
<1> QED BY <1>1

LEMMA WindowStarts ==
  ASSUME TypeOK, NEW o \in Nat, NEW n \in Nat
  PROVE  /\ WindowStart(o, 1) = o
         /\ WindowStart(o, n + 1) \in Nat
         /\ WindowStart(o, n + 2) \in Nat
         /\ WindowStart(o, n + 2) = WindowStart(o, n + 1) + TriggerEvery
         /\ \A k \in Nat : WindowStart(o, n + 2) + k * TriggerEvery = WindowStart(o, n + k + 2)
<1> DEFINE E == TriggerEvery
<1>1. E \in Nat
  BY Constants
<1> HIDE DEF E
<1>2. 0 * E = 0 /\ 1 * E = E /\ n * E \in Nat /\ (n + 1) * E = n * E + E /\ (n + 1) * E \in Nat
  <2>1. (n + 1) * E = n * E + 1 * E /\ n * E \in Nat
    BY <1>1, Distribute
  <2>2. 0 * E = 0 /\ 1 * E = E
    BY <1>1
  <2> QED BY <1>1, <2>1, <2>2
<1>3. WindowStart(o, 1) = o + 0 * E /\ WindowStart(o, n + 1) = o + n * E /\ WindowStart(o, n + 2) = o + (n + 1) * E
  <2>1. 1 - 1 = 0 /\ n + 1 - 1 = n /\ n + 2 - 1 = n + 1
    OBVIOUS
  <2> QED BY <2>1 DEF WindowStart, E
<1>4. ASSUME NEW k \in Nat PROVE WindowStart(o, n + 2) + k * E = WindowStart(o, n + k + 2)
  <2>1. n + k + 2 - 1 = (n + 1) + k /\ n + 1 \in Nat
    OBVIOUS
  <2>2. WindowStart(o, n + k + 2) = o + ((n + 1) + k) * E
    BY <2>1 DEF WindowStart, E
  <2>3. ((n + 1) + k) * E = (n + 1) * E + k * E /\ k * E \in Nat
    BY <1>1, <2>1, Distribute
  <2> QED BY <1>2, <1>3, <2>2, <2>3
<1> QED BY <1>1, <1>2, <1>3, <1>4 DEF E

LEMMA OriginType == TypeOK /\ (informed # <<>> \/ batch # <<>>) => Origin \in Nat
<1> SUFFICES ASSUME TypeOK, informed # <<>> \/ batch # <<>> PROVE Origin \in Nat
  OBVIOUS
<1>1. informed \in Seq(Keys) /\ batch \in Seq(Keys)
  BY DEF TypeOK
<1>2. (IF informed = <<>> THEN batch[1] ELSE informed[1]) \in Keys
  BY <1>1
<1> QED BY <1>2, Constants DEF Origin

(* The selector only hears of more samples, and storage keeps what it has. *)
Keeps ==
  /\ Len(informed) <= Len(informed')
  /\ \A i \in 1 .. Len(informed) : informed'[i] = informed[i]
  /\ \A k \in Keys : stored'[k] = stored[k]

LEMMA OriginKept ==
  ASSUME TypeOK, TypeOK', Keeps, informed # <<>>
  PROVE  informed' # <<>> /\ Origin' = Origin
<1>1. Len(informed) \in Nat \ {0} /\ informed[1] \in Keys
  BY HandsType
<1>2. Len(informed') \in Nat /\ (informed' = <<>> => Len(informed') = 0)
  <2>1. informed' \in Seq(Keys')
    BY DEF TypeOK
  <2> QED BY <2>1
<1>3. informed' # <<>> /\ informed'[1] = informed[1] /\ stored'[informed[1]] = stored[informed[1]]
  BY <1>1, <1>2 DEF Keeps
<1> QED BY <1>3 DEF Origin

LEMMA PastKept ==
  ASSUME TypeOK, TypeOK', Keeps, PastWindows, config' = config
  PROVE  \A i \in Triggers : WithinLimit(i)' =>
           /\ informed' # <<>>
           /\ \A j \in StartOf(trigger_ends, i) + 1 .. trigger_ends[i] :
                InWindow(Origin', stored'[informed'[j]], i)
<1> SUFFICES ASSUME NEW i \in Triggers, WithinLimit(i)'
             PROVE  /\ informed' # <<>>
                    /\ \A j \in StartOf(trigger_ends, i) + 1 .. trigger_ends[i] :
                         InWindow(Origin', stored'[informed'[j]], i)
  OBVIOUS
<1>1. /\ informed # <<>>
      /\ \A j \in StartOf(trigger_ends, i) + 1 .. trigger_ends[i] :
           InWindow(Origin, stored[informed[j]], i)
  BY DEF PastWindows, WithinLimit
<1>2. informed' # <<>> /\ Origin' = Origin
  BY <1>1, OriginKept
<1>3. ASSUME NEW j \in StartOf(trigger_ends, i) + 1 .. trigger_ends[i]
      PROVE  stored'[informed'[j]] = stored[informed[j]]
  <2>1. /\ trigger_ends[i] \in 0 .. Len(informed) /\ StartOf(trigger_ends, i) \in 0 .. Len(informed)
        /\ Len(informed) \in Nat
    BY CutsType
  <2>2. j \in 1 .. Len(informed)
    BY <2>1
  <2>3. informed[j] \in Keys
    BY <2>2, HandsType
  <2> QED BY <2>2, <2>3 DEF Keeps
<1> QED BY <1>1, <1>2, <1>3

LEMMA WindowInit == Init => WindowInv
<1> SUFFICES ASSUME Init PROVE WindowInv
  OBVIOUS
<1>1. Triggers = {} /\ next_trigger_at = NotSet
  BY DEF Init, Triggers
<1> QED BY <1>1 DEF WindowInv, PastWindows

(* The steps that only wait.                                               *)
LEMMA PastWaits ==
  ASSUME TypeOK, TypeOK', PastWindows, WaitStep \/ StartTraining \/ StoreTrainedModel
  PROVE  /\ UNCHANGED <<batchVars, policyVars, informed, trigger_ends, num_triggers, config>>
         /\ \A k \in Keys : stored'[k] = stored[k]
         /\ PastWindows'
<1>1. UNCHANGED <<batchVars, policyVars, informed, trigger_ends, num_triggers, config>>
  <2>1. CASE WaitStep
    BY <2>1, Waiting
  <2>2. CASE StartTraining \/ StoreTrainedModel
    BY <2>2 DEF StartTraining, StoreTrainedModel, selectorVars
  <2> QED BY <2>1, <2>2
<1>2. \A k \in Keys : stored'[k] = stored[k]
  <2>1. CASE \E t \in Times : StoreSample(t)
    BY <2>1, StoredGrows
  <2>2. CASE stored' = stored
    BY <2>2
  <2>3. stored' = stored \/ \E t \in Times : StoreSample(t)
    BY DEF WaitStep, ReplayData, FetchNewData, NextResponse, EndOfStream, EndOfResponse,
           Fail, Interrupt, StorageFails, vars, storageVars, StartTraining, StoreTrainedModel
  <2> QED BY <2>1, <2>2, <2>3
<1>3. Len(informed) \in Nat
  BY HandsType
<1>4. Keeps
  BY <1>1, <1>2, <1>3 DEF Keeps
<1>5. \A i \in Triggers : WithinLimit(i)' =>
        /\ informed' # <<>>
        /\ \A j \in StartOf(trigger_ends, i) + 1 .. trigger_ends[i] :
             InWindow(Origin', stored'[informed'[j]], i)
  BY <1>1, <1>4, PastKept
<1> QED BY <1>1, <1>2, <1>5 DEF PastWindows, Triggers

LEMMA WindowWait ==
  ASSUME TypeOK, ClockInv, WindowInv, TypeOK', config.trigger = "TimeTrigger",
         WaitStep \/ StartTraining \/ StoreTrainedModel
  PROVE  WindowInv'
<1>1. /\ UNCHANGED <<batchVars, policyVars, informed, trigger_ends, num_triggers, config>>
      /\ \A k \in Keys : stored'[k] = stored[k]
      /\ PastWindows'
  BY PastWaits DEF WindowInv
<1>2. ASSUME ~Stopped'
      PROVE  ~Stopped /\ (pc' = "trigger" <=> pc = "trigger")
  <2>1. CASE WaitStep
    <3>1. ~Stopped
      BY <1>2, <2>1 DEF WaitStep, ReplayData, FetchNewData, NextResponse, EndOfStream, EndOfResponse,
           Fail, Interrupt, StorageFails, StoreSample, vars, Stopped
    <3> QED BY <1>2, <2>1, <3>1, Waiting DEF Triggering
  <2>2. CASE StartTraining \/ StoreTrainedModel
    BY <2>2 DEF StartTraining, StoreTrainedModel, Stopped
  <2> QED BY <2>1, <2>2
<1>3. Len(informed) \in Nat /\ informed \in Seq(Keys) /\ batch \in Seq(Keys)
  BY DEF TypeOK
<1>6. ASSUME OnTrack', next_trigger_at' # NotSet PROVE CurrentWindow'
  <2>1. CurrentWindow
    <3>1. OnTrack /\ next_trigger_at # NotSet
      BY <1>1, <1>2, <1>6 DEF OnTrack, LimitReached, policyVars
    <3> QED BY <3>1 DEF WindowInv
  <2>2. Origin' = Origin
    <3>1. informed # <<>> \/ batch # <<>>
      BY <2>1 DEF CurrentWindow
    <3>2. (IF informed = <<>> THEN batch[1] ELSE informed[1]) \in Keys
      BY <1>3, <3>1
    <3> QED BY <1>1, <3>2 DEF Origin, batchVars
  <2>3. \A j \in LastEnd + 1 .. Len(informed) : stored'[informed[j]] = stored[informed[j]]
    <3>1. \A j \in LastEnd + 1 .. Len(informed) : informed[j] \in Keys
      BY <1>3, CutsType
    <3> QED BY <1>1, <3>1
  <2>4. \A i \in DOMAIN batch : stored'[batch[i]] = stored[batch[i]]
    BY <1>1, <1>3
  <2>5. \A i \in previous_trigger_idx + 1 .. Len(batch) : stored'[batch[i]] = stored[batch[i]]
    <3>1. \A i \in previous_trigger_idx + 1 .. Len(batch) : i \in DOMAIN batch
      BY HandsType
    <3> QED BY <2>4, <3>1
  <2>6. LastEnd' = LastEnd /\ UNCHANGED <<next_trigger_at, batch, triggering_positions, previous_trigger_idx>>
    BY <1>1 DEF LastEnd, batchVars, policyVars
  <2>7. pc' = "trigger" <=> pc = "trigger"
    BY <1>2, <1>6 DEF OnTrack
  <2> QED BY <1>1, <2>1, <2>2, <2>3, <2>4, <2>5, <2>6, <2>7 DEF CurrentWindow
<1> QED BY <1>1, <1>6 DEF WindowInv

(* The batch a policy is informed of starts in the current window.         *)
LEMMA BatchWindow ==
  ASSUME TypeOK, ControlInv, OrderInv, ClockInv, WindowInv, OnTrack,
         config.trigger = "TimeTrigger", BatchStep
  PROVE  \E o \in Nat :
           /\ IF next_trigger_at = NotSet
                THEN /\ informed = <<>> /\ num_triggers = 0 /\ trigger_ends = <<>>
                     /\ o = stored[NextBatch[1]]
                ELSE informed # <<>> /\ o = Origin /\ CurrentWindow
           /\ ClockStart(NextBatch) = WindowStart(o, num_triggers + 2)
           /\ \A i \in DOMAIN NextBatch : WindowStart(o, num_triggers + 1) <= stored[NextBatch[i]]
<1> DEFINE b == NextBatch
<1>1. pc = "data" /\ new_data # <<>> /\ ~Stopped /\ num_triggers \in Nat
  BY DEF BatchStep, HandleBatchWithoutTrigger, HandleBatchWithTriggers, Stopped, TypeOK
<1>2. PICK n \in 1 .. Len(new_data) :
           /\ b \in Seq(Keys) /\ b # <<>> /\ Len(b) = n /\ DOMAIN b = 1 .. n
           /\ \A i \in 1 .. n : b[i] = new_data[i]
           /\ InOrder(b)
  BY <1>1, BatchInOrder
<1>3. n \in Nat \ {0} /\ DOMAIN new_data = 1 .. Len(new_data) /\ b[1] \in Keys
  BY <1>2 DEF TypeOK
<1>4. stored[b[1]] \in Nat /\ TriggerEvery \in Nat
  BY <1>3, Constants
<1> HIDE DEF b
<1>5. CASE next_trigger_at = NotSet
  <2> DEFINE o == stored[b[1]]
  <2>1. informed = <<>>
    BY <1>1, <1>5 DEF ClockInv
  <2>2. num_triggers = 0
    <3> SUFFICES ASSUME num_triggers # 0 PROVE FALSE
      OBVIOUS
    <3>1. Len(trigger_ends) = num_triggers
      BY <1>1 DEF ControlInv, TriggerCut
    <3>2. 1 \in Triggers
      BY <1>1, <3>1 DEF Triggers
    <3>3. WithinLimit(1)
      <4>1. config.maximum_triggers \in Nat
        BY Constants
      <4> QED BY <1>1, <4>1 DEF WithinLimit, OnTrack, LimitReached
    <3> QED BY <2>1, <3>2, <3>3 DEF WindowInv, PastWindows
  <2>3. trigger_ends = <<>>
    <3>1. Len(trigger_ends) = 0
      BY <1>1, <2>2 DEF ControlInv, TriggerCut
    <3> QED BY <3>1, CutsType
  <2>4. WindowStart(o, 0 + 1) = o /\ WindowStart(o, 0 + 2) = o + TriggerEvery
    <3>1. 0 \in Nat /\ 0 + 1 = 1
      OBVIOUS
    <3>2. o \in Nat
      BY <1>4 DEF o
    <3> HIDE DEF o
    <3>3. /\ WindowStart(o, 1) = o
          /\ WindowStart(o, 0 + 2) = WindowStart(o, 0 + 1) + TriggerEvery
      BY <3>1, <3>2, WindowStarts
    <3> QED BY <3>1, <3>3
  <2>5. ClockStart(b) = o + TriggerEvery
    BY <1>5 DEF ClockStart
  <2>6. \A i \in DOMAIN b : o <= stored[b[i]]
    BY <1>2, <1>3 DEF InOrder
  <2> QED BY <1>4, <1>5, <2>1, <2>2, <2>3, <2>4, <2>5, <2>6 DEF b
<1>6. CASE next_trigger_at # NotSet
  <2>1. CurrentWindow
    BY <1>6 DEF WindowInv
  <2>2. informed # <<>> /\ triggering_positions = <<>>
    BY <1>1, <2>1 DEF CurrentWindow, ControlInv, Triggering
  <2>3. PICK o \in Nat : o = Origin
    BY <2>2, OriginType
  <2>4. next_trigger_at = WindowStart(o, num_triggers + 2)
    <3>1. Len(<<>>) = 0 /\ num_triggers + 0 + 2 = num_triggers + 2
      BY <1>1
    <3> QED BY <2>1, <2>2, <2>3, <3>1 DEF CurrentWindow
  <2>5. ClockStart(b) = next_trigger_at
    BY <1>6 DEF ClockStart
  <2>6. \A i \in DOMAIN new_data : next_trigger_at - TriggerEvery <= stored[new_data[i]]
    BY <1>1, <1>6 DEF ClockInv, NoneBefore
  <2>7. next_trigger_at - TriggerEvery = WindowStart(o, num_triggers + 1)
    <3>1. /\ WindowStart(o, num_triggers + 1) \in Nat
          /\ WindowStart(o, num_triggers + 2) = WindowStart(o, num_triggers + 1) + TriggerEvery
      BY <1>1, WindowStarts
    <3> QED BY <1>4, <2>4, <3>1
  <2>8. \A i \in DOMAIN b : WindowStart(o, num_triggers + 1) <= stored[b[i]]
    BY <1>2, <1>3, <2>6, <2>7
  <2> QED BY <1>6, <2>1, <2>2, <2>3, <2>4, <2>5, <2>8 DEF b
<1> QED BY <1>5, <1>6

(* A batch is handled: without a trigger its samples are in the current    *)
(* window, with triggers the positions are where the windows end.          *)
LEMMA WindowBatch ==
  ASSUME TypeOK, ControlInv, OrderInv, ClockInv, WindowInv, TypeOK', ~Stopped',
         config.trigger = "TimeTrigger", BatchStep
  PROVE  WindowInv'
<1> DEFINE b == NextBatch
           E == TriggerEvery
           e == Elapsed(b)
           k == num_triggers
<1>1. /\ pc = "data" /\ new_data # <<>> /\ ~Stopped
      /\ UNCHANGED <<stored, config, num_triggers, trigger_ends>>
  BY DEF BatchStep, HandleBatchWithoutTrigger, HandleBatchWithTriggers, Stopped, storageVars, selectorVars
<1>2. PICK n \in 1 .. Len(new_data) :
           /\ b \in Seq(Keys) /\ b # <<>> /\ Len(b) = n /\ DOMAIN b = 1 .. n
           /\ InOrder(b)
           /\ \A i \in 1 .. n : stored[b[i]] <= stored[b[n]]
           /\ Last(b) = b[n]
  BY <1>1, BatchInOrder
<1>3. /\ n \in Nat \ {0} /\ k \in Nat /\ E \in Nat \ {0} /\ e \in Nat /\ e * E \in Nat
      /\ \A i \in 1 .. n : b[i] \in Keys /\ stored[b[i]] \in Nat
  <2>1. n \in Nat \ {0} /\ k \in Nat /\ \A i \in 1 .. n : b[i] \in Keys
    <3>1. Len(new_data) \in Nat /\ num_triggers \in Nat
      BY DEF TypeOK
    <3> HIDE DEF b
    <3> QED BY <1>2, <3>1
  <2>2. E \in Nat \ {0} /\ e \in Nat /\ e * E \in Nat
    BY <1>2, ElapsedIs, Constants
  <2>3. \A i \in 1 .. n : stored[b[i]] \in Nat
    BY <2>1, Constants
  <2> QED BY <2>1, <2>2, <2>3
<1>4. /\ next_trigger_at' = ClockStart(b) + e * E /\ next_trigger_at' # NotSet
      /\ next_trigger_at' \in Nat
  BY <1>1, ClockAdvances DEF NotSet
<1>5. ClockStart(b) + e * E > stored[b[n]] /\ (e = 0 => stored[b[n]] < ClockStart(b))
  BY <1>2, ElapsedIs
<1>6. Len(informed) <= Len(informed') /\ \A j \in 1 .. Len(informed) : informed'[j] = informed[j]
  <2>1. CASE HandleBatchWithoutTrigger
    <3>1. Len(informed') = Len(informed) + Len(b) /\ \A j \in 1 .. Len(informed) : informed'[j] = informed[j]
      BY <1>2, <2>1, InformType DEF HandleBatchWithoutTrigger
    <3> QED BY <1>2, <1>3, <3>1, HandsType
  <2>2. CASE HandleBatchWithTriggers
    <3>1. informed' = informed
      BY <2>2 DEF HandleBatchWithTriggers, selectorVars
    <3> QED BY <3>1, HandsType
  <2> QED BY <2>1, <2>2 DEF BatchStep
<1>7. Keeps
  BY <1>1, <1>6 DEF Keeps
<1>8. PastWindows'
  <2>1. PastWindows
    BY DEF WindowInv
  <2>2. \A i \in Triggers : WithinLimit(i)' =>
           /\ informed' # <<>>
           /\ \A j \in StartOf(trigger_ends, i) + 1 .. trigger_ends[i] :
                InWindow(Origin', stored'[informed'[j]], i)
    BY <1>1, <1>7, <2>1, PastKept
  <2> QED BY <1>1, <2>2 DEF PastWindows, Triggers
<1>9. ASSUME OnTrack' PROVE CurrentWindow'
  <2>1. OnTrack
    BY <1>1, <1>9 DEF OnTrack, LimitReached
  <2>2. PICK o \in Nat :
           /\ IF next_trigger_at = NotSet
                THEN /\ informed = <<>> /\ num_triggers = 0 /\ trigger_ends = <<>>
                     /\ o = stored[b[1]]
                ELSE informed # <<>> /\ o = Origin /\ CurrentWindow
           /\ ClockStart(b) = WindowStart(o, k + 2)
           /\ \A i \in DOMAIN b : WindowStart(o, k + 1) <= stored[b[i]]
    BY <2>1, BatchWindow
  <2>3. \A m \in Nat : WindowStart(o, k + 2) + m * E = WindowStart(o, k + m + 2)
    <3> DEFINE K == k
    <3>1. K \in Nat
      BY <1>3
    <3> HIDE DEF K
    <3>2. \A m \in Nat : WindowStart(o, K + 2) + m * TriggerEvery = WindowStart(o, K + m + 2)
      BY <3>1, WindowStarts
    <3> QED BY <3>2 DEF K
  <2>4. next_trigger_at' = WindowStart(o, k + e + 2)
    BY <1>3, <1>4, <2>2, <2>3
  <2>5. CASE HandleBatchWithoutTrigger
    <3>1. /\ TimePositions(b) = <<>> /\ InformSelector(b) /\ pc' = "data"
          /\ UNCHANGED <<batch, triggering_positions, previous_trigger_idx>>
      BY <1>1, <2>5 DEF HandleBatchWithoutTrigger, TriggeringPositions, batchVars
    <3>2. e = 0
      <4>1. Len(TimePositions(b)) = e
        BY <1>2, TimePositionsAre
      <4> QED BY <3>1, <4>1
    <3>3. batch = <<>> /\ triggering_positions = <<>> /\ DOMAIN <<>> = {} /\ Len(<<>>) = 0
      BY <1>1 DEF ControlInv, Stopped, Triggering
    <3>4. /\ Len(informed') = Len(informed) + n
          /\ \A i \in 1 .. n : informed'[Len(informed) + i] = b[i]
      BY <1>2, <3>1, InformType
    <3>5. informed' # <<>> /\ Origin' = o
      <4>1. CASE informed # <<>>
        BY <1>7, <2>2, <4>1, OriginKept DEF ClockInv, NotSet
      <4>2. CASE informed = <<>>
        <5>1. next_trigger_at = NotSet
          BY <2>2, <4>2
        <5>2. informed' = <<>> \o b
          BY <3>1, <4>2 DEF InformSelector
        <5>3. informed' = b
          BY <1>2, <5>2
        <5> QED BY <1>1, <1>2, <2>2, <5>1, <5>3 DEF Origin
      <4> QED BY <4>1, <4>2
    <3>6. next_trigger_at' = WindowStart(o, k + 0 + 2)
      BY <2>4, <3>2
    <3>7. LastEnd' = LastEnd
      BY <1>1 DEF LastEnd
    <3>8. ASSUME NEW i \in 1 .. n PROVE InWindow(o, stored[b[i]], k + 1)
      <4>1. stored[b[i]] < ClockStart(b)
        <5>1. stored[b[i]] <= stored[b[n]] /\ stored[b[n]] < ClockStart(b)
          BY <1>2, <1>5, <3>2
        <5>2. ClockStart(b) \in Nat /\ stored[b[n]] \in Nat /\ stored[b[i]] \in Nat
          BY <1>2, <1>3, ElapsedIs
        <5> QED BY <5>1, <5>2
      <4>2. k + 1 + 1 = k + 2
        BY <1>3
      <4> QED BY <1>2, <2>2, <4>1, <4>2 DEF InWindow
    <3>9. ASSUME NEW j \in LastEnd + 1 .. Len(informed')
          PROVE  InWindow(o, stored[informed'[j]], k + 1)
      <4>1. Len(informed) \in Nat /\ LastEnd \in 0 .. Len(informed)
        BY CutsType
      <4>2. CASE j <= Len(informed)
        <5>1. informed # <<>>
          <6>1. Len(informed) # 0
            BY <4>1, <4>2
          <6> QED BY <6>1, HandsType
        <5>2. o = Origin /\ CurrentWindow
          BY <2>2, <5>1
        <5>3. j \in LastEnd + 1 .. Len(informed) /\ informed'[j] = informed[j]
          BY <1>6, <4>1, <4>2
        <5> QED BY <5>2, <5>3 DEF CurrentWindow
      <4>3. CASE j > Len(informed)
        <5> DEFINE i == j - Len(informed)
        <5>1. i \in 1 .. n /\ Len(informed) + i = j
          BY <1>3, <3>4, <4>1, <4>3
        <5> HIDE DEF i
        <5>2. informed'[j] = b[i]
          BY <3>4, <5>1
        <5> QED BY <3>8, <5>1, <5>2
      <4> QED BY <3>4, <4>1, <4>2, <4>3
    <3>10. /\ batch' = <<>> /\ triggering_positions' = <<>> /\ stored' = stored /\ num_triggers' = k
           /\ pc' # "trigger"
      BY <1>1, <3>1, <3>3
    <3> QED BY <3>3, <3>5, <3>6, <3>7, <3>9, <3>10 DEF CurrentWindow
  <2>6. CASE HandleBatchWithTriggers
    <3> DEFINE P == TimePositions(b)
    <3>1. /\ triggering_positions' = P /\ P # <<>> /\ batch' = b /\ pc' = "trigger"
          /\ previous_trigger_idx' = 0 /\ informed' = informed
      BY <1>1, <2>6 DEF HandleBatchWithTriggers, TriggeringPositions, selectorVars
    <3>2. /\ Len(P) = e /\ DOMAIN P = 1 .. e
          /\ \A m \in DOMAIN P : \A i \in 1 .. n :
               i <= P[m] <=> stored[b[i]] < ClockStart(b) + (m - 1) * E
      BY <1>2, TimePositionsAre
    <3> HIDE DEF P
    <3>3. Origin' = o
      <4>1. CASE informed # <<>>
        BY <1>7, <2>2, <4>1, OriginKept DEF ClockInv, NotSet
      <4>2. CASE informed = <<>>
        BY <1>1, <2>2, <3>1, <4>2 DEF Origin
      <4> QED BY <4>1, <4>2
    <3>4. LastEnd' = LastEnd
      BY <1>1 DEF LastEnd
    <3>5. ASSUME NEW m \in DOMAIN P, NEW i \in 1 .. n
          PROVE  i <= P[m] <=> stored[b[i]] < WindowStart(o, k + m + 1)
      <4>1. m - 1 \in Nat /\ k + (m - 1) + 2 = k + m + 1
        BY <1>3, <3>2
      <4>2. ClockStart(b) + (m - 1) * E = WindowStart(o, k + m + 1)
        BY <2>2, <2>3, <4>1
      <4> QED BY <3>2, <4>2
    <3>6. ASSUME NEW j \in LastEnd + 1 .. Len(informed)
          PROVE  InWindow(o, stored[informed[j]], k + 1)
      <4>1. Len(informed) \in Nat /\ LastEnd \in 0 .. Len(informed)
        BY CutsType
      <4>2. informed # <<>>
        <5>1. Len(informed) # 0
          BY <4>1
        <5> QED BY <5>1, HandsType
      <4>3. o = Origin /\ CurrentWindow
        BY <2>2, <4>2
      <4> QED BY <4>3 DEF CurrentWindow
    <3>7. ASSUME NEW i \in 1 .. n PROVE stored[b[i]] < next_trigger_at'
      <4>1. stored[b[i]] <= stored[b[n]] /\ ClockStart(b) + e * E > stored[b[n]]
        BY <1>2, <1>5
      <4>2. n \in 1 .. n
        BY <1>3
      <4>3. stored[b[i]] \in Nat /\ stored[b[n]] \in Nat /\ ClockStart(b) + e * E \in Nat
        BY <1>3, <1>4, <4>2
      <4> HIDE DEF b, e, E
      <4> QED BY <1>4, <4>1, <4>3
    <3>8. informed = <<>> => num_triggers = 0
      BY <2>2
    <3>9. /\ \A i \in 0 + 1 .. Len(batch') : WindowStart(o, k + 1) <= stored[b[i]]
      BY <1>2, <2>2, <3>1
    <3>10. next_trigger_at' = WindowStart(o, k + Len(P) + 2)
      BY <2>4, <3>2
    <3>11. DOMAIN batch' = 1 .. n /\ stored' = stored /\ num_triggers' = k /\ batch' # <<>>
      BY <1>1, <1>2, <3>1
    <3> QED BY <3>1, <3>3, <3>4, <3>5, <3>6, <3>7, <3>8, <3>9, <3>10, <3>11 DEF CurrentWindow
  <2> QED BY <2>5, <2>6 DEF BatchStep
<1> QED BY <1>8, <1>9 DEF WindowInv

(* A trigger of the time policy takes the samples of its window.           *)
LEMMA WindowTrigger ==
  ASSUME TypeOK, ControlInv, ClockInv, WindowInv, TypeOK',
         config.trigger = "TimeTrigger", InformSelectorAndTrigger
  PROVE  WindowInv'
<1> DEFINE k == num_triggers
           q == previous_trigger_idx
           p == triggering_positions[1]
<1>1. /\ pc = "trigger" /\ Triggering /\ ~Stopped /\ pc' \in {"train", "after_trigger"}
      /\ InformSelector(TriggeringData)
      /\ UNCHANGED <<stored, config, num_triggers, triggering_positions, batch, next_trigger_at>>
  BY DEF InformSelectorAndTrigger, Trigger, TrainOrSkip, Triggering, Stopped, storageVars, policyVars
<1>2. /\ p \in 0 .. Len(batch) /\ TriggeringData \in Seq(Keys) /\ Len(TriggeringData) = p - q
      /\ \A i \in 1 .. p - q : TriggeringData[i] = batch[q + i]
      /\ triggering_positions # <<>> /\ q <= p
  BY <1>1, TriggerParts DEF ControlInv
<1>3. /\ Len(informed') = Len(informed) + (p - q)
      /\ \A j \in 1 .. Len(informed) : informed'[j] = informed[j]
      /\ \A i \in 1 .. p - q : informed'[Len(informed) + i] = batch[q + i]
  BY <1>1, <1>2, InformType
<1>4. /\ Len(informed) \in Nat /\ q \in 0 .. Len(batch) /\ Len(batch) \in Nat /\ k \in Nat
      /\ LastEnd \in 0 .. Len(informed) /\ informed' \in Seq(Keys')
  <2>1. Len(informed) \in Nat /\ q \in 0 .. Len(batch) /\ Len(batch) \in Nat /\ k \in Nat
    BY HandsType
  <2>2. informed' \in Seq(Keys')
    BY DEF TypeOK
  <2> QED BY <2>1, <2>2, CutsType
<1>5. next_trigger_at # NotSet
  BY <1>1 DEF ClockInv
<1>6. DOMAIN triggering_positions = 1 .. Len(triggering_positions) /\ 1 \in DOMAIN triggering_positions
  <2>1. triggering_positions \in Seq(0 .. Len(batch))
    BY DEF TypeOK
  <2> QED BY <1>2, <2>1
<1> HIDE DEF p, q
<1>7. Keeps
  BY <1>1, <1>2, <1>3, <1>4 DEF Keeps
<1>8. ASSUME OnTrack
      PROVE  /\ CurrentWindow /\ Origin \in Nat
             /\ WindowStart(Origin, k + 1) \in Nat /\ WindowStart(Origin, k + 2) \in Nat
             /\ informed' # <<>> /\ Origin' = Origin
             /\ \A i \in q + 1 .. p : InWindow(Origin, stored[batch[i]], k + 1)
  <2>1. CurrentWindow
    BY <1>5, <1>8 DEF WindowInv
  <2>2. informed # <<>> \/ (batch # <<>> /\ q = 0 /\ k = 0)
    BY <2>1 DEF CurrentWindow, q
  <2>3. Origin \in Nat
    BY <2>2, OriginType
  <2>4. WindowStart(Origin, k + 1) \in Nat /\ WindowStart(Origin, k + 2) \in Nat
    BY <1>4, <2>3, WindowStarts
  <2>5. \A i \in 1 .. Len(batch) : i <= p <=> stored[batch[i]] < WindowStart(Origin, k + 2)
    <3>1. k + 1 + 1 = k + 2
      BY <1>4
    <3>2. \A i \in DOMAIN batch : i <= p <=> stored[batch[i]] < WindowStart(Origin, k + 1 + 1)
      BY <1>6, <2>1 DEF CurrentWindow, p
    <3> QED BY <3>1, <3>2, HandsType
  <2>6. ASSUME NEW i \in q + 1 .. p PROVE InWindow(Origin, stored[batch[i]], k + 1)
    <3>1. i \in q + 1 .. Len(batch) /\ i \in 1 .. Len(batch) /\ i <= p /\ k + 1 + 1 = k + 2
      BY <1>2, <1>4
    <3>2. WindowStart(Origin, k + 1) <= stored[batch[i]]
      BY <1>1, <2>1, <3>1 DEF CurrentWindow, q
    <3>3. stored[batch[i]] < WindowStart(Origin, k + 2)
      BY <2>5, <3>1
    <3> QED BY <3>1, <3>2, <3>3 DEF InWindow
  <2>7. informed' # <<>> /\ Origin' = Origin
    <3>1. CASE informed # <<>>
      BY <1>7, <3>1, OriginKept
    <3>2. CASE informed = <<>>
      <4>1. batch # <<>> /\ q = 0 /\ k = 0 /\ Len(informed) = 0
        BY <2>2, <3>2, HandsType
      <4>2. 1 \in 1 .. Len(batch)
        <5>1. Len(batch) # 0
          BY <4>1, HandsType
        <5> QED BY <1>4, <5>1
      <4>3. Origin = stored[batch[1]]
        BY <3>2 DEF Origin
      <4>4. stored[batch[1]] < WindowStart(Origin, k + 2)
        <5>1. /\ WindowStart(Origin, 1) = Origin
              /\ WindowStart(Origin, 0 + 2) = WindowStart(Origin, 0 + 1) + TriggerEvery
          BY <2>3, WindowStarts
        <5>2. TriggerEvery \in Nat \ {0} /\ 0 + 1 = 1
          BY Constants
        <5>3. WindowStart(Origin, 0 + 2) = Origin + TriggerEvery
          BY <5>1, <5>2
        <5>4. Origin < WindowStart(Origin, 0 + 2)
          BY <2>3, <5>2, <5>3
        <5> QED BY <4>1, <4>3, <5>4
      <4>5. 1 \in 1 .. p - q /\ Len(informed) + 1 = 1 /\ q + 1 = 1
        <5>1. 1 <= p
          BY <2>5, <4>2, <4>4
        <5> QED BY <1>2, <4>1, <5>1
      <4>6. informed'[1] = batch[1]
        BY <1>3, <4>5
      <4>7. informed' # <<>>
        <5>1. Len(informed') # 0
          BY <1>2, <1>3, <4>1, <4>5
        <5> QED BY <5>1
      <4> QED BY <1>1, <4>3, <4>6, <4>7 DEF Origin
    <3> QED BY <3>1, <3>2
  <2> QED BY <2>1, <2>3, <2>4, <2>6, <2>7
<1>9. ASSUME OnTrack, NEW j \in LastEnd + 1 .. Len(informed')
      PROVE  InWindow(Origin', stored'[informed'[j]], k + 1)
  <2>1. CASE j <= Len(informed)
    <3>1. j \in LastEnd + 1 .. Len(informed) /\ informed'[j] = informed[j]
      BY <1>3, <1>4, <2>1
    <3> QED BY <1>1, <1>8, <1>9, <3>1 DEF CurrentWindow
  <2>2. CASE j > Len(informed)
    <3> DEFINE i == j - Len(informed)
    <3>1. i \in 1 .. p - q /\ Len(informed) + i = j /\ q + i \in q + 1 .. p
      BY <1>2, <1>3, <1>4, <2>2
    <3> HIDE DEF i
    <3>2. informed'[j] = batch[q + i]
      BY <1>3, <3>1
    <3> QED BY <1>1, <1>8, <1>9, <3>1, <3>2
  <2> QED BY <1>2, <1>3, <1>4, <2>1, <2>2
<1>10. PastWindows'
  <2>1. PastWindows
    BY DEF WindowInv
  <2>2. \A i \in Triggers : WithinLimit(i)' =>
           /\ informed' # <<>>
           /\ \A j \in StartOf(trigger_ends, i) + 1 .. trigger_ends[i] :
                InWindow(Origin', stored'[informed'[j]], i)
    BY <1>1, <1>7, <2>1, PastKept
  <2>3. /\ Triggers = 1 .. k /\ Triggers' = 1 .. k + 1 /\ trigger_ends'[k + 1] = Len(informed')
        /\ StartOf(trigger_ends', k + 1) = LastEnd
        /\ \A i \in Triggers : /\ trigger_ends'[i] = trigger_ends[i]
                               /\ StartOf(trigger_ends', i) = StartOf(trigger_ends, i)
        /\ WithinLimit(k + 1) => OnTrack
    BY NewTrigger
  <2>4. \A i : WithinLimit(i)' = WithinLimit(i)
    BY <1>1 DEF WithinLimit
  <2> SUFFICES ASSUME NEW i \in 1 .. k + 1, WithinLimit(i)'
               PROVE  /\ informed' # <<>>
                      /\ \A j \in StartOf(trigger_ends', i) + 1 .. trigger_ends'[i] :
                           InWindow(Origin', stored'[informed'[j]], i)
    BY <2>3 DEF PastWindows
  <2>5. CASE i \in Triggers
    BY <2>2, <2>3, <2>5
  <2>6. CASE i = k + 1
    <3>1. OnTrack
      BY <2>3, <2>4, <2>6
    <3> QED BY <1>8, <1>9, <2>3, <2>6, <3>1
  <2> QED BY <1>4, <2>3, <2>5, <2>6
<1>11. ASSUME OnTrack' PROVE CurrentWindow'
  <2>1. OnTrack
    BY <1>1, <1>11 DEF OnTrack, LimitReached
  <2>2. CurrentWindow /\ informed' # <<>> /\ Origin' = Origin
    BY <1>8, <2>1
  <2>3. LastEnd' + 1 .. Len(informed') = {}
    <3>1. LastEnd' = Len(informed')
      BY NewTrigger
    <3>2. Len(informed') \in Nat
      BY <1>4
    <3> QED BY <3>1, <3>2
  <2>4. pc' # "trigger"
    BY <1>1
  <2> QED BY <1>1, <2>2, <2>3, <2>4 DEF CurrentWindow
<1> QED BY <1>10, <1>11 DEF WindowInv

(* The end of a trigger moves the window on; after the last of a batch the *)
(* samples left in it belong to the new window.                            *)
LEMMA WindowFinish ==
  ASSUME TypeOK, ControlInv, CutInv, WindowInv, TypeOK',
         config.trigger = "TimeTrigger", FinishTrigger
  PROVE  WindowInv'
<1> DEFINE k == num_triggers
           p == triggering_positions[1]
           P == triggering_positions
           T == Tail(P)
<1>1. /\ pc = "after_trigger" /\ Triggering /\ TriggerCut
      /\ UNCHANGED <<stored, config, trigger_ends, next_trigger_at>> /\ num_triggers' = k + 1
      /\ pc' \in {"data", "trigger"}
  BY DEF FinishTrigger, Triggering, TriggerCut, storageVars, policyVars
<1>2. /\ p \in 0 .. Len(batch) /\ P # <<>> /\ previous_trigger_idx = p /\ LastEnd = Len(informed)
      /\ RemainingData \in Seq(Keys) /\ Len(RemainingData) = Len(batch) - p
      /\ \A i \in 1 .. Len(batch) - p : RemainingData[i] = batch[p + i]
  BY <1>1, TriggerParts DEF ControlInv, CutInv
<1>3. /\ Len(P) \in Nat /\ Len(P) >= 1 /\ DOMAIN P = 1 .. Len(P)
      /\ Len(T) = Len(P) - 1 /\ DOMAIN T = 1 .. Len(P) - 1
      /\ \A i \in 1 .. Len(P) - 1 : T[i] = P[i + 1]
  <2>1. P \in Seq(0 .. Len(batch)) /\ P # <<>>
    BY <1>2 DEF TypeOK
  <2> HIDE DEF P
  <2> QED BY <2>1, PositionsAfterFirst
<1>4. /\ Len(informed) \in Nat /\ Len(batch) \in Nat /\ k \in Nat /\ DOMAIN batch = 1 .. Len(batch)
      /\ \A i \in 1 .. Len(batch) : stored[batch[i]] \in Nat
  BY HandsType, Constants
<1>5. LastEnd' = LastEnd
  BY <1>1 DEF LastEnd
<1>6. LastOfBatch <=> Len(P) = 1
  BY DEF LastOfBatch
<1> DEFINE data == IF LastOfBatch THEN RemainingData ELSE <<>>
<1>7. data \in Seq(Keys) /\ Len(data) \in Nat /\ InformSelector(data)
  BY <1>2 DEF FinishTrigger
<1>8. (~LastOfBatch => Len(data) = 0) /\ (LastOfBatch => data = RemainingData)
  OBVIOUS
<1> HIDE DEF data
<1>9. /\ Len(informed') = Len(informed) + Len(data)
      /\ \A j \in 1 .. Len(informed) : informed'[j] = informed[j]
      /\ \A i \in 1 .. Len(data) : informed'[Len(informed) + i] = data[i]
  BY <1>7, InformType
<1>10. Keeps
  BY <1>1, <1>4, <1>7, <1>9 DEF Keeps
<1>11. PastWindows'
  <2>1. PastWindows
    BY DEF WindowInv
  <2>2. \A i \in Triggers : WithinLimit(i)' =>
           /\ informed' # <<>>
           /\ \A j \in StartOf(trigger_ends, i) + 1 .. trigger_ends[i] :
                InWindow(Origin', stored'[informed'[j]], i)
    BY <1>1, <1>10, <2>1, PastKept
  <2> QED BY <1>1, <2>2 DEF PastWindows, Triggers
<1>12. ASSUME OnTrack', next_trigger_at' # NotSet PROVE CurrentWindow'
  <2>1. OnTrack /\ CurrentWindow /\ (pc' = "trigger" <=> ~LastOfBatch)
    BY <1>1, <1>12, FinishOnTrack DEF WindowInv
  <2>2. informed # <<>> /\ informed' # <<>> /\ Origin' = Origin
    BY <1>1, <1>10, <2>1, OriginKept DEF CurrentWindow
  <2>3. PICK o \in Nat : o = Origin
    BY <2>2, OriginType
  <2>4. \A n \in 1 .. Len(P) : \A i \in 1 .. Len(batch) :
          i <= P[n] <=> stored[batch[i]] < WindowStart(o, k + n + 1)
    BY <1>3, <1>4, <2>1, <2>3 DEF CurrentWindow
  <2>5. WindowStart(o, k + 2) \in Nat
    BY <1>4, <2>3, WindowStarts
  <2>6. \A i \in p + 1 .. Len(batch) : WindowStart(o, k + 2) <= stored[batch[i]]
    <3> SUFFICES ASSUME NEW i \in p + 1 .. Len(batch) PROVE WindowStart(o, k + 2) <= stored[batch[i]]
      OBVIOUS
    <3>1. 1 \in 1 .. Len(P) /\ i \in 1 .. Len(batch) /\ ~(i <= P[1]) /\ k + 1 + 1 = k + 2
      BY <1>2, <1>3, <1>4
    <3>2. ~(stored[batch[i]] < WindowStart(o, k + 1 + 1))
      BY <2>4, <3>1
    <3>3. ~(stored[batch[i]] < WindowStart(o, k + 2))
      BY <3>1, <3>2
    <3>4. stored[batch[i]] \in Nat
      BY <1>4, <3>1
    <3> QED BY <2>5, <3>3, <3>4
  <2>7. next_trigger_at = WindowStart(o, k + Len(P) + 2)
    BY <2>1, <2>3 DEF CurrentWindow
  <2>8. \A i \in 1 .. Len(batch) : stored[batch[i]] < next_trigger_at
    BY <1>4, <2>1 DEF CurrentWindow
  <2>9. CASE LastOfBatch
    <3>1. batch' = <<>> /\ triggering_positions' = <<>> /\ DOMAIN <<>> = {} /\ Len(<<>>) = 0 /\ pc' # "trigger"
      BY <2>1, <2>9 DEF FinishTrigger
    <3>2. next_trigger_at = WindowStart(o, k + 3) /\ k + 1 + 0 + 2 = k + 3
      <4>1. k + Len(P) + 2 = k + 3 /\ k + 1 + 0 + 2 = k + 3
        <5>1. Len(P) = 1 /\ k \in Nat
          BY <1>4, <1>6, <2>9
        <5> HIDE DEF P, k
        <5> QED BY <5>1
      <4> QED BY <2>7, <4>1
    <3>3. ASSUME NEW j \in LastEnd + 1 .. Len(informed')
          PROVE  InWindow(o, stored[informed'[j]], k + 1 + 1)
      <4> DEFINE i == j - Len(informed)
      <4>1. data = RemainingData /\ Len(data) = Len(batch) - p
        BY <1>2, <1>8, <2>9
      <4>2. /\ i \in 1 .. Len(batch) - p /\ Len(informed) + i = j /\ p + i \in p + 1 .. Len(batch)
            /\ p + i \in 1 .. Len(batch)
        BY <1>2, <1>4, <1>9, <4>1
      <4> HIDE DEF i
      <4>3. informed'[j] = batch[p + i]
        <5>1. informed'[Len(informed) + i] = data[i] /\ data[i] = batch[p + i]
          BY <1>2, <1>9, <4>1, <4>2
        <5> QED BY <4>2, <5>1
      <4>4. WindowStart(o, k + 2) <= stored[batch[p + i]] /\ stored[batch[p + i]] < WindowStart(o, k + 3)
        BY <2>6, <2>8, <3>2, <4>2
      <4>5. k + 1 + 1 = k + 2 /\ k + 1 + 1 + 1 = k + 3
        BY <1>4
      <4> QED BY <4>3, <4>4, <4>5 DEF InWindow
    <3>4. num_triggers' = k + 1 /\ stored' = stored /\ Origin' = o
      BY <1>1, <2>2, <2>3
    <3>5. next_trigger_at' = WindowStart(Origin', num_triggers' + Len(triggering_positions') + 2)
      <4>1. Len(triggering_positions') = 0
        BY <3>1
      <4> QED BY <1>1, <3>2, <3>4, <4>1
    <3> HIDE DEF k
    <3> QED BY <1>5, <2>2, <3>1, <3>3, <3>4, <3>5 DEF CurrentWindow
  <2>10. CASE ~LastOfBatch
    <3>1. batch' = batch /\ triggering_positions' = T /\ pc' = "trigger" /\ previous_trigger_idx' = p
      BY <1>2, <2>1, <2>10 DEF FinishTrigger
    <3>2. Len(informed') = Len(informed)
      BY <1>4, <1>8, <1>9, <2>10
    <3>3. LastEnd' + 1 .. Len(informed') = {}
      BY <1>2, <1>4, <1>5, <3>2
    <3>4. num_triggers' = k + 1 /\ stored' = stored /\ Origin' = o
      BY <1>1, <2>2, <2>3
    <3> DEFINE m == Len(P)
    <3>5. m \in Nat /\ m >= 1 /\ Len(T) = m - 1 /\ DOMAIN T = 1 .. m - 1 /\ \A n \in 1 .. m - 1 : T[n] = P[n + 1]
      BY <1>3
    <3>6. next_trigger_at = WindowStart(o, k + m + 2)
      BY <2>7
    <3>7. \A n \in 1 .. m : \A i \in 1 .. Len(batch) :
            i <= P[n] <=> stored[batch[i]] < WindowStart(o, k + n + 1)
      BY <2>4
    <3> HIDE DEF m, T, P, k
    <3>8. k \in Nat
      BY <1>4
    <3>9. next_trigger_at' = WindowStart(o, (k + 1) + Len(T) + 2)
      <4>1. (k + 1) + (m - 1) + 2 = k + m + 2
        BY <3>5, <3>8
      <4> QED BY <1>1, <3>5, <3>6, <4>1
    <3>10. ASSUME NEW n \in 1 .. m - 1, NEW i \in 1 .. Len(batch)
           PROVE  i <= T[n] <=> stored[batch[i]] < WindowStart(o, (k + 1) + n + 1)
      <4>1. n + 1 \in 1 .. m /\ k + (n + 1) + 1 = (k + 1) + n + 1
        BY <3>5, <3>8
      <4> QED BY <3>5, <3>7, <4>1
    <3>11. \A n \in DOMAIN triggering_positions' : \A i \in DOMAIN batch' :
             i <= triggering_positions'[n] <=> stored'[batch'[i]] < WindowStart(Origin', num_triggers' + n + 1)
      BY <1>4, <3>1, <3>4, <3>5, <3>10
    <3>12. \A i \in previous_trigger_idx' + 1 .. Len(batch') :
             WindowStart(Origin', num_triggers' + 1) <= stored'[batch'[i]]
      <4>1. (k + 1) + 1 = k + 2
        BY <3>8
      <4>2. WindowStart(Origin', num_triggers' + 1) = WindowStart(o, k + 2)
        BY <3>4, <4>1
      <4> QED BY <2>6, <3>1, <3>4, <4>2 DEF k
    <3>13. \A i \in DOMAIN batch' : stored'[batch'[i]] < next_trigger_at'
      BY <1>1, <1>4, <2>8, <3>1, <3>4
    <3> QED BY <2>2, <3>1, <3>3, <3>4, <3>9, <3>11, <3>12, <3>13 DEF CurrentWindow
  <2> QED BY <2>9, <2>10
<1> QED BY <1>11, <1>12 DEF WindowInv

LEMMA WindowStep ==
  /\ TypeOK /\ ControlInv /\ CutInv /\ OrderInv /\ ClockInv /\ WindowInv
  /\ TypeOK' /\ [Next]_vars
  => WindowInv'
<1> SUFFICES ASSUME TypeOK, ControlInv, CutInv, OrderInv, ClockInv, WindowInv, TypeOK', [Next]_vars,
                    config'.trigger = "TimeTrigger"
             PROVE  WindowInv'
  BY DEF WindowInv
<1>1. config.trigger = "TimeTrigger"
  BY DEF Next, Execute, ReplayData, FetchNewData, NextResponse, EndOfStream,
         HandleBatchWithoutTrigger, HandleBatchWithTriggers, EndOfResponse,
         InformSelectorAndTrigger, StartTraining, StoreTrainedModel, FinishTrigger,
         Fail, Interrupt, StorageFails, StoreSample, vars
<1>2. CASE WaitStep \/ StartTraining \/ StoreTrainedModel
  BY <1>1, <1>2, WindowWait
<1>3. CASE BatchStep
  <2>1. ~Stopped'
    BY <1>3 DEF BatchStep, HandleBatchWithoutTrigger, HandleBatchWithTriggers, Stopped
  <2> QED BY <1>1, <1>3, <2>1, WindowBatch
<1>4. CASE InformSelectorAndTrigger
  BY <1>1, <1>4, WindowTrigger
<1>5. CASE FinishTrigger
  BY <1>1, <1>5, WindowFinish
<1> QED BY <1>2, <1>3, <1>4, <1>5 DEF Next, Execute, WaitStep, BatchStep

(* In seconds since the first sample, a window is a quotient.              *)
LEMMA TimesMatch ==
  TypeOK /\ WindowInv /\ config.trigger = "TimeTrigger" => TimeTriggersMatchWindows
<1> SUFFICES ASSUME TypeOK, PastWindows, NEW i \in Triggers, WithinLimit(i),
                    NEW k \in ToSet(TriggerData(i))
             PROVE  WindowOf(k) = i
  BY DEF WindowInv, TimeTriggersMatchWindows
<1>1. PICK j \in StartOf(trigger_ends, i) + 1 .. trigger_ends[i] : k = informed[j]
  BY SamplesOfTrigger
<1>2. informed # <<>> /\ InWindow(Origin, stored[k], i)
  BY <1>1 DEF PastWindows
<1>3. PICK o \in Nat : o = Origin
  BY <1>2, OriginType
<1>4. o = stored[informed[1]]
  BY <1>2, <1>3 DEF Origin
<1>5. i \in Nat /\ i >= 1
  BY CutsType
<1>6. stored[k] \in Nat
  <2>1. trigger_ends[i] \in 0 .. Len(informed) /\ StartOf(trigger_ends, i) \in 0 .. Len(informed)
    BY CutsType
  <2>2. j \in 1 .. Len(informed)
    BY <1>1, <2>1, CutsType
  <2>3. informed[j] \in Keys
    BY <2>2, HandsType
  <2> QED BY <1>1, <2>3, Constants
<1> DEFINE E == TriggerEvery
           n == i - 1
           r == (stored[k] - o) - n * E
<1>7. E \in Nat \ {0} /\ n \in Nat /\ n * E \in Nat /\ i = n + 1
  <2>1. E \in Nat \ {0} /\ n \in Nat /\ i = n + 1
    BY <1>5, Constants
  <2> HIDE DEF E, n
  <2> QED BY <2>1
<1>8. o + n * E <= stored[k] /\ stored[k] < o + n * E + E
  <2>1. WindowStart(o, n + 1) <= stored[k] /\ stored[k] < WindowStart(o, n + 2)
    <3>1. i = n + 1 /\ i + 1 = n + 2
      BY <1>5
    <3> HIDE DEF n
    <3> QED BY <1>2, <1>3, <3>1 DEF InWindow
  <2>2. WindowStart(o, n + 2) = WindowStart(o, n + 1) + E
    BY <1>7, WindowStarts
  <2>3. WindowStart(o, n + 1) = o + n * E
    <3>1. n + 1 - 1 = n /\ WindowStart(o, n + 1) = o + (n + 1 - 1) * E
      BY <1>7 DEF WindowStart
    <3> HIDE DEF n, E
    <3> QED BY <3>1
  <2> HIDE DEF n, E
  <2> QED BY <2>1, <2>2, <2>3
<1>9. r \in 0 .. E - 1 /\ stored[k] - o = n * E + r
  <2> HIDE DEF n, E
  <2> QED BY <1>6, <1>7, <1>8
<1> HIDE DEF E, n, r
<1>10. (stored[k] - o) \div E = n
  BY <1>7, <1>9, ModOfSum
<1> QED BY <1>4, <1>7, <1>10 DEF WindowOf, E
-----------------------------------------------------------------------------
(* A replay implements SampleFeed.                                         *)
LEMMA PrefixIsWithin ==
  ASSUME NEW S, NEW s \in Seq(S), NEW t \in Seq(S), Within(s, t, 0)
  PROVE  ReplayFeed!IsPrefixOf(s, t)
<1>1. Len(s) \in Nat /\ Len(t) \in Nat /\ Len(s) <= Len(t) /\ \A i \in 1 .. Len(s) : s[i] = t[i]
  BY DEF Within
<1> DEFINE p == SubSeq(t, 1, Len(s))
<1>2. p \in Seq(S) /\ Len(p) = Len(s) /\ \A i \in 1 .. Len(s) : p[i] = t[i]
  <2>1. 1 \in Int /\ Len(s) \in Int /\ \A i \in 1 .. Len(s) : t[i] \in S
    BY <1>1
  <2>2. /\ p \in Seq(S) /\ Len(p) = IF 1 <= Len(s) THEN Len(s) - 1 + 1 ELSE 0
        /\ \A i \in 1 .. Len(s) - 1 + 1 : p[i] = t[1 + i - 1]
    BY <2>1, SubSeqProperties
  <2> HIDE DEF p
  <2>3. Len(p) = Len(s)
    BY <1>1, <2>2
  <2>4. ASSUME NEW i \in 1 .. Len(s) PROVE p[i] = t[i]
    <3>1. i \in 1 .. Len(s) - 1 + 1 /\ 1 + i - 1 = i
      BY <1>1
    <3> QED BY <2>2, <3>1
  <2> QED BY <2>2, <2>3, <2>4
<1> HIDE DEF p
<1>3. s = p
  BY <1>1, <1>2, SeqEqual
<1> QED BY <1>1, <1>3 DEF ReplayFeed!IsPrefixOf, p

LEMMA FeedInit == Init => ReplayFeed!Init
<1> SUFFICES ASSUME Init PROVE ReplayFeed!Init
  OBVIOUS
<1>1. config.maximum_triggers \in Nat
  BY BatchAssumption DEF Init
<1> QED BY <1>1 DEF Init, ReplayFeed!Init

LEMMA FeedLimit ==
  config.experiment /\ Len(trigger_ends) = num_triggers
    => (LimitReached(num_triggers) <=> ReplayFeed!AtLimit)
<1> SUFFICES ASSUME config.experiment, Len(trigger_ends) = num_triggers
             PROVE  LimitReached(num_triggers) <=> ReplayFeed!AtLimit
  OBVIOUS
<1>1. (IF config.experiment THEN trigger_ends ELSE <<>>) = trigger_ends
  OBVIOUS
<1>2. ReplayFeed!AtLimit <=> config.maximum_triggers # 0 /\ Len(trigger_ends) >= config.maximum_triggers
  BY <1>1 DEF ReplayFeed!AtLimit
<1> QED BY <1>2 DEF LimitReached, NoLimit

(* What the selector hears of in a step of a running replay.               *)
LEMMA FeedInforms ==
  ASSUME TypeOK, TypeOK', ReplayInv', ~Stopped', config'.experiment, NEW data \in Seq(Keys),
         InformSelector(data), stream' = stream, stored' = stored
  PROVE  ReplayFeed!IsPrefixOf(informed, informed') /\ ReplayFeed!IsPrefixOf(informed', stream)
<1>1. informed \in Seq(Keys) /\ informed' \in Seq(Keys) /\ stream \in Seq(Keys)
  BY InformType DEF TypeOK
<1>2. Within(informed, informed', 0)
  <2>1. /\ Len(informed') = Len(informed) + Len(data) /\ Len(informed) \in Nat /\ Len(data) \in Nat
        /\ \A i \in 1 .. Len(informed) : informed'[i] = informed[i]
    BY InformType, HandsType
  <2>2. 0 \in 0 .. Len(informed') - Len(informed) /\ \A i \in 1 .. Len(informed) : 0 + i = i
    BY <2>1
  <2> QED BY <2>1, <2>2 DEF Within
<1>3. Within(informed', stream, 0)
  BY DEF ReplayInv, Follows
<1> QED BY <1>1, <1>2, <1>3, PrefixIsWithin

LEMMA FeedStep ==
  /\ TypeOK /\ ControlInv /\ ReplayInv /\ TypeOK' /\ ControlInv' /\ ReplayInv' /\ [Next]_vars
  => [ReplayFeed!Next]_(ReplayFeed!feedVars)
<1> SUFFICES ASSUME TypeOK, ControlInv, ReplayInv, TypeOK', ControlInv', ReplayInv', [Next]_vars
             PROVE  ReplayFeed!Next \/ UNCHANGED ReplayFeed!feedVars
  OBVIOUS
<1>1. config' = config
  BY DEF Next, Execute, ReplayData, FetchNewData, NextResponse, EndOfStream,
         HandleBatchWithoutTrigger, HandleBatchWithTriggers, EndOfResponse,
         InformSelectorAndTrigger, StartTraining, StoreTrainedModel, FinishTrigger,
         Fail, Interrupt, StorageFails, StoreSample, vars
<1>2. CASE ~config.experiment
  <2>1. stream = <<>> /\ stream' = <<>>
    BY <1>1, <1>2 DEF ControlInv
  <2> QED BY <1>1, <1>2, <2>1 DEF ReplayFeed!feedVars
<1> SUFFICES ASSUME config.experiment
             PROVE  ReplayFeed!Next \/ UNCHANGED ReplayFeed!feedVars
  BY <1>2
<1> DEFINE done == pc = "done" /\ storage_errors = 0
<1>3. CASE UNCHANGED <<stream, informed, trigger_ends, done>>
  BY <1>1, <1>3 DEF ReplayFeed!feedVars
<1>4. CASE StartTraining \/ StoreTrainedModel \/ NextResponse \/ HandleBatchWithTriggers \/ EndOfResponse
           \/ FetchNewData
  <2>1. UNCHANGED <<stream, informed, trigger_ends>> /\ pc # "done" /\ pc' # "done"
    BY <1>4 DEF StartTraining, StoreTrainedModel, NextResponse, HandleBatchWithTriggers, EndOfResponse,
                FetchNewData, selectorVars
  <2> QED BY <1>3, <2>1
<1>5. CASE Fail \/ Interrupt \/ StorageFails
  <2>1. UNCHANGED <<stream, informed, trigger_ends>> /\ pc # "done" /\ pc' # "done"
    BY <1>5 DEF Fail, Interrupt, StorageFails, Stopped, selectorVars
  <2> QED BY <1>3, <2>1
<1>6. CASE UNCHANGED vars \/ \E t \in Times : StoreSample(t)
  <2>1. UNCHANGED <<stream, informed, trigger_ends, pc, storage_errors>>
    BY <1>6 DEF StoreSample, vars, selectorVars, storageVars
  <2> QED BY <1>3, <2>1
<1>7. CASE ReplayData
  <2>1. stream = <<>> /\ pc = "replay" /\ pc' = "stream" /\ UNCHANGED <<informed, trigger_ends>>
    BY <1>7 DEF ReplayData, ControlInv, selectorVars
  <2>2. informed = <<>>
    <3>1. Within(informed, <<>>, 0) /\ informed \in Seq(Keys) /\ Len(<<>>) = 0
      BY <2>1 DEF ReplayInv, Follows, Stopped, TypeOK
    <3>2. Len(informed) = 0
      BY <3>1 DEF Within
    <3> QED BY <3>1, <3>2
  <2>3. stream' \in Seq(1 .. MaxSamples)
    <3>1. stream' \in Seq(Keys') /\ Keys' \subseteq 1 .. MaxSamples
      <4>1. stored' \in Seq(Times) /\ Len(stored') <= MaxSamples /\ MaxSamples \in Nat
        BY BatchAssumption DEF TypeOK
      <4>2. Keys' \subseteq 1 .. MaxSamples
        BY <4>1 DEF Keys
      <4> QED BY <4>2 DEF TypeOK
    <3> QED BY <3>1, SeqMonotonic
  <2>4. ReplayFeed!Open
    BY <1>1, <2>1, <2>2, <2>3 DEF ReplayFeed!Open
  <2> QED BY <2>4 DEF ReplayFeed!Next
<1>8. CASE HandleBatchWithoutTrigger \/ FinishTrigger
  <2>1. /\ UNCHANGED <<stream, stored, trigger_ends>> /\ pc # "done" /\ ~Stopped'
    BY <1>8 DEF HandleBatchWithoutTrigger, FinishTrigger, storageVars, Stopped
  <2>2. PICK data \in Seq(Keys) : InformSelector(data)
    <3>1. CASE HandleBatchWithoutTrigger
      BY <3>1, BatchSplit DEF HandleBatchWithoutTrigger
    <3>2. CASE FinishTrigger
      <4>1. RemainingData \in Seq(Keys) /\ <<>> \in Seq(Keys)
        BY <3>2, TriggerParts DEF FinishTrigger, Triggering
      <4> QED BY <3>2, <4>1 DEF FinishTrigger
    <3> QED BY <1>8, <3>1, <3>2
  <2>3. ReplayFeed!IsPrefixOf(informed, informed') /\ ReplayFeed!IsPrefixOf(informed', stream)
    BY <1>1, <2>1, <2>2, FeedInforms
  <2>4. ReplayFeed!Inform
    BY <1>1, <2>1, <2>3 DEF ReplayFeed!Inform, Stopped
  <2> QED BY <2>4 DEF ReplayFeed!Next
<1>9. CASE InformSelectorAndTrigger
  <2>1. /\ UNCHANGED <<stream, stored>> /\ pc = "trigger" /\ ~Stopped' /\ ~Stopped
        /\ trigger_ends' = Append(trigger_ends, Len(informed')) /\ InformSelector(TriggeringData)
    BY <1>9 DEF InformSelectorAndTrigger, Trigger, TrainOrSkip, storageVars, Stopped
  <2>2. TriggeringData \in Seq(Keys)
    BY <2>1, TriggerParts DEF Triggering
  <2>3. ReplayFeed!IsPrefixOf(informed, informed') /\ ReplayFeed!IsPrefixOf(informed', stream)
    BY <1>1, <2>1, <2>2, FeedInforms
  <2>4. ~ReplayFeed!AtLimit
    <3>1. Len(trigger_ends) = num_triggers
      BY <2>1 DEF ControlInv, TriggerCut
    <3>2. ~LimitReached(num_triggers)
      BY <2>1, ReplayParts
    <3> QED BY <3>1, <3>2, FeedLimit
  <2>5. ReplayFeed!Trigger
    BY <1>1, <2>1, <2>3, <2>4 DEF ReplayFeed!Trigger, Stopped
  <2> QED BY <2>5 DEF ReplayFeed!Next
<1>10. CASE EndOfStream
  <2>1. /\ UNCHANGED <<stream, informed, trigger_ends, storage_errors>>
        /\ pc = "stream" /\ pc' = "done" /\ responses = <<>> /\ ~Stopped
    BY <1>10 DEF EndOfStream, storageVars, selectorVars, Stopped
  <2>2. CASE storage_errors # 0
    BY <1>3, <2>1, <2>2
  <2>3. CASE storage_errors = 0
    <3>1. Len(trigger_ends) = num_triggers /\ new_data = <<>>
      BY <2>1 DEF ControlInv, TriggerCut
    <3>2. LimitReached(num_triggers) <=> ReplayFeed!AtLimit
      BY <3>1, FeedLimit
    <3>3. ASSUME ~LimitReached(num_triggers) PROVE informed = stream
      <4>1. /\ informed \in Seq(Keys) /\ stream \in Seq(Keys) /\ Within(informed, stream, 0)
            /\ Len(informed) \in Nat /\ Len(stream) \in Nat
            /\ Cut + Len(new_data) + Len(responses) = Len(stream)
            /\ Len(batch) = 0 /\ previous_trigger_idx = 0
        BY <2>1, <2>3, <3>3, ReplayParts DEF Triggering
      <4>2. Len(new_data) = 0 /\ Len(responses) = 0
        BY <2>1, <3>1
      <4>3. Len(informed) = Len(stream)
        BY <4>1, <4>2 DEF Cut
      <4>4. \A i \in 1 .. Len(informed) : informed[i] = stream[i]
        BY <4>1 DEF Within
      <4> QED BY <4>1, <4>3, <4>4, SeqEqual
    <3>4. informed = stream \/ ReplayFeed!AtLimit
      BY <3>2, <3>3
    <3>5. ReplayFeed!Finish
      BY <1>1, <2>1, <2>3, <3>4 DEF ReplayFeed!Finish
    <3> QED BY <3>5 DEF ReplayFeed!Next
  <2> QED BY <2>2, <2>3
<1> QED BY <1>4, <1>5, <1>6, <1>7, <1>8, <1>9, <1>10 DEF Next, Execute
-----------------------------------------------------------------------------
(* The theorems.                                                           *)
LEMMA InitIInv == Init => IInv
BY TypeInit, ControlInit, CutInit, AmountInit, StreamInit, OrderInit, WindowInit DEF IInv

LEMMA NextIInv == IInv /\ [Next]_vars => IInv'
<1> SUFFICES ASSUME IInv, [Next]_vars PROVE IInv'
  OBVIOUS
<1>1. TypeOK' /\ ControlInv'
  BY TypeStep, ControlStep DEF IInv
<1>2. CutInv' /\ TrainedInv'
  BY <1>1, CutStep, TrainedStep DEF IInv
<1>3. AmountInv'
  BY <1>1, AmountStep DEF IInv
<1>4. StreamInv' /\ ReplayInv'
  BY <1>1, StreamStep, ReplayStep DEF IInv
<1>5. OrderInv'
  BY <1>1, OrderStep DEF IInv
<1>6. ClockInv'
  BY <1>1, <1>5, ClockStep DEF IInv
<1>7. WindowInv'
  BY <1>1, WindowStep DEF IInv
<1> QED BY <1>1, <1>2, <1>3, <1>4, <1>5, <1>6, <1>7 DEF IInv

LEMMA InvariantHolds == Spec => []IInv
BY InitIInv, NextIInv, PTL DEF Spec

(* The executor stays within the types TypeOK gives its variables.         *)
THEOREM TypeCorrect == Spec => []TypeOK
<1>1. IInv => TypeOK
  BY DEF IInv
<1> QED BY <1>1, InvariantHolds, PTL

(* Every trigger with samples is trained, once, in trigger order, from the *)
(* model the configuration asks for, and before the selector hears of any  *)
(* sample beyond it, whatever the responses, batches and positions are.    *)
THEOREM TrainingsFollow == Spec => []TrainingsFollowTriggers
<1>1. IInv => TrainingsFollowTriggers
  BY TriggersTrained DEF IInv
<1> QED BY <1>1, InvariantHolds, PTL

(* For every amount, interval, limit and batch size: each trigger up to    *)
(* the limit covers exactly the samples its policy asks for.               *)
THEOREM PolicyFollowed == Spec => []TriggersFollowPolicy
<1>1. IInv => TriggersFollowPolicy
  <2> SUFFICES ASSUME IInv PROVE TriggersFollowPolicy
    OBVIOUS
  <2>1. config.trigger \in {"DataAmountTrigger", "TimeTrigger"}
    BY Constants DEF IInv
  <2> QED BY <2>1, AmountsExact, TimesMatch DEF IInv, TriggersFollowPolicy
<1> QED BY <1>1, InvariantHolds, PTL

(* A replay hands every sample of its interval over once and in order, and *)
(* ends as done only when nothing is left: it implements SampleFeed.       *)
THEOREM ReplayImplementsFeed == Spec => ReplayRefinesFeed
<1>1. Init => ReplayFeed!Init
  BY FeedInit
<1>2. IInv /\ IInv' /\ [Next]_vars => [ReplayFeed!Next]_(ReplayFeed!feedVars)
  BY FeedStep DEF IInv
<1> QED BY <1>1, <1>2, InvariantHolds, PTL DEF Spec, ReplayRefinesFeed, ReplayFeed!Spec
=============================================================================
