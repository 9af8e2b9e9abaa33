---------------------- MODULE PipelineSupervisionProofs ----------------------
(***************************************************************************)
(* The safety properties of PipelineSupervision: what the validation of a  *)
(* pipeline and the messages of its executor amount to for the client, for *)
(* any configurations and any number of triggers, of datasets to evaluate  *)
(* on, of messages and of faults.  What the client was told and what waits *)
(* for it in the queues is one sequence, in which nothing comes before     *)
(* what it refers to, and in which a training only moves on.               *)
(***************************************************************************)
EXTENDS PipelineSupervision, DataLemmas

(* Messages in an order that makes sense to who reads them: what a message *)
(* needs is there, or was given by an earlier one.  Needs and gifts are    *)
(* functions of the message.                                               *)
HaveUpTo(D, msgs, gives, n) == D \cup UNION {gives[msgs[j]] : j \in 1 .. n}
Have(D, msgs, gives) == HaveUpTo(D, msgs, gives, Len(msgs))
InOrder(D, msgs, needs, gives) ==
  \A i \in 1 .. Len(msgs) : needs[msgs[i]] \subseteq HaveUpTo(D, msgs, gives, i - 1)

LEMMA InOrderOfMore ==
  ASSUME NEW D, NEW E, D \subseteq E, NEW msgs, NEW needs, NEW gives
  PROVE  /\ InOrder(D, msgs, needs, gives) => InOrder(E, msgs, needs, gives)
         /\ Have(D, msgs, gives) \subseteq Have(E, msgs, gives)
BY DEF InOrder, Have, HaveUpTo

LEMMA HaveOneMore ==
  ASSUME NEW D, NEW msgs, NEW gives, NEW n \in Nat
  PROVE  /\ HaveUpTo(D, msgs, gives, 0) = D
         /\ HaveUpTo(D, msgs, gives, n + 1) = HaveUpTo(D, msgs, gives, n) \cup gives[msgs[n + 1]]
<1>1. 1 .. 0 = {} /\ 1 .. n + 1 = (1 .. n) \cup {n + 1}
  OBVIOUS
<1>2. HaveUpTo(D, msgs, gives, 0) = D
  BY <1>1 DEF HaveUpTo
<1>3. HaveUpTo(D, msgs, gives, n + 1) = HaveUpTo(D, msgs, gives, n) \cup gives[msgs[n + 1]]
  BY <1>1 DEF HaveUpTo
<1> QED BY <1>2, <1>3

LEMMA InOrderNone ==
  ASSUME NEW D, NEW needs, NEW gives
  PROVE  InOrder(D, <<>>, needs, gives) /\ Have(D, <<>>, gives) = D
BY HaveOneMore DEF InOrder, Have

LEMMA InOrderJoined ==
  ASSUME NEW M, NEW a \in Seq(M), NEW b \in Seq(M), NEW D, NEW needs, NEW gives
  PROVE  /\ InOrder(D, a \o b, needs, gives) <=>
              InOrder(D, a, needs, gives) /\ InOrder(Have(D, a, gives), b, needs, gives)
         /\ Have(D, a \o b, gives) = Have(Have(D, a, gives), b, gives)
<1> DEFINE c == a \o b
           k == Len(a)
           l == Len(b)
<1>1. /\ k \in Nat /\ l \in Nat /\ Len(c) = k + l
      /\ \A j \in 1 .. k : c[j] = a[j]
      /\ \A j \in 1 .. l : c[k + j] = b[j] /\ k + j \in 1 .. k + l
      /\ \A j \in 1 .. k + l : j \in 1 .. k \/ (j - k \in 1 .. l /\ k + (j - k) = j)
  OBVIOUS
<1>2. ASSUME NEW n \in 0 .. k
      PROVE  HaveUpTo(D, c, gives, n) = HaveUpTo(D, a, gives, n)
  <2>1. \A j \in 1 .. n : j \in 1 .. k
    BY <1>1
  <2>2. \A j \in 1 .. n : gives[c[j]] = gives[a[j]]
    BY <1>1, <2>1
  <2> HIDE DEF c, k
  <2> QED BY <2>2 DEF HaveUpTo
<1>3. ASSUME NEW n \in 0 .. l
      PROVE  HaveUpTo(D, c, gives, k + n) = HaveUpTo(Have(D, a, gives), b, gives, n)
  <2>1. \A x : x \in HaveUpTo(D, c, gives, k + n) <=>
               \/ x \in D \/ \E j \in 1 .. k + n : x \in gives[c[j]]
    BY DEF HaveUpTo
  <2>2. \A x : x \in HaveUpTo(Have(D, a, gives), b, gives, n) <=>
               \/ x \in D \/ (\E j \in 1 .. k : x \in gives[a[j]])
               \/ \E j \in 1 .. n : x \in gives[b[j]]
    BY DEF HaveUpTo, Have
  <2>3. /\ \A j \in 1 .. k : j \in 1 .. k + n
        /\ \A j \in 1 .. n : k + j \in 1 .. k + n /\ j \in 1 .. l
        /\ \A j \in 1 .. k + n : j \in 1 .. k \/ (j - k \in 1 .. n /\ k + (j - k) = j)
    BY <1>1
  <2> HIDE DEF c, k, l
  <2>4. \A x : (\E j \in 1 .. k + n : x \in gives[c[j]]) <=>
               \/ \E j \in 1 .. k : x \in gives[a[j]]
               \/ \E j \in 1 .. n : x \in gives[b[j]]
    <3> TAKE x
    <3>1. ASSUME NEW j \in 1 .. k + n, x \in gives[c[j]]
          PROVE  \/ \E i \in 1 .. k : x \in gives[a[i]]
                 \/ \E i \in 1 .. n : x \in gives[b[i]]
      <4>1. CASE j \in 1 .. k
        BY <1>1, <3>1, <4>1
      <4>2. CASE j - k \in 1 .. n /\ k + (j - k) = j
        <5>1. c[j] = b[j - k]
          BY <1>1, <2>3, <4>2
        <5> QED BY <3>1, <4>2, <5>1
      <4> QED BY <2>3, <4>1, <4>2
    <3>2. ASSUME NEW j \in 1 .. k, x \in gives[a[j]]
          PROVE  \E i \in 1 .. k + n : x \in gives[c[i]]
      BY <1>1, <2>3, <3>2
    <3>3. ASSUME NEW j \in 1 .. n, x \in gives[b[j]]
          PROVE  \E i \in 1 .. k + n : x \in gives[c[i]]
      BY <1>1, <2>3, <3>3
    <3> QED BY <3>1, <3>2, <3>3
  <2>5. \A x : x \in HaveUpTo(D, c, gives, k + n) <=>
               x \in HaveUpTo(Have(D, a, gives), b, gives, n)
    BY <2>1, <2>2, <2>4
  <2> QED BY <2>5
<1> HIDE DEF c, k, l
<1>4. Have(D, c, gives) = Have(Have(D, a, gives), b, gives)
  <2>1. l \in 0 .. l
    BY <1>1
  <2> QED BY <1>1, <1>3, <2>1 DEF Have, l
<1>5. InOrder(D, a, needs, gives) <=>
        \A j \in 1 .. k : needs[c[j]] \subseteq HaveUpTo(D, c, gives, j - 1)
  <2>1. \A j \in 1 .. k : j - 1 \in 0 .. k
    BY <1>1
  <2> QED BY <1>1, <1>2, <2>1 DEF InOrder, k
<1>6. InOrder(Have(D, a, gives), b, needs, gives) <=>
        \A j \in 1 .. l : needs[c[k + j]] \subseteq HaveUpTo(D, c, gives, (k + j) - 1)
  <2>1. \A j \in 1 .. l : j - 1 \in 0 .. l /\ k + (j - 1) = (k + j) - 1
    BY <1>1
  <2>2. \A j \in 1 .. l :
          HaveUpTo(D, c, gives, (k + j) - 1) = HaveUpTo(Have(D, a, gives), b, gives, j - 1)
    BY <1>3, <2>1
  <2> QED BY <1>1, <2>2 DEF InOrder, l
<1>7. InOrder(D, c, needs, gives) <=>
        /\ \A j \in 1 .. k : needs[c[j]] \subseteq HaveUpTo(D, c, gives, j - 1)
        /\ \A j \in 1 .. l : needs[c[k + j]] \subseteq HaveUpTo(D, c, gives, (k + j) - 1)
  <2> DEFINE Good(j) == needs[c[j]] \subseteq HaveUpTo(D, c, gives, j - 1)
  <2>1. InOrder(D, c, needs, gives) <=> \A j \in 1 .. k + l : Good(j)
    BY <1>1 DEF InOrder
  <2>2. \A j \in 1 .. k : j \in 1 .. k + l
    BY <1>1
  <2> HIDE DEF Good
  <2>3. (\A j \in 1 .. k + l : Good(j)) <=>
          (\A j \in 1 .. k : Good(j)) /\ (\A j \in 1 .. l : Good(k + j))
    BY <1>1, <2>2
  <2> QED BY <2>1, <2>3 DEF Good
<1> QED BY <1>4, <1>5, <1>6, <1>7 DEF c

LEMMA HaveJoined ==
  ASSUME NEW M, NEW a \in Seq(M), NEW b \in Seq(M), NEW D, NEW gives
  PROVE  Have(D, a \o b, gives) = Have(Have(D, a, gives), b, gives)
<1> DEFINE needs == gives
<1>1. InOrder(D, a \o b, needs, gives) <=>
        InOrder(D, a, needs, gives) /\ InOrder(Have(D, a, gives), b, needs, gives)
  BY InOrderJoined
<1>2. Have(D, a \o b, gives) = Have(Have(D, a, gives), b, gives)
  <2> HIDE DEF needs
  <2> QED BY InOrderJoined, <1>1
<1> QED BY <1>2

LEMMA InOrderPrefix ==
  ASSUME NEW M, NEW msgs \in Seq(M), NEW n \in 0 .. Len(msgs), NEW D, NEW needs, NEW gives,
         InOrder(D, msgs, needs, gives)
  PROVE  InOrder(D, SubSeq(msgs, 1, n), needs, gives)
<1> DEFINE a == SubSeq(msgs, 1, n)
<1>1. Len(a) = n /\ n \in Nat /\ \A j \in 1 .. n : a[j] = msgs[j] /\ j \in 1 .. Len(msgs)
  OBVIOUS
<1> HIDE DEF a
<1>2. \A i \in 1 .. n : HaveUpTo(D, a, gives, i - 1) = HaveUpTo(D, msgs, gives, i - 1)
  <2> SUFFICES ASSUME NEW i \in 1 .. n
               PROVE  HaveUpTo(D, a, gives, i - 1) = HaveUpTo(D, msgs, gives, i - 1)
    OBVIOUS
  <2>1. \A j \in 1 .. i - 1 : a[j] = msgs[j]
    BY <1>1
  <2> QED BY <2>1 DEF HaveUpTo
<1>3. InOrder(D, a, needs, gives)
  BY <1>1, <1>2 DEF InOrder
<1> QED BY <1>3 DEF a
-----------------------------------------------------------------------------
(* What one answer makes of the client: a record after each message.       *)
ClientForm(c) ==
  c = [state |-> c.state, tracker |-> c.tracker, evaluations |-> c.evaluations, pbar |-> c.pbar,
       eval_err_count |-> c.eval_err_count, verdict |-> c.verdict]

TrainingMsg ==
  [action : {"create_tracker", "progress_counter", "close_counter"}, id : Nat,
   seen : SeenChoices \cup {0}, down : {0, SamplesPerTrigger \div 2, SamplesPerTrigger},
   is_training : BOOLEAN]
EvalMsg ==
  [action : {"create_tracker", "create_counter", "progress_counter", "end_counter"}, id : Nat,
   value : Int \cup BOOLEAN]
Stages ==
  {"INIT_CLUSTER_CONNECTION", "GET_SELECTOR_BATCH_SIZE", "REPLAY_DATA", "HANDLE_NEW_DATA",
   "HANDLE_TRIGGERS_WITHIN_BATCH", "INFORM_SELECTOR_AND_TRIGGER", "RUN_TRAINING",
   "WAIT_FOR_TRAINING_COMPLETION", "TRAINING_COMPLETED", "STORE_TRAINED_MODEL", "EVALUATE",
   "WAIT_FOR_EVALUATION_COMPLETION", "EVALUATION_COMPLETED", "STORE_EVALUATION_RESULTS",
   "NEW_DATA_HANDLED", "REPLAY_DATA_DONE", "DONE"}
PipelineMsg == [stage : Stages, counter : {"none", "create", "update", "close"}]

(* The monitors fold their step over the messages: there is a client after *)
(* each of them.                                                           *)
DrawnBy(f, c, msgs) ==
  /\ f[0] = c
  /\ \A i \in 1 .. Len(msgs) : f[i] = MonitorTraining(f[i - 1], msgs[i])
  /\ Monitor(MonitorTraining, c, msgs) = f[Len(msgs)]

EvaluatedBy(f, c, msgs) ==
  /\ f[0] = c
  /\ \A i \in 1 .. Len(msgs) : f[i] = MonitorEvaluation(f[i - 1], msgs[i])
  /\ Monitor(MonitorEvaluation, c, msgs) = f[Len(msgs)]

AdvancedBy(f, c, msgs) ==
  /\ f[0] = c
  /\ \A i \in 1 .. Len(msgs) : f[i] = MonitorPipeline(f[i - 1], msgs[i])
  /\ Monitor(MonitorPipeline, c, msgs) = f[Len(msgs)]

LEMMA TrainingFold ==
  ASSUME NEW c, NEW msgs, Len(msgs) \in Nat
  PROVE  \E f : DrawnBy(f, c, msgs)
<1> DEFINE L == Len(msgs)
           Def(g) == g = [i \in 0 .. L |-> IF i = 0 THEN c
                            ELSE CHOOSE next \in {MonitorTraining(d, msgs[i]) :
                                                    d \in {g[i - 1]}} : TRUE]
           f == CHOOSE g : Def(g)
           Step(d, i) == MonitorTraining(d, msgs[i])
           Fold(n, g) == g = [i \in 0 .. n |-> IF i = 0 THEN c ELSE Step(g[i - 1], i)]
           T == {n \in Nat : \E g : Fold(n, g)}
<1>1. Monitor(MonitorTraining, c, msgs) = f[L]
  BY DEF Monitor
<1>2. \A d, i : (CHOOSE next \in {MonitorTraining(e, msgs[i]) : e \in {d}} : TRUE) = Step(d, i)
  OBVIOUS
<1>3. \A g : Fold(L, g) => Def(g)
  <2> TAKE g
  <2> HAVE Fold(L, g)
  <2>1. \A i \in 0 .. L :
          (IF i = 0 THEN c ELSE Step(g[i - 1], i))
            = (IF i = 0 THEN c
               ELSE CHOOSE next \in {MonitorTraining(d, msgs[i]) : d \in {g[i - 1]}} : TRUE)
    BY <1>2
  <2> HIDE DEF Step, L
  <2> QED BY <2>1
<1>4. \A g : Def(g) => g[0] = c /\ \A i \in 1 .. L : g[i] = Step(g[i - 1], i)
  <2> TAKE g
  <2> HAVE Def(g)
  <2>1. \A i \in 0 .. L :
          g[i] = IF i = 0 THEN c
                 ELSE CHOOSE next \in {MonitorTraining(d, msgs[i]) : d \in {g[i - 1]}} : TRUE
    <3> HIDE DEF L
    <3> QED OBVIOUS
  <2>2. 0 \in 0 .. L /\ \A i \in 1 .. L : i \in 0 .. L /\ i # 0
    OBVIOUS
  <2> HIDE DEF Step, Def, L
  <2> QED BY <1>2, <2>1, <2>2
<1> HIDE DEF Step, f, Def
<1>5. 0 \in T
  <2>1. Fold(0, [i \in 0 .. 0 |-> c])
    OBVIOUS
  <2> HIDE DEF Fold
  <2> QED BY <2>1
<1>6. ASSUME NEW n \in Nat, n \in T
      PROVE  n + 1 \in T
  <2>1. PICK g : Fold(n, g)
    BY <1>6
  <2> DEFINE h == [i \in 0 .. n + 1 |-> IF i = n + 1 THEN Step(g[n], n + 1) ELSE g[i]]
  <2>2. \A i \in 0 .. n : g[i] = IF i = 0 THEN c ELSE Step(g[i - 1], i)
    BY <2>1
  <2>3. \A i \in 0 .. n + 1 : h[i] = IF i = 0 THEN c ELSE Step(h[i - 1], i)
    <3> SUFFICES ASSUME NEW i \in 0 .. n + 1
                 PROVE  h[i] = IF i = 0 THEN c ELSE Step(h[i - 1], i)
      OBVIOUS
    <3>1. CASE i = 0
      <4>1. 0 \in 0 .. n /\ 0 \in 0 .. n + 1 /\ 0 # n + 1
        OBVIOUS
      <4> QED BY <2>2, <3>1, <4>1
    <3>2. CASE i = n + 1
      <4>1. i - 1 = n /\ i # 0 /\ n \in 0 .. n + 1 /\ n # n + 1
        BY <3>2
      <4>2. h[i] = Step(g[n], n + 1) /\ h[n] = g[n]
        BY <3>2, <4>1
      <4> HIDE DEF h
      <4> QED BY <3>2, <4>1, <4>2
    <3>3. CASE i # 0 /\ i # n + 1
      <4>1. /\ i \in 0 .. n /\ i - 1 \in 0 .. n + 1 /\ i - 1 # n + 1
        BY <3>3
      <4>2. h[i] = g[i] /\ h[i - 1] = g[i - 1]
        BY <3>3, <4>1
      <4> HIDE DEF h
      <4> QED BY <2>2, <3>3, <4>1, <4>2
    <3> QED BY <3>1, <3>2, <3>3
  <2>4. h = [i \in 0 .. n + 1 |-> h[i]]
    OBVIOUS
  <2> HIDE DEF h
  <2>5. Fold(n + 1, h)
    BY <2>3, <2>4
  <2> HIDE DEF Fold
  <2> QED BY <2>5
<1>7. L \in T
  <2> HIDE DEF T
  <2>1. \A n \in Nat : n \in T => n + 1 \in T
    BY <1>6
  <2> QED BY <1>5, <2>1, NatSetInduction
<1>8. PICK g : Fold(L, g)
  <2> HIDE DEF Fold
  <2> QED BY <1>7
<1>9. Def(f)
  <2>1. Def(g)
    BY <1>3, <1>8
  <2> QED BY <2>1 DEF f
<1>10. f[0] = c /\ \A i \in 1 .. L : f[i] = MonitorTraining(f[i - 1], msgs[i])
  BY <1>4, <1>9 DEF Step
<1> HIDE DEF L
<1> QED BY <1>1, <1>10 DEF L, DrawnBy

LEMMA EvaluationFold ==
  ASSUME NEW c, NEW msgs, Len(msgs) \in Nat
  PROVE  \E f : EvaluatedBy(f, c, msgs)
<1> DEFINE L == Len(msgs)
           Def(g) == g = [i \in 0 .. L |-> IF i = 0 THEN c
                            ELSE CHOOSE next \in {MonitorEvaluation(d, msgs[i]) :
                                                    d \in {g[i - 1]}} : TRUE]
           f == CHOOSE g : Def(g)
           Step(d, i) == MonitorEvaluation(d, msgs[i])
           Fold(n, g) == g = [i \in 0 .. n |-> IF i = 0 THEN c ELSE Step(g[i - 1], i)]
           T == {n \in Nat : \E g : Fold(n, g)}
<1>1. Monitor(MonitorEvaluation, c, msgs) = f[L]
  BY DEF Monitor
<1>2. \A d, i : (CHOOSE next \in {MonitorEvaluation(e, msgs[i]) : e \in {d}} : TRUE) = Step(d, i)
  OBVIOUS
<1>3. \A g : Fold(L, g) => Def(g)
  <2> TAKE g
  <2> HAVE Fold(L, g)
  <2>1. \A i \in 0 .. L :
          (IF i = 0 THEN c ELSE Step(g[i - 1], i))
            = (IF i = 0 THEN c
               ELSE CHOOSE next \in {MonitorEvaluation(d, msgs[i]) : d \in {g[i - 1]}} : TRUE)
    BY <1>2
  <2> HIDE DEF Step, L
  <2> QED BY <2>1
<1>4. \A g : Def(g) => g[0] = c /\ \A i \in 1 .. L : g[i] = Step(g[i - 1], i)
  <2> TAKE g
  <2> HAVE Def(g)
  <2>1. \A i \in 0 .. L :
          g[i] = IF i = 0 THEN c
                 ELSE CHOOSE next \in {MonitorEvaluation(d, msgs[i]) : d \in {g[i - 1]}} : TRUE
    <3> HIDE DEF L
    <3> QED OBVIOUS
  <2>2. 0 \in 0 .. L /\ \A i \in 1 .. L : i \in 0 .. L /\ i # 0
    OBVIOUS
  <2> HIDE DEF Step, Def, L
  <2> QED BY <1>2, <2>1, <2>2
<1> HIDE DEF Step, f, Def
<1>5. 0 \in T
  <2>1. Fold(0, [i \in 0 .. 0 |-> c])
    OBVIOUS
  <2> HIDE DEF Fold
  <2> QED BY <2>1
<1>6. ASSUME NEW n \in Nat, n \in T
      PROVE  n + 1 \in T
  <2>1. PICK g : Fold(n, g)
    BY <1>6
  <2> DEFINE h == [i \in 0 .. n + 1 |-> IF i = n + 1 THEN Step(g[n], n + 1) ELSE g[i]]
  <2>2. \A i \in 0 .. n : g[i] = IF i = 0 THEN c ELSE Step(g[i - 1], i)
    BY <2>1
  <2>3. \A i \in 0 .. n + 1 : h[i] = IF i = 0 THEN c ELSE Step(h[i - 1], i)
    <3> SUFFICES ASSUME NEW i \in 0 .. n + 1
                 PROVE  h[i] = IF i = 0 THEN c ELSE Step(h[i - 1], i)
      OBVIOUS
    <3>1. CASE i = 0
      <4>1. 0 \in 0 .. n /\ 0 \in 0 .. n + 1 /\ 0 # n + 1
        OBVIOUS
      <4> QED BY <2>2, <3>1, <4>1
    <3>2. CASE i = n + 1
      <4>1. i - 1 = n /\ i # 0 /\ n \in 0 .. n + 1 /\ n # n + 1
        BY <3>2
      <4>2. h[i] = Step(g[n], n + 1) /\ h[n] = g[n]
        BY <3>2, <4>1
      <4> HIDE DEF h
      <4> QED BY <3>2, <4>1, <4>2
    <3>3. CASE i # 0 /\ i # n + 1
      <4>1. /\ i \in 0 .. n /\ i - 1 \in 0 .. n + 1 /\ i - 1 # n + 1
        BY <3>3
      <4>2. h[i] = g[i] /\ h[i - 1] = g[i - 1]
        BY <3>3, <4>1
      <4> HIDE DEF h
      <4> QED BY <2>2, <3>3, <4>1, <4>2
    <3> QED BY <3>1, <3>2, <3>3
  <2>4. h = [i \in 0 .. n + 1 |-> h[i]]
    OBVIOUS
  <2> HIDE DEF h
  <2>5. Fold(n + 1, h)
    BY <2>3, <2>4
  <2> HIDE DEF Fold
  <2> QED BY <2>5
<1>7. L \in T
  <2> HIDE DEF T
  <2>1. \A n \in Nat : n \in T => n + 1 \in T
    BY <1>6
  <2> QED BY <1>5, <2>1, NatSetInduction
<1>8. PICK g : Fold(L, g)
  <2> HIDE DEF Fold
  <2> QED BY <1>7
<1>9. Def(f)
  <2>1. Def(g)
    BY <1>3, <1>8
  <2> QED BY <2>1 DEF f
<1>10. f[0] = c /\ \A i \in 1 .. L : f[i] = MonitorEvaluation(f[i - 1], msgs[i])
  BY <1>4, <1>9 DEF Step
<1> HIDE DEF L
<1> QED BY <1>1, <1>10 DEF L, EvaluatedBy

LEMMA PipelineFold ==
  ASSUME NEW c, NEW msgs, Len(msgs) \in Nat
  PROVE  \E f : AdvancedBy(f, c, msgs)
<1> DEFINE L == Len(msgs)
           Def(g) == g = [i \in 0 .. L |-> IF i = 0 THEN c
                            ELSE CHOOSE next \in {MonitorPipeline(d, msgs[i]) :
                                                    d \in {g[i - 1]}} : TRUE]
           f == CHOOSE g : Def(g)
           Step(d, i) == MonitorPipeline(d, msgs[i])
           Fold(n, g) == g = [i \in 0 .. n |-> IF i = 0 THEN c ELSE Step(g[i - 1], i)]
           T == {n \in Nat : \E g : Fold(n, g)}
<1>1. Monitor(MonitorPipeline, c, msgs) = f[L]
  BY DEF Monitor
<1>2. \A d, i : (CHOOSE next \in {MonitorPipeline(e, msgs[i]) : e \in {d}} : TRUE) = Step(d, i)
  OBVIOUS
<1>3. \A g : Fold(L, g) => Def(g)
  <2> TAKE g
  <2> HAVE Fold(L, g)
  <2>1. \A i \in 0 .. L :
          (IF i = 0 THEN c ELSE Step(g[i - 1], i))
            = (IF i = 0 THEN c
               ELSE CHOOSE next \in {MonitorPipeline(d, msgs[i]) : d \in {g[i - 1]}} : TRUE)
    BY <1>2
  <2> HIDE DEF Step, L
  <2> QED BY <2>1
<1>4. \A g : Def(g) => g[0] = c /\ \A i \in 1 .. L : g[i] = Step(g[i - 1], i)
  <2> TAKE g
  <2> HAVE Def(g)
  <2>1. \A i \in 0 .. L :
          g[i] = IF i = 0 THEN c
                 ELSE CHOOSE next \in {MonitorPipeline(d, msgs[i]) : d \in {g[i - 1]}} : TRUE
    <3> HIDE DEF L
    <3> QED OBVIOUS
  <2>2. 0 \in 0 .. L /\ \A i \in 1 .. L : i \in 0 .. L /\ i # 0
    OBVIOUS
  <2> HIDE DEF Step, Def, L
  <2> QED BY <1>2, <2>1, <2>2
<1> HIDE DEF Step, f, Def
<1>5. 0 \in T
  <2>1. Fold(0, [i \in 0 .. 0 |-> c])
    OBVIOUS
  <2> HIDE DEF Fold
  <2> QED BY <2>1
<1>6. ASSUME NEW n \in Nat, n \in T
      PROVE  n + 1 \in T
  <2>1. PICK g : Fold(n, g)
    BY <1>6
  <2> DEFINE h == [i \in 0 .. n + 1 |-> IF i = n + 1 THEN Step(g[n], n + 1) ELSE g[i]]
  <2>2. \A i \in 0 .. n : g[i] = IF i = 0 THEN c ELSE Step(g[i - 1], i)
    BY <2>1
  <2>3. \A i \in 0 .. n + 1 : h[i] = IF i = 0 THEN c ELSE Step(h[i - 1], i)
    <3> SUFFICES ASSUME NEW i \in 0 .. n + 1
                 PROVE  h[i] = IF i = 0 THEN c ELSE Step(h[i - 1], i)
      OBVIOUS
    <3>1. CASE i = 0
      <4>1. 0 \in 0 .. n /\ 0 \in 0 .. n + 1 /\ 0 # n + 1
        OBVIOUS
      <4> QED BY <2>2, <3>1, <4>1
    <3>2. CASE i = n + 1
      <4>1. i - 1 = n /\ i # 0 /\ n \in 0 .. n + 1 /\ n # n + 1
        BY <3>2
      <4>2. h[i] = Step(g[n], n + 1) /\ h[n] = g[n]
        BY <3>2, <4>1
      <4> HIDE DEF h
      <4> QED BY <3>2, <4>1, <4>2
    <3>3. CASE i # 0 /\ i # n + 1
      <4>1. /\ i \in 0 .. n /\ i - 1 \in 0 .. n + 1 /\ i - 1 # n + 1
        BY <3>3
      <4>2. h[i] = g[i] /\ h[i - 1] = g[i - 1]
        BY <3>3, <4>1
      <4> HIDE DEF h
      <4> QED BY <2>2, <3>3, <4>1, <4>2
    <3> QED BY <3>1, <3>2, <3>3
  <2>4. h = [i \in 0 .. n + 1 |-> h[i]]
    OBVIOUS
  <2> HIDE DEF h
  <2>5. Fold(n + 1, h)
    BY <2>3, <2>4
  <2> HIDE DEF Fold
  <2> QED BY <2>5
<1>7. L \in T
  <2> HIDE DEF T
  <2>1. \A n \in Nat : n \in T => n + 1 \in T
    BY <1>6
  <2> QED BY <1>5, <2>1, NatSetInduction
<1>8. PICK g : Fold(L, g)
  <2> HIDE DEF Fold
  <2> QED BY <1>7
<1>9. Def(f)
  <2>1. Def(g)
    BY <1>3, <1>8
  <2> QED BY <2>1 DEF f
<1>10. f[0] = c /\ \A i \in 1 .. L : f[i] = MonitorPipeline(f[i - 1], msgs[i])
  BY <1>4, <1>9 DEF Step
<1> HIDE DEF L
<1> QED BY <1>1, <1>10 DEF L, AdvancedBy
-----------------------------------------------------------------------------
(* The bar of the pipeline and the trackers of its evaluations as what     *)
(* messages need and give.                                                 *)
BarNeeds == [m \in PipelineMsg |-> IF m.counter \in {"update", "close"} THEN {"bar"} ELSE {}]
BarGives == [m \in PipelineMsg |-> IF m.counter = "create" THEN {"bar"} ELSE {}]
TrackerNeeds == [m \in EvalMsg |-> IF m.action = "create_tracker" THEN {} ELSE {m.id}]
TrackerGives == [m \in EvalMsg |-> IF m.action = "create_tracker" THEN {m.id} ELSE {}]
Bar(c) == IF c.pbar THEN {"bar"} ELSE {}

LEMMA TrainingMonitored ==
  ASSUME NEW c, ClientForm(c), NEW msgs \in Seq(TrainingMsg)
  PROVE  LET d == Monitor(MonitorTraining, c, msgs)
         IN /\ ClientForm(d) /\ d.evaluations = c.evaluations /\ d.pbar = c.pbar
            /\ d.eval_err_count = c.eval_err_count /\ d.verdict = c.verdict
            /\ d.state = c.state \/ (c.state = "polling" /\ d.state = "hung")
<1> DEFINE L == Len(msgs)
           Kept(d) == /\ ClientForm(d) /\ d.evaluations = c.evaluations /\ d.pbar = c.pbar
                      /\ d.eval_err_count = c.eval_err_count /\ d.verdict = c.verdict
                      /\ d.state = c.state \/ (c.state = "polling" /\ d.state = "hung")
<1>1. L \in Nat
  OBVIOUS
<1>0. PICK f : DrawnBy(f, c, msgs)
  BY <1>1, TrainingFold
<1>2. /\ f[0] = c
      /\ \A i \in 1 .. L : f[i] = MonitorTraining(f[i - 1], msgs[i])
      /\ Monitor(MonitorTraining, c, msgs) = f[L]
  BY <1>0 DEF DrawnBy
<1>3. ASSUME NEW d, Kept(d), NEW msg
      PROVE  Kept(MonitorTraining(d, msg))
  <2> DEFINE t == CASE msg.action = "create_tracker" ->
                         TrainingTracker(msg.id, SamplesPerTrigger, StatusBarScale)
                    [] msg.action = "progress_counter" ->
                         ProgressCounter(d.tracker, msg.seen, msg.down, msg.is_training)
                    [] msg.action = "close_counter" -> CloseCounter(d.tracker)
  <2>1. MonitorTraining(d, msg) =
          IF d.state # "polling" THEN d
          ELSE [d EXCEPT !.tracker = t, !.state = IF t.hung THEN "hung" ELSE @]
    BY DEF MonitorTraining
  <2> HIDE DEF t
  <2>2. CASE d.state # "polling"
    BY <1>3, <2>1, <2>2
  <2>3. CASE d.state = "polling"
    <3> DEFINE e == [d EXCEPT !.tracker = t, !.state = IF t.hung THEN "hung" ELSE @]
    <3>1. MonitorTraining(d, msg) = e
      BY <2>1, <2>3
    <3> DEFINE s == IF t.hung THEN "hung" ELSE d.state
    <3>2. e = [d EXCEPT !.tracker = t, !.state = s] /\ s \in {"hung", "polling"}
      BY <2>3
    <3> HIDE DEF e, s
    <3>3. e = [state |-> s, tracker |-> t, evaluations |-> d.evaluations, pbar |-> d.pbar,
               eval_err_count |-> d.eval_err_count, verdict |-> d.verdict]
      BY <1>3, <3>2 DEF ClientForm
    <3>4. Kept(e)
      BY <1>3, <2>3, <3>2, <3>3 DEF ClientForm
    <3> QED BY <3>1, <3>4
  <2> QED BY <2>2, <2>3
<1> HIDE DEF Kept
<1> DEFINE T == {n \in Nat : n <= L => Kept(f[n])}
<1>4. 0 \in T
  BY <1>2 DEF Kept
<1>5. ASSUME NEW n \in Nat, n \in T PROVE n + 1 \in T
  <2> SUFFICES ASSUME n + 1 <= L PROVE Kept(f[n + 1])
    OBVIOUS
  <2>1. n + 1 \in 1 .. L /\ (n + 1) - 1 = n /\ Kept(f[n])
    BY <1>1, <1>5
  <2>2. f[n + 1] = MonitorTraining(f[n], msgs[n + 1])
    BY <1>2, <2>1
  <2> QED BY <1>3, <2>1, <2>2
<1>6. L \in T
  <2> HIDE DEF T
  <2>1. \A n \in Nat : n \in T => n + 1 \in T
    BY <1>5
  <2> QED BY <1>1, <1>4, <2>1, NatSetInduction
<1>7. Kept(f[L])
  BY <1>1, <1>6
<1> QED BY <1>2, <1>7 DEF Kept

(* A client never meets a message about an evaluation without its tracker  *)
(* when the messages are in order.                                         *)
LEMMA EvaluationMonitored ==
  ASSUME NEW c, ClientForm(c), NEW msgs \in Seq(EvalMsg)
  PROVE  LET d == Monitor(MonitorEvaluation, c, msgs)
         IN /\ ClientForm(d) /\ d.pbar = c.pbar /\ d.verdict = c.verdict /\ d.tracker = c.tracker
            /\ d.state = c.state \/ (c.state = "polling" /\ d.state = "crashed")
            /\ c.state = "polling" /\ InOrder(DOMAIN c.evaluations, msgs, TrackerNeeds, TrackerGives) =>
                 /\ d.state = "polling"
                 /\ DOMAIN d.evaluations = Have(DOMAIN c.evaluations, msgs, TrackerGives)
<1> DEFINE L == Len(msgs)
           Kept(d) == /\ ClientForm(d) /\ d.pbar = c.pbar /\ d.verdict = c.verdict
                      /\ d.tracker = c.tracker
                      /\ d.state = c.state \/ (c.state = "polling" /\ d.state = "crashed")
           Ready == /\ c.state = "polling"
                    /\ InOrder(DOMAIN c.evaluations, msgs, TrackerNeeds, TrackerGives)
           Known(n) == HaveUpTo(DOMAIN c.evaluations, msgs, TrackerGives, n)
<1>1. L \in Nat
  OBVIOUS
<1>0. PICK f : EvaluatedBy(f, c, msgs)
  BY <1>1, EvaluationFold
<1>2. /\ f[0] = c
      /\ \A i \in 1 .. L : f[i] = MonitorEvaluation(f[i - 1], msgs[i])
      /\ Monitor(MonitorEvaluation, c, msgs) = f[L]
  BY <1>0 DEF EvaluatedBy
<1>3. ASSUME NEW d, Kept(d), NEW msg
      PROVE  LET e == MonitorEvaluation(d, msg)
             IN /\ Kept(e)
                /\ d.state = "polling" /\ (msg.action = "create_tracker" \/ msg.id \in DOMAIN d.evaluations) =>
                     e.state = "polling" /\ DOMAIN e.evaluations = DOMAIN d.evaluations \cup {msg.id}
  <2> DEFINE tracker ==
               CASE msg.action = "create_tracker" -> EvaluationTracker(SamplesPerTrigger)
                 [] msg.action = "create_counter" -> CreateCounter(d.evaluations[msg.id])
                 [] msg.action = "progress_counter" ->
                      ProgressEvaluation(d.evaluations[msg.id], msg.value)
                 [] msg.action = "end_counter" ->
                      EndEvaluationCounter(d.evaluations[msg.id], msg.value)
             errors == IF msg.action = "end_counter" /\ msg.value THEN d.eval_err_count + 1
                       ELSE d.eval_err_count
  <2>0. MonitorEvaluation(d, msg) =
          IF d.state # "polling" THEN d
          ELSE IF msg.action # "create_tracker" /\ msg.id \notin DOMAIN d.evaluations
            THEN [d EXCEPT !.state = "crashed"]
          ELSE [d EXCEPT
                 !.evaluations = [id \in DOMAIN @ \cup {msg.id} |->
                                    IF id = msg.id THEN tracker ELSE @[id]],
                 !.eval_err_count = errors]
    BY DEF MonitorEvaluation
  <2> HIDE DEF tracker, errors
  <2>1. CASE d.state # "polling"
    BY <1>3, <2>0, <2>1
  <2>2. CASE d.state = "polling" /\ msg.action # "create_tracker" /\ msg.id \notin DOMAIN d.evaluations
    <3>1. MonitorEvaluation(d, msg) =
            [state |-> "crashed", tracker |-> d.tracker, evaluations |-> d.evaluations,
             pbar |-> d.pbar, eval_err_count |-> d.eval_err_count, verdict |-> d.verdict]
      BY <1>3, <2>0, <2>2 DEF ClientForm
    <3> QED BY <1>3, <2>2, <3>1 DEF ClientForm
  <2>3. CASE d.state = "polling" /\ (msg.action = "create_tracker" \/ msg.id \in DOMAIN d.evaluations)
    <3> DEFINE es == [id \in DOMAIN d.evaluations \cup {msg.id} |->
                        IF id = msg.id THEN tracker ELSE d.evaluations[id]]
    <3>1. MonitorEvaluation(d, msg) =
            [state |-> "polling", tracker |-> d.tracker, evaluations |-> es,
             pbar |-> d.pbar, eval_err_count |-> errors, verdict |-> d.verdict]
      <4>1. MonitorEvaluation(d, msg) =
              [d EXCEPT !.evaluations = es, !.eval_err_count = errors]
        BY <2>0, <2>3
      <4> HIDE DEF es
      <4> QED BY <1>3, <2>3, <4>1 DEF ClientForm
    <3>2. DOMAIN es = DOMAIN d.evaluations \cup {msg.id}
      OBVIOUS
    <3> HIDE DEF es
    <3> QED BY <1>3, <2>3, <3>1, <3>2 DEF ClientForm
  <2> QED BY <2>1, <2>2, <2>3
<1> HIDE DEF Kept, Ready, Known
<1>4. /\ Known(0) = DOMAIN c.evaluations
      /\ \A n \in 0 .. L - 1 :
           /\ n + 1 \in 1 .. L
           /\ Known(n + 1) = Known(n) \cup
                (IF msgs[n + 1].action = "create_tracker" THEN {msgs[n + 1].id} ELSE {})
           /\ Ready => msgs[n + 1].action = "create_tracker" \/ msgs[n + 1].id \in Known(n)
  <2>1. Known(0) = DOMAIN c.evaluations
    BY HaveOneMore DEF Known
  <2>2. ASSUME NEW n \in 0 .. L - 1
        PROVE  /\ n + 1 \in 1 .. L
               /\ Known(n + 1) = Known(n) \cup
                    (IF msgs[n + 1].action = "create_tracker" THEN {msgs[n + 1].id} ELSE {})
               /\ Ready => msgs[n + 1].action = "create_tracker" \/ msgs[n + 1].id \in Known(n)
    <3>1. n \in Nat /\ n + 1 \in 1 .. L /\ (n + 1) - 1 = n
      BY <1>1
    <3>2. msgs[n + 1] \in EvalMsg
      BY <3>1
    <3>3. Known(n + 1) = Known(n) \cup TrackerGives[msgs[n + 1]]
      <4> DEFINE D == DOMAIN c.evaluations
      <4> HIDE DEF D
      <4>1. HaveUpTo(D, msgs, TrackerGives, n + 1) =
              HaveUpTo(D, msgs, TrackerGives, n) \cup TrackerGives[msgs[n + 1]]
        <5>1. 1 .. n + 1 = (1 .. n) \cup {n + 1}
          BY <3>1
        <5> QED BY <5>1 DEF HaveUpTo
      <4> QED BY <4>1 DEF Known, D
    <3>4. Ready => TrackerNeeds[msgs[n + 1]] \subseteq Known(n)
      BY <3>1 DEF Ready, InOrder, Known
    <3> QED BY <3>1, <3>2, <3>3, <3>4 DEF TrackerGives, TrackerNeeds
  <2> QED BY <2>1, <2>2
<1> DEFINE Good(n) == /\ Kept(f[n])
                      /\ Ready => f[n].state = "polling" /\ DOMAIN f[n].evaluations = Known(n)
           T == {n \in Nat : n <= L => Good(n)}
<1>5. 0 \in T
  BY <1>2, <1>4 DEF Kept, Ready
<1>6. ASSUME NEW n \in Nat, n \in T PROVE n + 1 \in T
  <2> SUFFICES ASSUME n + 1 <= L PROVE Good(n + 1)
    OBVIOUS
  <2>1. n + 1 \in 1 .. L /\ (n + 1) - 1 = n /\ n \in 0 .. L - 1 /\ Good(n)
    <3> HIDE DEF Good
    <3> QED BY <1>1, <1>6
  <2>2. f[n + 1] = MonitorEvaluation(f[n], msgs[n + 1])
    BY <1>2, <2>1
  <2>3. Kept(f[n + 1])
    BY <1>3, <2>1, <2>2
  <2>4. ASSUME Ready
        PROVE  f[n + 1].state = "polling" /\ DOMAIN f[n + 1].evaluations = Known(n + 1)
    <3>1. msgs[n + 1].action = "create_tracker" \/ msgs[n + 1].id \in DOMAIN f[n].evaluations
      BY <1>4, <2>1, <2>4
    <3>2. /\ f[n + 1].state = "polling"
          /\ DOMAIN f[n + 1].evaluations = DOMAIN f[n].evaluations \cup {msgs[n + 1].id}
      <4> DEFINE before == f[n]
                 msg == msgs[n + 1]
                 after == MonitorEvaluation(before, msg)
      <4>1. /\ Kept(before) /\ before.state = "polling"
            /\ msg.action = "create_tracker" \/ msg.id \in DOMAIN before.evaluations
        BY <2>1, <2>4, <3>1
      <4> HIDE DEF before, msg
      <4>2. after.state = "polling" /\ DOMAIN after.evaluations = DOMAIN before.evaluations \cup {msg.id}
        BY <1>3, <4>1
      <4>3. f[n + 1] = after
        BY <2>2 DEF before, msg
      <4> HIDE DEF after
      <4> QED BY <4>2, <4>3 DEF before, msg
    <3>3. Known(n + 1) = Known(n) \cup {msgs[n + 1].id}
      BY <1>4, <2>1, <2>4
    <3> QED BY <2>1, <2>4, <3>2, <3>3
  <2> QED BY <2>3, <2>4
<1>7. L \in T
  <2> HIDE DEF T
  <2>1. \A n \in Nat : n \in T => n + 1 \in T
    BY <1>6
  <2> QED BY <1>1, <1>5, <2>1, NatSetInduction
<1>8. Good(L)
  <2> HIDE DEF Good
  <2> QED BY <1>1, <1>7
<1> QED BY <1>2, <1>8 DEF Kept, Ready, Known, Have

LEMMA PipelineMonitored ==
  ASSUME NEW c, ClientForm(c), NEW msgs \in Seq(PipelineMsg),
         InOrder(Bar(c), msgs, BarNeeds, BarGives)
  PROVE  LET d == Monitor(MonitorPipeline, c, msgs)
         IN /\ ClientForm(d) /\ d.evaluations = c.evaluations /\ d.verdict = c.verdict
            /\ d.tracker = c.tracker /\ d.state = c.state
            /\ c.state = "polling" => Have(Bar(c), msgs, BarGives) \subseteq Bar(d)
<1> DEFINE L == Len(msgs)
           Kept(d) == /\ ClientForm(d) /\ d.evaluations = c.evaluations /\ d.verdict = c.verdict
                      /\ d.tracker = c.tracker /\ d.state = c.state
           Known(n) == HaveUpTo(Bar(c), msgs, BarGives, n)
<1>1. L \in Nat
  OBVIOUS
<1>0. PICK f : AdvancedBy(f, c, msgs)
  BY <1>1, PipelineFold
<1>2. /\ f[0] = c
      /\ \A i \in 1 .. L : f[i] = MonitorPipeline(f[i - 1], msgs[i])
      /\ Monitor(MonitorPipeline, c, msgs) = f[L]
  BY <1>0 DEF AdvancedBy
<1>3. ASSUME NEW d, Kept(d), NEW msg,
             d.state = "polling" /\ msg.counter \in {"update", "close"} => "bar" \in Bar(d)
      PROVE  LET e == MonitorPipeline(d, msg)
             IN /\ Kept(e)
                /\ d.state = "polling" => Bar(d) \subseteq Bar(e)
                /\ d.state = "polling" /\ msg.counter = "create" => "bar" \in Bar(e)
  <2> DEFINE pbar == d.pbar \/ msg.counter = "create"
  <2>1. MonitorPipeline(d, msg) =
          IF d.state # "polling" THEN d
          ELSE IF msg.counter \in {"update", "close"} /\ ~ d.pbar THEN [d EXCEPT !.state = "crashed"]
          ELSE [d EXCEPT !.pbar = pbar]
    BY DEF MonitorPipeline
  <2>2. CASE d.state # "polling"
    BY <1>3, <2>1, <2>2
  <2>3. CASE d.state = "polling"
    <3>1. ~ (msg.counter \in {"update", "close"} /\ ~ d.pbar)
      BY <1>3, <2>3 DEF Bar
    <3>2. MonitorPipeline(d, msg) = [d EXCEPT !.pbar = pbar]
      BY <2>1, <2>3, <3>1
    <3>3. /\ d.pbar => pbar
          /\ msg.counter = "create" => pbar
      OBVIOUS
    <3> HIDE DEF pbar
    <3>4. [d EXCEPT !.pbar = pbar] =
            [state |-> d.state, tracker |-> d.tracker, evaluations |-> d.evaluations,
             pbar |-> pbar, eval_err_count |-> d.eval_err_count, verdict |-> d.verdict]
      BY <1>3 DEF ClientForm
    <3> DEFINE e == [state |-> d.state, tracker |-> d.tracker, evaluations |-> d.evaluations,
                     pbar |-> pbar, eval_err_count |-> d.eval_err_count, verdict |-> d.verdict]
    <3>5. Kept(e)
      BY <1>3 DEF ClientForm
    <3>6. Bar(d) \subseteq Bar(e) /\ (msg.counter = "create" => "bar" \in Bar(e))
      BY <3>3 DEF Bar
    <3> HIDE DEF e
    <3>7. MonitorPipeline(d, msg) = e
      BY <3>2, <3>4 DEF e
    <3> QED BY <3>5, <3>6, <3>7
  <2> QED BY <2>2, <2>3
<1> HIDE DEF Kept, Known
<1>4. /\ Known(0) = Bar(c)
      /\ \A n \in 0 .. L - 1 :
           /\ n + 1 \in 1 .. L
           /\ Known(n + 1) = Known(n) \cup (IF msgs[n + 1].counter = "create" THEN {"bar"} ELSE {})
           /\ msgs[n + 1].counter \in {"update", "close"} => "bar" \in Known(n)
  <2>1. Known(0) = Bar(c)
    BY HaveOneMore DEF Known
  <2>2. ASSUME NEW n \in 0 .. L - 1
        PROVE  /\ n + 1 \in 1 .. L
               /\ Known(n + 1) = Known(n) \cup (IF msgs[n + 1].counter = "create" THEN {"bar"} ELSE {})
               /\ msgs[n + 1].counter \in {"update", "close"} => "bar" \in Known(n)
    <3>1. n \in Nat /\ n + 1 \in 1 .. L /\ (n + 1) - 1 = n
      BY <1>1
    <3>2. msgs[n + 1] \in PipelineMsg
      BY <3>1
    <3>3. Known(n + 1) = Known(n) \cup BarGives[msgs[n + 1]]
      <4> DEFINE D == Bar(c)
      <4> HIDE DEF D
      <4>1. HaveUpTo(D, msgs, BarGives, n + 1) =
              HaveUpTo(D, msgs, BarGives, n) \cup BarGives[msgs[n + 1]]
        <5>1. 1 .. n + 1 = (1 .. n) \cup {n + 1}
          BY <3>1
        <5> QED BY <5>1 DEF HaveUpTo
      <4> QED BY <4>1 DEF Known, D
    <3>4. BarNeeds[msgs[n + 1]] \subseteq Known(n)
      BY <3>1 DEF InOrder, Known
    <3> QED BY <3>1, <3>2, <3>3, <3>4 DEF BarGives, BarNeeds
  <2> QED BY <2>1, <2>2
<1> DEFINE Good(n) == Kept(f[n]) /\ (c.state = "polling" => Known(n) \subseteq Bar(f[n]))
           T == {n \in Nat : n <= L => Good(n)}
<1>5. 0 \in T
  BY <1>2, <1>4 DEF Kept
<1>6. ASSUME NEW n \in Nat, n \in T PROVE n + 1 \in T
  <2> SUFFICES ASSUME n + 1 <= L PROVE Good(n + 1)
    OBVIOUS
  <2>1. n + 1 \in 1 .. L /\ (n + 1) - 1 = n /\ n \in 0 .. L - 1 /\ Good(n)
    <3> HIDE DEF Good
    <3> QED BY <1>1, <1>6
  <2>2. f[n + 1] = MonitorPipeline(f[n], msgs[n + 1])
    BY <1>2, <2>1
  <2>3. f[n].state = c.state
    BY <2>1 DEF Kept
  <2>4. f[n].state = "polling" /\ msgs[n + 1].counter \in {"update", "close"} => "bar" \in Bar(f[n])
    BY <1>4, <2>1, <2>3
  <2>5. Kept(f[n + 1])
    BY <1>3, <2>1, <2>2, <2>4
  <2>6. ASSUME c.state = "polling" PROVE Known(n + 1) \subseteq Bar(f[n + 1])
    <3>1. Bar(f[n]) \subseteq Bar(f[n + 1])
      BY <1>3, <2>1, <2>2, <2>3, <2>4, <2>6
    <3>2. msgs[n + 1].counter = "create" => "bar" \in Bar(f[n + 1])
      BY <1>3, <2>1, <2>2, <2>3, <2>4, <2>6
    <3> QED BY <1>4, <2>1, <2>6, <3>1, <3>2
  <2> QED BY <2>5, <2>6
<1>7. L \in T
  <2> HIDE DEF T
  <2>1. \A n \in Nat : n \in T => n + 1 \in T
    BY <1>6
  <2> QED BY <1>1, <1>5, <2>1, NatSetInduction
<1>8. Good(L)
  <2> HIDE DEF Good
  <2> QED BY <1>1, <1>7
<1> QED BY <1>2, <1>8 DEF Kept, Known, Have
-----------------------------------------------------------------------------
(* Where everybody is.                                                     *)
SupervisionTyped ==
  /\ config \in ConfigChoices
  /\ exec = [pc |-> exec.pc, trigger |-> exec.trigger, answers |-> exec.answers, seen |-> exec.seen,
             cells |-> exec.cells, next_eval |-> exec.next_eval, evals |-> exec.evals,
             errors |-> exec.errors]
  /\ exec.trigger \in Nat /\ exec.next_eval \in Nat /\ exec.evals \subseteq Nat
  /\ exceptions \in Seq({"traceback"})
  /\ faults \in Nat
  /\ ClientForm(client)

MessagesTyped ==
  /\ queue = [q \in Queues |-> queue[q]]
  /\ queue["pipeline"] \in Seq(PipelineMsg) /\ queue["training"] \in Seq(TrainingMsg)
  /\ queue["eval"] \in Seq(EvalMsg)
  /\ call = [at |-> call.at, pipeline |-> call.pipeline, training |-> call.training, eval |-> call.eval]
  /\ call.pipeline \in Seq(PipelineMsg) /\ call.training \in Seq(TrainingMsg)
  /\ call.eval \in Seq(EvalMsg)

(* A status call takes the queues one after the other.                     *)
CallInv ==
  /\ call.at \in {"idle", "training", "eval", "alive", "exception"}
  /\ call.at = "idle" => call = NoCall
  /\ call.at # "idle" => client.state = "polling"
  /\ call.at = "training" => call.training = <<>>
  /\ call.at \in {"training", "eval"} => call.eval = <<>>
  /\ call.at = "exception" => process = "dead"

(* The life of the process, of the executor in it and of its queues.       *)
ProcessInv ==
  /\ process \in {"none", "running", "exiting", "dead"}
  /\ client.state = "starting" => process = "none" /\ call = NoCall
  /\ process = "none" => /\ client.state \in {"starting", "rejected"} /\ ~ registered
                         /\ exec.pc = "connect" /\ exec.trigger = 0 /\ exec.evals = {} /\ exitcode = 0
  /\ process # "none" => Accepted(config) /\ client.state # "starting"
  /\ process = "exiting" => exec.pc \in {"done", "raised"}
  /\ process = "running" => exec.pc \notin {"done", "raised"}
  /\ process \in {"running", "exiting"} => exitcode = 0
  /\ process = "dead" /\ exitcode = 0 => exec.pc = "done"
  /\ exitcode \in {0, EXCEPTION_EXITCODE, KilledExitcode}
  /\ exceptions # <<>> => exec.pc = "raised"
  /\ process = "exiting" /\ exec.pc = "raised" => exceptions # <<>>
  /\ exitcode = EXCEPTION_EXITCODE /\ client.state = "polling" /\ registered =>
       exceptions # <<>>

(* What is behind the executor at each of its places.                      *)
PlaceInv ==
  /\ process = "running" /\ exec.pc \notin {"connect", "data"} => exec.trigger > 0
  /\ process = "running" /\ exec.pc \in {"evaluate", "evaluating"} =>
       Evaluates \/ config.evaluation_matrix
  /\ exec.pc = "raised" =>
       \/ faults > 0 \/ ~ Requestable(config)
       \/ config.evaluation_matrix /\ ~ config.has_num_prefetched_partitions

(* What the client was told with what it will be told: nothing comes       *)
(* before what it refers to, but for evaluations on fixed datasets.        *)
PipelineTold == call.pipeline \o queue["pipeline"]
TrainingTold == call.training \o queue["training"]
EvalTold == call.eval \o queue["eval"]
Drawn == IF exec.trigger > 0 THEN {"bar"} ELSE {}
Listens == client.state \in {"starting", "polling"}

BarTold ==
  Listens => /\ InOrder(Bar(client), PipelineTold, BarNeeds, BarGives)
             /\ process = "running" => Drawn \subseteq Have(Bar(client), PipelineTold, BarGives)
TrackersTold ==
  Listens /\ ~ Evaluates =>
    /\ InOrder(DOMAIN client.evaluations, EvalTold, TrackerNeeds, TrackerGives)
    /\ process = "running" =>
         exec.evals \subseteq Have(DOMAIN client.evaluations, EvalTold, TrackerGives)

VerdictInv ==
  /\ client.verdict \in {"successfully", "with_eval_errors"} =>
       process = "dead" /\ exitcode = 0 /\ exec.pc = "done"
  /\ client.verdict = "exception" => process = "dead" /\ exec.pc = "raised"
  /\ client.state = "crashed" =>
       exitcode = KilledExitcode \/ ~ registered \/ Evaluates

SupervisionInv ==
  /\ SupervisionTyped /\ MessagesTyped /\ CallInv /\ ProcessInv /\ PlaceInv
  /\ BarTold /\ TrackersTold /\ VerdictInv

(* What the executor puts into the queues is in order after what it put    *)
(* before.                                                                 *)
Says(p, t, e) ==
  /\ p \in Seq(PipelineMsg) /\ t \in Seq(TrainingMsg) /\ e \in Seq(EvalMsg)
  /\ InOrder(Drawn, p, BarNeeds, BarGives)
  /\ process' = "running" => Drawn' \subseteq Have(Drawn, p, BarGives)
  /\ ~ Evaluates =>
       /\ InOrder(exec.evals, e, TrackerNeeds, TrackerGives)
       /\ process' = "running" => exec'.evals \subseteq Have(exec.evals, e, TrackerGives)
  /\ PutAll(p, t, e)

LEMMA PutMessages ==
  ASSUME MessagesTyped, BarTold, TrackersTold, process = "running", NEW p, NEW t, NEW e, Says(p, t, e),
         UNCHANGED <<config, call, client>>
  PROVE  MessagesTyped' /\ BarTold' /\ TrackersTold'
<1>1. /\ queue["pipeline"] \in Seq(PipelineMsg) /\ queue["training"] \in Seq(TrainingMsg)
      /\ queue["eval"] \in Seq(EvalMsg)
      /\ call.pipeline \in Seq(PipelineMsg) /\ call.eval \in Seq(EvalMsg)
      /\ p \in Seq(PipelineMsg) /\ t \in Seq(TrainingMsg) /\ e \in Seq(EvalMsg)
  BY DEF MessagesTyped, Says
<1>2. /\ queue'["pipeline"] = queue["pipeline"] \o p
      /\ queue'["training"] = queue["training"] \o t
      /\ queue'["eval"] = queue["eval"] \o e
      /\ queue' = [q \in Queues |-> queue'[q]]
  <2>1. /\ queue = [q \in Queues |-> queue[q]]
        /\ queue' = [queue EXCEPT !["pipeline"] = @ \o p, !["training"] = @ \o t, !["eval"] = @ \o e]
    BY DEF MessagesTyped, Says, PutAll
  <2>2. {"pipeline", "training", "eval"} = Queues
    BY DEF Queues
  <2> DEFINE a == queue["pipeline"] \o p
             b == queue["training"] \o t
             c == queue["eval"] \o e
  <2>3. queue' = [[[queue EXCEPT !["pipeline"] = a] EXCEPT !["training"] = b] EXCEPT !["eval"] = c]
    BY <2>1, <2>2
  <2> HIDE DEF a, b, c
  <2>4. /\ queue'["pipeline"] = a /\ queue'["training"] = b /\ queue'["eval"] = c
        /\ queue' = [q \in Queues |-> queue'[q]]
    BY <2>1, <2>2, <2>3
  <2> QED BY <2>4 DEF a, b, c
<1>3. MessagesTyped'
  <2>1. /\ queue'["pipeline"] \in Seq(PipelineMsg) /\ queue'["training"] \in Seq(TrainingMsg)
        /\ queue'["eval"] \in Seq(EvalMsg)
    BY <1>1, <1>2, ConcatProperties
  <2> QED BY <1>2, <2>1 DEF MessagesTyped, TrainingMsg, EvalMsg, PipelineMsg
<1>4. /\ PipelineTold \in Seq(PipelineMsg) /\ PipelineTold' = PipelineTold \o p
      /\ EvalTold \in Seq(EvalMsg) /\ EvalTold' = EvalTold \o e
  <2>1. /\ call.pipeline \o queue["pipeline"] \in Seq(PipelineMsg)
        /\ call.eval \o queue["eval"] \in Seq(EvalMsg)
    BY <1>1, ConcatProperties
  <2>2. (call.pipeline \o queue["pipeline"]) \o p = call.pipeline \o (queue["pipeline"] \o p)
    <3> DEFINE a == call.pipeline
               b == queue["pipeline"]
    <3>1. a \in Seq(PipelineMsg) /\ b \in Seq(PipelineMsg) /\ p \in Seq(PipelineMsg)
      BY <1>1
    <3> HIDE DEF a, b
    <3>2. (a \o b) \o p = a \o (b \o p)
      BY <3>1, ConcatAssociative
    <3> QED BY <3>2 DEF a, b
  <2>4. (call.eval \o queue["eval"]) \o e = call.eval \o (queue["eval"] \o e)
    <3> DEFINE a == call.eval
               b == queue["eval"]
    <3>1. a \in Seq(EvalMsg) /\ b \in Seq(EvalMsg) /\ e \in Seq(EvalMsg)
      BY <1>1
    <3> HIDE DEF a, b
    <3>2. (a \o b) \o e = a \o (b \o e)
      BY <3>1, ConcatAssociative
    <3> QED BY <3>2 DEF a, b
  <2>3. /\ PipelineTold' = call.pipeline \o (queue["pipeline"] \o p)
        /\ EvalTold' = call.eval \o (queue["eval"] \o e)
    BY <1>2 DEF PipelineTold, EvalTold
  <2> QED BY <2>1, <2>2, <2>3, <2>4 DEF PipelineTold, EvalTold
<1>5. BarTold'
  <2> SUFFICES ASSUME Listens
               PROVE  /\ InOrder(Bar(client), PipelineTold \o p, BarNeeds, BarGives)
                      /\ process' = "running" =>
                           Drawn' \subseteq Have(Bar(client), PipelineTold \o p, BarGives)
    BY <1>4 DEF BarTold, Listens, Bar, BarNeeds, BarGives
  <2> DEFINE H == Have(Bar(client), PipelineTold, BarGives)
  <2>1. InOrder(Bar(client), PipelineTold, BarNeeds, BarGives) /\ Drawn \subseteq H
    BY DEF BarTold
  <2> HIDE DEF H
  <2>2. InOrder(H, p, BarNeeds, BarGives) /\ Have(Drawn, p, BarGives) \subseteq Have(H, p, BarGives)
    BY <2>1, InOrderOfMore DEF Says
  <2>3. InOrder(Bar(client), PipelineTold \o p, BarNeeds, BarGives)
    BY <1>1, <1>4, <2>1, <2>2, InOrderJoined DEF H
  <2>4. Have(Bar(client), PipelineTold \o p, BarGives) = Have(H, p, BarGives)
    BY <1>1, <1>4, HaveJoined DEF H
  <2> QED BY <2>2, <2>3, <2>4 DEF Says
<1>6. TrackersTold'
  <2> SUFFICES ASSUME Listens, ~ Evaluates
               PROVE  /\ InOrder(DOMAIN client.evaluations, EvalTold \o e, TrackerNeeds, TrackerGives)
                      /\ process' = "running" =>
                           exec'.evals \subseteq
                             Have(DOMAIN client.evaluations, EvalTold \o e, TrackerGives)
    BY <1>4 DEF TrackersTold, Listens, Evaluates, TrackerNeeds, TrackerGives
  <2> DEFINE H == Have(DOMAIN client.evaluations, EvalTold, TrackerGives)
  <2>1. /\ InOrder(DOMAIN client.evaluations, EvalTold, TrackerNeeds, TrackerGives)
        /\ exec.evals \subseteq H
    BY DEF TrackersTold
  <2> HIDE DEF H
  <2>2. /\ InOrder(H, e, TrackerNeeds, TrackerGives)
        /\ Have(exec.evals, e, TrackerGives) \subseteq Have(H, e, TrackerGives)
    BY <2>1, InOrderOfMore DEF Says
  <2>3. InOrder(DOMAIN client.evaluations, EvalTold \o e, TrackerNeeds, TrackerGives)
    BY <1>1, <1>4, <2>1, <2>2, InOrderJoined DEF H
  <2>4. Have(DOMAIN client.evaluations, EvalTold \o e, TrackerGives) = Have(H, e, TrackerGives)
    BY <1>1, <1>4, HaveJoined DEF H
  <2> QED BY <2>2, <2>3, <2>4 DEF Says
<1> QED BY <1>3, <1>5, <1>6

(* One step of the executor that does not raise.                           *)
Moves ==
  /\ exec' = [pc |-> exec'.pc, trigger |-> exec'.trigger, answers |-> exec'.answers,
              seen |-> exec'.seen, cells |-> exec'.cells, next_eval |-> exec'.next_eval,
              evals |-> exec'.evals, errors |-> exec'.errors]
  /\ exec'.trigger \in Nat /\ exec'.next_eval \in Nat /\ exec'.evals \subseteq Nat
  /\ exec'.pc # "raised"
  /\ process' = IF exec'.pc = "done" THEN "exiting" ELSE "running"
  /\ exec'.pc \notin {"connect", "data"} => exec'.trigger > 0
  /\ exec'.pc \in {"evaluate", "evaluating"} =>
       Evaluates \/ config.evaluation_matrix
  /\ UNCHANGED exceptions
  /\ ExecutorOnly

LEMMA ExecutorMoves ==
  ASSUME SupervisionInv, process = "running", Moves, MessagesTyped', BarTold', TrackersTold'
  PROVE  SupervisionInv'
<1> USE DEF SupervisionInv, Moves, ExecutorOnly
<1>1. SupervisionTyped'
  BY DEF SupervisionTyped, ClientForm
<1>2. CallInv'
  BY DEF CallInv, NoCall
<1>3. ProcessInv'
  BY DEF ProcessInv, NoCall, Accepted, ValidContent,
     ValidTraining, ValidEvaluation, ValidSystem,
     DatasetAvailable, TrainerServerAvailable,
     EXCEPTION_EXITCODE, KilledExitcode
<1>4. PlaceInv'
  BY DEF PlaceInv, Evaluates
<1>5. VerdictInv'
  BY DEF VerdictInv, ProcessInv, Evaluates, KilledExitcode
<1> QED BY <1>1, <1>2, <1>3, <1>4, <1>5

LEMMA ExecutorSpeaks ==
  ASSUME SupervisionInv, process = "running", Moves, NEW p, NEW t, NEW e, Says(p, t, e)
  PROVE  SupervisionInv'
<1>1. MessagesTyped' /\ BarTold' /\ TrackersTold'
  BY PutMessages DEF SupervisionInv, Moves, ExecutorOnly
<1> QED BY <1>1, ExecutorMoves

(* Messages that need nothing.                                             *)
LEMMA Plain ==
  ASSUME NEW D, NEW p \in Seq(PipelineMsg), \A i \in 1 .. Len(p) : p[i].counter = "none"
  PROVE  InOrder(D, p, BarNeeds, BarGives) /\ D \subseteq Have(D, p, BarGives)
<1>1. \A i \in 1 .. Len(p) : p[i] \in PipelineMsg /\ BarNeeds[p[i]] = {}
  BY DEF BarNeeds
<1> QED BY <1>1 DEF InOrder, Have, HaveUpTo

(* Where only the pipeline is told, and plainly.                           *)
LEMMA SaysPlainly ==
  ASSUME NEW p \in Seq(PipelineMsg), \A i \in 1 .. Len(p) : p[i].counter = "none",
         NEW t \in Seq(TrainingMsg), PutAll(p, t, <<>>),
         exec'.trigger = exec.trigger, exec'.evals \subseteq exec.evals
  PROVE  Says(p, t, <<>>)
<1>1. <<>> \in Seq(EvalMsg)
  OBVIOUS
<1>2. Drawn' = Drawn
  BY DEF Drawn
<1>3. /\ InOrder(Drawn, p, BarNeeds, BarGives)
      /\ Drawn \subseteq Have(Drawn, p, BarGives)
  BY Plain
<1>4. /\ InOrder(exec.evals, <<>>, TrackerNeeds, TrackerGives)
      /\ Have(exec.evals, <<>>, TrackerGives) = exec.evals
  BY InOrderNone
<1> QED BY <1>1, <1>2, <1>3, <1>4 DEF Says

LEMMA ExecutorRaised ==
  ASSUME SupervisionInv, process = "running", Raise,
         UNCHANGED <<config, registered, exitcode, call, client>>, faults' \in Nat,
         \/ faults' > 0 \/ ~ Requestable(config)
         \/ config.evaluation_matrix /\ ~ config.has_num_prefetched_partitions
  PROVE  SupervisionInv'
<1> USE DEF SupervisionInv, Raise
<1>0. /\ exec' = [pc |-> "raised", trigger |-> exec.trigger, answers |-> exec.answers,
                  seen |-> exec.seen, cells |-> exec.cells, next_eval |-> exec.next_eval,
                  evals |-> exec.evals, errors |-> exec.errors]
      /\ exceptions' \in Seq({"traceback"}) /\ exceptions' # <<>>
  BY DEF SupervisionTyped
<1> DEFINE Raised == 
             /\ UNCHANGED <<config, registered, exitcode, call, client, queue>>
             /\ process' = "exiting"
             /\ exec'.pc = "raised" /\ exec'.trigger = exec.trigger
             /\ exec'.evals = exec.evals /\ exec'.next_eval = exec.next_eval
<1>01. Raised
  BY <1>0
<1>1. SupervisionTyped'
  BY <1>0 DEF SupervisionTyped, ClientForm
<1> HIDE DEF Raise
<1>2. CallInv'
  BY <1>01 DEF CallInv, NoCall
<1>3. ProcessInv'
  BY <1>0, <1>01 DEF ProcessInv, NoCall, Accepted, ValidContent,
     ValidTraining, ValidEvaluation, ValidSystem,
     DatasetAvailable, TrainerServerAvailable,
     EXCEPTION_EXITCODE, KilledExitcode
<1>4. PlaceInv'
  BY <1>01 DEF PlaceInv, Evaluates, Requestable
<1>5. VerdictInv'
  BY <1>01 DEF VerdictInv, ProcessInv, Evaluates, KilledExitcode
<1>6. MessagesTyped' /\ BarTold' /\ TrackersTold'
  BY <1>01 DEF MessagesTyped, BarTold, TrackersTold, PipelineTold, EvalTold, Listens, Bar,
     Evaluates, BarNeeds, BarGives, TrackerNeeds, TrackerGives, Queues,
     TrainingMsg, EvalMsg, PipelineMsg
<1> QED BY <1>1, <1>2, <1>3, <1>4, <1>5, <1>6
-----------------------------------------------------------------------------
(* The steps of the executor.                                              *)
LEMMA StageIsPlain ==
  ASSUME NEW name \in Stages
  PROVE  Stage(name) \in PipelineMsg /\ Stage(name).counter = "none"
BY DEF PipelineMsg, Stage

LEMMA CounterMessage ==
  ASSUME NEW name \in Stages, NEW action \in {"create", "update", "close"}
  PROVE  /\ Counter(name, action) \in PipelineMsg
         /\ Counter(name, action).counter = action
BY DEF PipelineMsg, Counter

LEMMA ConnectKeeps ==
  ASSUME SupervisionInv, Connect
  PROVE  SupervisionInv'
<1> USE DEF Connect, At, Goto, ExecutorOnly
<1>1. process = "running" /\ SupervisionTyped /\ ProcessInv /\ PlaceInv
  BY DEF SupervisionInv
<1>2. CASE config.trigger_available
  <2> DEFINE p == <<Stage("INIT_CLUSTER_CONNECTION"),
                    Stage("GET_SELECTOR_BATCH_SIZE"), Stage("REPLAY_DATA")>>
  <2>1. PutAll(p, <<>>, <<>>) /\ exec' = [exec EXCEPT !.pc = "data"]
    BY <1>2
  <2>2. p \in Seq(PipelineMsg) /\ \A i \in 1 .. Len(p) : p[i].counter = "none"
    BY StageIsPlain DEF Stages
  <2>3. <<>> \in Seq(TrainingMsg)
    OBVIOUS
  <2> HIDE DEF p
  <2>4. Moves /\ exec'.trigger = exec.trigger /\ exec'.evals = exec.evals
    BY <1>1, <1>2, <2>1 DEF Moves, SupervisionTyped
  <2>5. Says(p, <<>>, <<>>)
    BY <2>1, <2>2, <2>3, <2>4, SaysPlainly
  <2> QED BY <1>1, <2>4, <2>5, ExecutorSpeaks
<1>3. CASE ~ config.trigger_available
  BY <1>1, <1>3 DEF ProcessInv, Accepted, ValidContent
<1> QED BY <1>2, <1>3

LEMMA HandleNewDataKeeps ==
  ASSUME SupervisionInv, HandleNewData
  PROVE  SupervisionInv'
<1> USE DEF HandleNewData, At, ExecutorOnly
<1>1. process = "running" /\ SupervisionTyped
  BY DEF SupervisionInv
<1> DEFINE p == <<Counter("HANDLE_NEW_DATA", "create"),
                  Counter("HANDLE_NEW_DATA", "update"),
                  Stage("HANDLE_TRIGGERS_WITHIN_BATCH"),
                  Stage("INFORM_SELECTOR_AND_TRIGGER"), Stage("RUN_TRAINING")>>
<1>2. PutAll(p, <<>>, <<>>)
  OBVIOUS
<1>3. /\ p \in Seq(PipelineMsg) /\ Len(p) = 5
      /\ p[1].counter = "create" /\ p[1] \in PipelineMsg
      /\ \A i \in 1 .. 5 : i > 2 => BarNeeds[p[i]] = {}
      /\ \A i \in 1 .. 5 : BarNeeds[p[i]] \subseteq {"bar"}
      /\ BarGives[p[1]] = {"bar"} /\ BarNeeds[p[1]] = {}
  BY StageIsPlain, CounterMessage DEF Stages, BarNeeds, BarGives
<1> HIDE DEF p
<1>4. Moves /\ exec'.evals = exec.evals
  <2> DEFINE n == exec.trigger + 1
  <2>1. /\ exec' = [exec EXCEPT !.pc = "train", !.trigger = n]
        /\ n \in Nat /\ n > 0
    BY <1>1 DEF SupervisionTyped
  <2> HIDE DEF n
  <2>2. exec' = [pc |-> "train", trigger |-> n, answers |-> exec.answers, seen |-> exec.seen,
                 cells |-> exec.cells, next_eval |-> exec.next_eval, evals |-> exec.evals,
                 errors |-> exec.errors]
    BY <1>1, <2>1 DEF SupervisionTyped
  <2> QED BY <1>1, <2>1, <2>2 DEF Moves, SupervisionTyped
<1>5. \A n \in 1 .. 5 : "bar" \in HaveUpTo(Drawn, p, BarGives, n)
  BY <1>3 DEF HaveUpTo
<1>6. InOrder(Drawn, p, BarNeeds, BarGives)
  <2> SUFFICES ASSUME NEW i \in 1 .. 5
               PROVE  BarNeeds[p[i]] \subseteq HaveUpTo(Drawn, p, BarGives, i - 1)
    BY <1>3 DEF InOrder
  <2>1. CASE i = 1
    BY <1>3, <2>1
  <2>2. CASE i # 1
    BY <1>3, <1>5, <2>2
  <2> QED BY <2>1, <2>2
<1>7. Drawn' \subseteq Have(Drawn, p, BarGives)
  BY <1>3, <1>5 DEF Have, Drawn
<1>8. /\ InOrder(exec.evals, <<>>, TrackerNeeds, TrackerGives)
      /\ Have(exec.evals, <<>>, TrackerGives) = exec.evals
  BY InOrderNone
<1>9. <<>> \in Seq(TrainingMsg) /\ <<>> \in Seq(EvalMsg)
  OBVIOUS
<1>10. Says(p, <<>>, <<>>)
  BY <1>2, <1>3, <1>4, <1>6, <1>7, <1>8, <1>9 DEF Says
<1> QED BY <1>1, <1>4, <1>10, ExecutorSpeaks

LEMMA StartTrainingKeeps ==
  ASSUME SupervisionAssumption, SupervisionInv, StartTraining
  PROVE  SupervisionInv'
<1> USE DEF StartTraining, At, Goto, ExecutorOnly,
            BeginWaiting
<1>1. process = "running" /\ exec.pc = "train" /\ SupervisionTyped /\ PlaceInv
  BY DEF SupervisionInv
<1>2. CASE Requestable(config)
  <2> DEFINE p == <<Stage("WAIT_FOR_TRAINING_COMPLETION")>>
             t == <<Training("create_tracker", exec.trigger, 0, 0, TRUE)>>
  <2>1. PutAll(p, t, <<>>) /\ exec' = [exec EXCEPT !.pc = "training"]
    BY <1>2
  <2>2. p \in Seq(PipelineMsg) /\ \A i \in 1 .. Len(p) : p[i].counter = "none"
    BY StageIsPlain DEF Stages
  <2>3. t \in Seq(TrainingMsg)
    <3> DEFINE m == Training("create_tracker", exec.trigger, 0, 0, TRUE)
    <3>1. m \in TrainingMsg
      BY <1>1 DEF SupervisionTyped, TrainingMsg, Training
    <3>2. t = <<m>>
      OBVIOUS
    <3> HIDE DEF m, t
    <3> QED BY <3>1, <3>2
  <2> HIDE DEF p, t
  <2>4. Moves /\ exec'.trigger = exec.trigger /\ exec'.evals = exec.evals
    BY <1>1, <1>2, <2>1 DEF Moves, SupervisionTyped, PlaceInv
  <2>5. Says(p, t, <<>>)
    BY <2>1, <2>2, <2>3, <2>4, SaysPlainly
  <2> QED BY <1>1, <2>4, <2>5, ExecutorSpeaks
<1>3. CASE ~ Requestable(config)
  <2>1. /\ Raise /\ UNCHANGED <<config, registered, exitcode, call, client>>
        /\ faults' \in Nat
    BY <1>1, <1>3 DEF SupervisionTyped
  <2> QED BY <1>1, <1>3, <2>1, ExecutorRaised
<1> QED BY <1>2, <1>3

LEMMA TrainingAnswerKeeps ==
  ASSUME SupervisionInv, TrainingAnswer
  PROVE  SupervisionInv'
<1>1. /\ process = "running" /\ exec.pc = "training" /\ SupervisionTyped /\ PlaceInv
      /\ ExecutorOnly /\ UNCHANGED <<process, exceptions>>
  BY DEF SupervisionInv, TrainingAnswer, At
<1>2. PICK seen \in SeenChoices \cup {0}, down \in {0, SamplesPerTrigger \div 2, SamplesPerTrigger},
           is_training \in BOOLEAN :
        /\ PutAll(<<>>, <<Training("progress_counter", exec.trigger, seen,
                                                             down, is_training)>>, <<>>)
        /\ \E n, s : exec' = [exec EXCEPT !.seen = s, !.answers = n]
  <2>1. CASE \E seen \in SeenChoices :
               /\ exec' = [exec EXCEPT !.seen = seen, !.answers = @ + 1]
               /\ PutAll(<<>>, <<Training("progress_counter", exec.trigger,
                                                                  seen, 0, TRUE)>>, <<>>)
    BY <2>1
  <2>2. CASE \E down \in {SamplesPerTrigger \div 2, SamplesPerTrigger} :
               /\ exec' = [exec EXCEPT !.answers = @ + 1]
               /\ PutAll(<<>>, <<Training("progress_counter", exec.trigger,
                                                                  0, down, FALSE)>>, <<>>)
    <3>1. PICK down \in {SamplesPerTrigger \div 2, SamplesPerTrigger} :
                 /\ exec' = [exec EXCEPT !.answers = @ + 1]
                 /\ PutAll(<<>>, <<Training("progress_counter", exec.trigger,
                                                                    0, down, FALSE)>>, <<>>)
      BY <2>2
    <3>2. exec' = [exec EXCEPT !.seen = exec.seen, !.answers = exec.answers + 1]
      BY <1>1, <3>1 DEF SupervisionTyped
    <3> QED BY <3>1, <3>2
  <2> QED BY <2>1, <2>2 DEF TrainingAnswer
<1> DEFINE t == <<Training("progress_counter", exec.trigger, seen, down, is_training)>>
<1>3. t \in Seq(TrainingMsg)
  <2> DEFINE m == Training("progress_counter", exec.trigger, seen, down, is_training)
  <2>1. m \in TrainingMsg
    BY <1>1 DEF SupervisionTyped, TrainingMsg, Training
  <2>2. t = <<m>>
    OBVIOUS
  <2> HIDE DEF m, t
  <2> QED BY <2>1, <2>2
<1>4. PutAll(<<>>, t, <<>>)
  BY <1>2
<1> HIDE DEF t
<1>5. Moves /\ exec'.trigger = exec.trigger /\ exec'.evals = exec.evals
  BY <1>1, <1>2 DEF Moves, SupervisionTyped, PlaceInv, ExecutorOnly
<1>6. <<>> \in Seq(PipelineMsg) /\ \A i \in 1 .. Len(<<>>) : <<>>[i].counter = "none"
  <2>1. Len(<<>>) = 0 /\ 1 .. 0 = {} /\ <<>> \in Seq(PipelineMsg)
    OBVIOUS
  <2> QED BY <2>1
<1>7. Says(<<>>, t, <<>>)
  BY <1>3, <1>4, <1>5, <1>6, SaysPlainly
<1> QED BY <1>1, <1>5, <1>7, ExecutorSpeaks

LEMMA TrainingCompletedKeeps ==
  ASSUME SupervisionInv, TrainingCompleted
  PROVE  SupervisionInv'
<1> USE DEF TrainingCompleted, At, ExecutorOnly
<1>1. process = "running" /\ exec.pc = "training" /\ SupervisionTyped /\ PlaceInv
  BY DEF SupervisionInv
<1> DEFINE p == <<Stage("TRAINING_COMPLETED"), Stage("STORE_TRAINED_MODEL")>>
                \o (IF Evaluates THEN <<Stage("EVALUATE")>> ELSE <<>>)
           t == <<Training("close_counter", exec.trigger, 0, 0, TRUE)>>
           pc_ == IF Evaluates THEN "evaluate" ELSE "handled"
<1>2. /\ PutAll(p, t, <<>>)
      /\ exec' = [exec EXCEPT !.pc = pc_, !.answers = 0, !.seen = 0]
      /\ pc_ \in {"evaluate", "handled"} /\ (pc_ = "evaluate" => Evaluates)
  <2>1. PutAll(p, t, <<>>)
    OBVIOUS
  <2>2. exec' = [exec EXCEPT !.pc = pc_, !.answers = 0, !.seen = 0]
    OBVIOUS
  <2>3. pc_ \in {"evaluate", "handled"} /\ (pc_ = "evaluate" => Evaluates)
    OBVIOUS
  <2> QED BY <2>1, <2>2, <2>3
<1>3. p \in Seq(PipelineMsg) /\ \A i \in 1 .. Len(p) : p[i].counter = "none"
  BY StageIsPlain DEF Stages
<1>4. t \in Seq(TrainingMsg)
  <2> DEFINE m == Training("close_counter", exec.trigger, 0, 0, TRUE)
  <2>1. m \in TrainingMsg
    BY <1>1 DEF SupervisionTyped, TrainingMsg, Training
  <2>2. t = <<m>>
    OBVIOUS
  <2> HIDE DEF m, t
  <2> QED BY <2>1, <2>2
<1> HIDE DEF p, t, pc_
<1>5. Moves /\ exec'.trigger = exec.trigger /\ exec'.evals = exec.evals
  BY <1>1, <1>2 DEF Moves, SupervisionTyped, PlaceInv
<1>6. Says(p, t, <<>>)
  BY <1>2, <1>3, <1>4, <1>5, SaysPlainly
<1> QED BY <1>1, <1>5, <1>6, ExecutorSpeaks

LEMMA TwoJoined ==
  ASSUME NEW M, NEW s \in Seq(M), NEW t \in Seq(M), Len(s) = 1, Len(t) = 1
  PROVE  Len(s \o t) = 2 /\ (s \o t)[1] = s[1] /\ (s \o t)[2] = t[1]
<1> DEFINE c == s \o t
<1>1. /\ Len(c) = Len(s) + Len(t)
      /\ \A i \in 1 .. Len(s) + Len(t) : c[i] = IF i <= Len(s) THEN s[i] ELSE t[i - Len(s)]
  BY ConcatProperties
<1> HIDE DEF c
<1>2. Len(c) = 2 /\ \A i \in 1 .. 2 : c[i] = IF i <= 1 THEN s[i] ELSE t[i - 1]
  BY <1>1
<1>3. c[1] = s[1]
  BY <1>2
<1>4. c[2] = t[1]
  BY <1>2
<1> QED BY <1>2, <1>3, <1>4 DEF c

(* Evaluations on fixed datasets have no trackers; one of the matrix is    *)
(* announced with its tracker.                                             *)
LEMMA EvaluationStartsKeeps ==
  ASSUME SupervisionAssumption, SupervisionInv, process = "running",
         exec.pc = "evaluate", EvaluationStarts, ExecutorOnly
  PROVE  SupervisionInv'
<1>1. SupervisionTyped /\ PlaceInv
  BY DEF SupervisionInv
<1> DEFINE p == <<Stage("WAIT_FOR_EVALUATION_COMPLETION")>>
           ids == IF Evaluates
                    THEN [i \in DOMAIN config.eval_datasets |-> exec.next_eval + i - 1]
                    ELSE <<exec.next_eval>>
           counters == [i \in DOMAIN ids |-> Eval("create_counter", ids[i], 0)]
           trackers == IF Evaluates THEN <<>>
                       ELSE <<Eval("create_tracker", ids[1], 0)>>
<1>2. /\ exec' = [exec EXCEPT !.pc = "evaluating", !.evals = ToSet(ids),
                              !.next_eval = @ + Len(ids)]
      /\ PutAll(p, <<>>, trackers \o counters)
      /\ UNCHANGED <<process, exceptions>>
  BY Zenon DEF EvaluationStarts
<1>3. p \in Seq(PipelineMsg) /\ \A i \in 1 .. Len(p) : p[i].counter = "none"
  BY StageIsPlain DEF Stages
<1>4. \A id \in Nat : Eval("create_counter", id, 0) \in EvalMsg
  BY DEF EvalMsg, Eval
<1>5. /\ Len(ids) \in Nat /\ DOMAIN ids = 1 .. Len(ids) /\ \A i \in 1 .. Len(ids) : ids[i] \in Nat
      /\ ~ Evaluates => Len(ids) = 1 /\ ids[1] = exec.next_eval
  <2>1. CASE Evaluates
    <3> DEFINE names == config.eval_datasets
    <3>1. names \in Seq(STRING)
      BY <1>1, <2>1 DEF SupervisionAssumption, SupervisionTyped, Evaluates
    <3>2. DOMAIN names = 1 .. Len(names) /\ Len(names) \in Nat
      BY <3>1
    <3>3. ids = [i \in 1 .. Len(names) |-> exec.next_eval + i - 1]
      BY <2>1, <3>2
    <3> HIDE DEF ids, names
    <3> QED BY <1>1, <2>1, <3>2, <3>3 DEF SupervisionTyped
  <2>2. CASE ~ Evaluates
    <3>1. ids = <<exec.next_eval>>
      BY <2>2
    <3> HIDE DEF ids
    <3> QED BY <1>1, <2>2, <3>1 DEF SupervisionTyped
  <2> QED BY <2>1, <2>2
<1> HIDE DEF p, ids
<1>6. counters \in Seq(EvalMsg) /\ Len(counters) = Len(ids)
  <2>1. counters = [i \in 1 .. Len(ids) |-> Eval("create_counter", ids[i], 0)]
    BY <1>5
  <2> HIDE DEF counters
  <2> QED BY <1>4, <1>5, <2>1
<1>7. trackers \in Seq(EvalMsg)
  <2>1. CASE Evaluates
    <3>1. trackers = <<>>
      BY <2>1
    <3> QED BY <3>1
  <2>2. CASE ~ Evaluates
    <3> DEFINE m == Eval("create_tracker", ids[1], 0)
    <3>1. m \in EvalMsg
      BY <1>1, <1>5, <2>2 DEF SupervisionTyped, EvalMsg, Eval
    <3>2. trackers = <<m>>
      BY <2>2
    <3> HIDE DEF m, trackers
    <3> QED BY <3>1, <3>2
  <2> QED BY <2>1, <2>2
<1>8. ToSet(ids) \subseteq Nat /\
      (~ Evaluates => ToSet(ids) = {exec.next_eval})
  <2>1. ToSet(ids) = {ids[i] : i \in DOMAIN ids}
    BY DEF ToSet
  <2>2. Len(ids) = 1 => DOMAIN ids = {1}
    BY <1>5
  <2> QED BY <1>5, <2>1, <2>2
<1>9. /\ Moves /\ exec'.trigger = exec.trigger /\ exec'.evals = ToSet(ids)
  <2> DEFINE n == exec.next_eval + Len(ids)
             E == ToSet(ids)
  <2>1. exec' = [exec EXCEPT !.pc = "evaluating", !.evals = E, !.next_eval = n] /\ n \in Nat
    BY <1>1, <1>2, <1>5 DEF SupervisionTyped
  <2> HIDE DEF n, E
  <2>2. exec' = [pc |-> "evaluating", trigger |-> exec.trigger, answers |-> exec.answers,
                 seen |-> exec.seen, cells |-> exec.cells, next_eval |-> n, evals |-> E,
                 errors |-> exec.errors]
    BY <1>1, <2>1 DEF SupervisionTyped
  <2>3. E \subseteq Nat
    BY <1>8 DEF E
  <2>4. exec.trigger \in Nat /\ exec.trigger > 0 /\ (Evaluates \/ config.evaluation_matrix)
    BY <1>1 DEF SupervisionTyped, PlaceInv
  <2> QED BY <1>2, <2>1, <2>2, <2>3, <2>4 DEF Moves, E
<1>10. ASSUME ~ Evaluates
       PROVE  /\ InOrder(exec.evals, trackers \o counters, TrackerNeeds, TrackerGives)
              /\ exec'.evals \subseteq Have(exec.evals, trackers \o counters, TrackerGives)
  <2> DEFINE a == Eval("create_tracker", exec.next_eval, 0)
             b == Eval("create_counter", exec.next_eval, 0)
  <2>1. a \in EvalMsg /\ b \in EvalMsg
    BY <1>1 DEF SupervisionTyped, EvalMsg, Eval
  <2>2. /\ a.action = "create_tracker" /\ a.id = exec.next_eval
        /\ b.action = "create_counter" /\ b.id = exec.next_eval
    BY DEF Eval
  <2> DEFINE e == trackers \o counters
  <2>3. Len(e) = 2 /\ e[1] = a /\ e[2] = b
    <3>1. trackers = <<a>>
      BY <1>5, <1>10
    <3>2. Len(counters) = 1 /\ counters[1] = b
      <4>1. 1 \in DOMAIN ids
        BY <1>5, <1>10
      <4> QED BY <1>5, <1>6, <1>10, <4>1
    <3>4. /\ trackers \in Seq(EvalMsg) /\ Len(trackers) = 1 /\ trackers[1] = a
          /\ counters \in Seq(EvalMsg)
      <4> HIDE DEF a, counters
      <4> QED BY <1>6, <1>7, <3>1
    <3> HIDE DEF a, b, trackers, counters
    <3> QED BY <3>2, <3>4, TwoJoined
  <2> HIDE DEF a, b
  <2>4. /\ TrackerNeeds[a] = {} /\ TrackerGives[a] = {exec.next_eval}
        /\ TrackerNeeds[b] = {exec.next_eval}
    BY <2>1, <2>2 DEF TrackerNeeds, TrackerGives
  <2> HIDE DEF e
  <2>6. \A n \in 1 .. 2 : exec.next_eval \in HaveUpTo(exec.evals, e, TrackerGives, n)
    <3>1. \A n \in 1 .. 2 : 1 \in 1 .. n
      OBVIOUS
    <3> QED BY <2>3, <2>4, <3>1 DEF HaveUpTo
  <2>7. InOrder(exec.evals, e, TrackerNeeds, TrackerGives)
    <3> SUFFICES ASSUME NEW i \in 1 .. 2
                 PROVE  TrackerNeeds[e[i]] \subseteq HaveUpTo(exec.evals, e, TrackerGives, i - 1)
      BY <2>3 DEF InOrder
    <3>1. CASE i = 1
      BY <2>3, <2>4, <3>1
    <3>2. CASE i = 2
      <4>1. i - 1 = 1 /\ 1 \in 1 .. 2
        BY <3>2
      <4> QED BY <2>3, <2>4, <2>6, <3>2, <4>1
    <3> QED BY <3>1, <3>2
  <2>8. exec'.evals \subseteq Have(exec.evals, e, TrackerGives)
    <3>1. 2 \in 1 .. 2
      OBVIOUS
    <3> QED BY <1>8, <1>9, <1>10, <2>3, <2>6, <3>1 DEF Have
  <2> QED BY <2>7, <2>8 DEF e
<1>11. /\ trackers \o counters \in Seq(EvalMsg) /\ <<>> \in Seq(TrainingMsg)
  BY <1>6, <1>7, ConcatProperties
<1>12. InOrder(Drawn, p, BarNeeds, BarGives) /\ Drawn \subseteq Have(Drawn, p, BarGives)
  BY <1>3, Plain
<1>13. Drawn' = Drawn
  BY <1>9 DEF Drawn
<1> HIDE DEF trackers, counters
<1>14. Says(p, <<>>, trackers \o counters)
  BY <1>2, <1>3, <1>10, <1>11, <1>12, <1>13 DEF Says
<1> QED BY <1>9, <1>14, ExecutorSpeaks

LEMMA StartEvaluationKeeps ==
  ASSUME SupervisionAssumption, SupervisionInv, StartEvaluation
  PROVE  SupervisionInv'
<1> USE DEF StartEvaluation, At
<1>1. /\ process = "running" /\ exec.pc = "evaluate" /\ ExecutorOnly
      /\ SupervisionTyped /\ PlaceInv /\ ProcessInv
  BY DEF SupervisionInv
<1> DEFINE Ready == \/ Evaluates
                    \/ /\ config.has_num_prefetched_partitions
                       /\ config.dataset_id \in ToSet(config.eval_datasets)
<1>2. CASE Ready
  BY <1>1, <1>2, EvaluationStartsKeeps
<1>3. CASE ~ Ready
  <2>1. config.evaluation_matrix /\ ~ config.has_num_prefetched_partitions
    BY <1>1, <1>3 DEF PlaceInv, ProcessInv, Accepted, ValidContent
  <2>2. /\ Raise /\ UNCHANGED <<config, registered, exitcode, call, client>>
        /\ faults' \in Nat
    BY <1>1, <1>3 DEF SupervisionTyped, ExecutorOnly
  <2> QED BY <1>1, <2>1, <2>2, ExecutorRaised
<1> QED BY <1>2, <1>3

LEMMA EvaluationAnswerKeeps ==
  ASSUME SupervisionAssumption, SupervisionInv, EvaluationAnswer
  PROVE  SupervisionInv'
<1>1. /\ process = "running" /\ exec.pc = "evaluating" /\ SupervisionTyped /\ PlaceInv
      /\ ExecutorOnly /\ UNCHANGED <<process, exceptions>>
  BY DEF SupervisionInv, EvaluationAnswer, At
<1>2. PICK id \in exec.evals, outcome \in {"seen_half", "ended", "failed"} :
        /\ exec' = [exec EXCEPT !.answers = IF outcome = "seen_half" THEN @ + 1 ELSE @,
                                !.evals = IF outcome = "seen_half" THEN @ ELSE @ \ {id},
                                !.errors = IF outcome = "failed" THEN @ + 1 ELSE @]
        /\ PutAll(<<>>, <<>>,
             <<CASE outcome = "seen_half" ->
                      Eval("progress_counter", id, SamplesPerTrigger \div 2)
                 [] outcome = "ended" -> Eval("end_counter", id, FALSE)
                 [] outcome = "failed" -> Eval("end_counter", id, TRUE)>>)
  BY Zenon DEF EvaluationAnswer
<1> DEFINE m == CASE outcome = "seen_half" ->
                       Eval("progress_counter", id, SamplesPerTrigger \div 2)
                  [] outcome = "ended" -> Eval("end_counter", id, FALSE)
                  [] outcome = "failed" -> Eval("end_counter", id, TRUE)
           E == IF outcome = "seen_half" THEN exec.evals ELSE exec.evals \ {id}
           n == IF outcome = "seen_half" THEN exec.answers + 1 ELSE exec.answers
           k == IF outcome = "failed" THEN exec.errors + 1 ELSE exec.errors
<1>3. PutAll(<<>>, <<>>, <<m>>)
  BY <1>2
<1>4. exec' = [exec EXCEPT !.answers = n, !.evals = E, !.errors = k] /\ E \subseteq exec.evals
  BY <1>2
<1>5. m \in EvalMsg /\ m.id = id
  <2>0. id \in Nat
    BY <1>1 DEF SupervisionTyped
  <2>1. SamplesPerTrigger \div 2 \in Int
    BY DEF SupervisionAssumption
  <2>2. /\ Eval("progress_counter", id, SamplesPerTrigger \div 2) \in EvalMsg
        /\ Eval("end_counter", id, FALSE) \in EvalMsg
        /\ Eval("end_counter", id, TRUE) \in EvalMsg
    BY <2>0, <2>1 DEF EvalMsg, Eval
  <2>3. /\ Eval("progress_counter", id, SamplesPerTrigger \div 2).id = id
        /\ Eval("end_counter", id, FALSE).id = id
        /\ Eval("end_counter", id, TRUE).id = id
    BY DEF Eval
  <2> QED BY <2>2, <2>3
<1> HIDE DEF m, E, n, k
<1>6. exec' = [pc |-> "evaluating", trigger |-> exec.trigger, answers |-> n, seen |-> exec.seen,
               cells |-> exec.cells, next_eval |-> exec.next_eval, evals |-> E, errors |-> k]
  BY <1>1, <1>4 DEF SupervisionTyped
<1>7. Moves /\ exec'.trigger = exec.trigger /\ exec'.evals \subseteq exec.evals
  BY <1>1, <1>4, <1>6 DEF Moves, SupervisionTyped, PlaceInv, ExecutorOnly
<1>8. /\ InOrder(exec.evals, <<m>>, TrackerNeeds, TrackerGives)
      /\ exec.evals \subseteq Have(exec.evals, <<m>>, TrackerGives)
  <2> DEFINE e == <<m>>
  <2>1. Len(e) = 1 /\ e[1] = m
    OBVIOUS
  <2>2. TrackerNeeds[m] \subseteq {id}
    BY <1>5 DEF TrackerNeeds
  <2> HIDE DEF e
  <2>3. InOrder(exec.evals, e, TrackerNeeds, TrackerGives)
    BY <2>1, <2>2 DEF InOrder, HaveUpTo
  <2>4. exec.evals \subseteq Have(exec.evals, e, TrackerGives)
    BY DEF Have, HaveUpTo
  <2> QED BY <2>3, <2>4 DEF e
<1>9. InOrder(Drawn, <<>>, BarNeeds, BarGives) /\ Drawn' = Drawn /\ Have(Drawn, <<>>, BarGives) = Drawn
  <2>1. Drawn' = Drawn
    BY <1>7 DEF Drawn
  <2> QED BY <2>1, InOrderNone
<1>10. <<>> \in Seq(PipelineMsg) /\ <<>> \in Seq(TrainingMsg) /\ <<m>> \in Seq(EvalMsg)
  BY <1>5
<1>11. Says(<<>>, <<>>, <<m>>)
  BY <1>3, <1>7, <1>8, <1>9, <1>10 DEF Says
<1> QED BY <1>1, <1>7, <1>11, ExecutorSpeaks

LEMMA EvaluationCompletedKeeps ==
  ASSUME SupervisionInv, EvaluationCompleted
  PROVE  SupervisionInv'
<1>1. /\ process = "running" /\ exec.pc = "evaluating" /\ SupervisionTyped /\ PlaceInv /\ ProcessInv
      /\ ExecutorOnly
  BY DEF SupervisionInv, EvaluationCompleted, At
<1>2. CASE /\ Goto("handled") /\ UNCHANGED <<process, exceptions>>
           /\ PutAll(<<Stage("EVALUATION_COMPLETED"),
                                   Stage("STORE_EVALUATION_RESULTS")>>, <<>>, <<>>)
  <2> DEFINE p == <<Stage("EVALUATION_COMPLETED"),
                    Stage("STORE_EVALUATION_RESULTS")>>
  <2>1. PutAll(p, <<>>, <<>>)
    BY <1>2
  <2>2. p \in Seq(PipelineMsg) /\ \A i \in 1 .. Len(p) : p[i].counter = "none"
    BY StageIsPlain DEF Stages
  <2>3. <<>> \in Seq(TrainingMsg)
    OBVIOUS
  <2> HIDE DEF p
  <2>4. Moves /\ exec'.trigger = exec.trigger /\ exec'.evals = exec.evals
    BY <1>1, <1>2 DEF Moves, SupervisionTyped, PlaceInv, Goto, ExecutorOnly
  <2>5. Says(p, <<>>, <<>>)
    BY <2>1, <2>2, <2>3, <2>4, SaysPlainly
  <2> QED BY <1>1, <2>4, <2>5, ExecutorSpeaks
<1>3. CASE /\ exec' = [exec EXCEPT !.pc = "matrix", !.cells = @ + 1, !.answers = 0]
           /\ UNCHANGED <<process, exceptions>>
           /\ PutAll(<<Stage("EVALUATION_COMPLETED")>>, <<>>, <<>>)
  <2> DEFINE p == <<Stage("EVALUATION_COMPLETED")>>
  <2>1. PutAll(p, <<>>, <<>>)
    BY <1>3
  <2>2. p \in Seq(PipelineMsg) /\ \A i \in 1 .. Len(p) : p[i].counter = "none"
    BY StageIsPlain DEF Stages
  <2>3. <<>> \in Seq(TrainingMsg)
    OBVIOUS
  <2> HIDE DEF p
  <2>4. Moves /\ exec'.trigger = exec.trigger /\ exec'.evals = exec.evals
    BY <1>1, <1>3 DEF Moves, SupervisionTyped, PlaceInv, ExecutorOnly
  <2>5. Says(p, <<>>, <<>>)
    BY <2>1, <2>2, <2>3, <2>4, SaysPlainly
  <2> QED BY <1>1, <2>4, <2>5, ExecutorSpeaks
<1>4. CASE Evaluates /\ ~ config.result_writers \subseteq SupportedWriters
  BY <1>1, <1>4 DEF ProcessInv, Accepted, ValidContent,
     ValidEvaluation, Evaluates
<1> QED BY <1>2, <1>3, <1>4 DEF EvaluationCompleted

LEMMA NewDataHandledKeeps ==
  ASSUME SupervisionInv, NewDataHandled
  PROVE  SupervisionInv'
<1>1. /\ process = "running" /\ exec.pc = "handled" /\ SupervisionTyped /\ PlaceInv
      /\ ExecutorOnly /\ UNCHANGED <<process, exceptions>> /\ Goto("data")
  BY DEF SupervisionInv, NewDataHandled, At
<1> DEFINE p == <<Stage("HANDLE_TRIGGERS_WITHIN_BATCH"),
                  Counter("NEW_DATA_HANDLED", "close")>>
<1>2. PutAll(p, <<>>, <<>>)
  BY Zenon DEF NewDataHandled
<1>3. /\ p \in Seq(PipelineMsg) /\ Len(p) = 2
      /\ \A i \in 1 .. 2 : BarNeeds[p[i]] \subseteq {"bar"}
  BY StageIsPlain, CounterMessage DEF BarNeeds, Stages
<1> HIDE DEF p
<1>4. Moves /\ exec'.trigger = exec.trigger /\ exec'.evals = exec.evals
  BY <1>1 DEF Moves, SupervisionTyped, Goto, ExecutorOnly
<1>5. Drawn = {"bar"} /\ Drawn' = Drawn
  BY <1>1, <1>4 DEF Drawn, PlaceInv
<1>6. InOrder(Drawn, p, BarNeeds, BarGives) /\ Drawn \subseteq Have(Drawn, p, BarGives)
  BY <1>3, <1>5 DEF InOrder, Have, HaveUpTo
<1>7. /\ InOrder(exec.evals, <<>>, TrackerNeeds, TrackerGives)
      /\ Have(exec.evals, <<>>, TrackerGives) = exec.evals
  BY InOrderNone
<1>8. <<>> \in Seq(TrainingMsg) /\ <<>> \in Seq(EvalMsg)
  OBVIOUS
<1>9. Says(p, <<>>, <<>>)
  BY <1>2, <1>3, <1>4, <1>5, <1>6, <1>7, <1>8 DEF Says
<1> QED BY <1>1, <1>4, <1>9, ExecutorSpeaks

LEMMA ReplayDoneKeeps ==
  ASSUME SupervisionAssumption, SupervisionInv, ReplayDone
  PROVE  SupervisionInv'
<1>1. /\ process = "running" /\ exec.trigger = MaxTriggers /\ SupervisionTyped
      /\ ExecutorOnly /\ UNCHANGED <<process, exceptions>> /\ Goto("matrix")
  BY DEF SupervisionInv, ReplayDone, At
<1> DEFINE p == <<Stage("REPLAY_DATA_DONE")>>
<1>2. PutAll(p, <<>>, <<>>)
  BY Zenon DEF ReplayDone
<1>3. p \in Seq(PipelineMsg) /\ \A i \in 1 .. Len(p) : p[i].counter = "none"
  BY StageIsPlain DEF Stages
<1>4. <<>> \in Seq(TrainingMsg) /\ MaxTriggers > 0
  BY DEF SupervisionAssumption
<1> HIDE DEF p
<1>5. Moves /\ exec'.trigger = exec.trigger /\ exec'.evals = exec.evals
  BY <1>1, <1>4 DEF Moves, SupervisionTyped, Goto, ExecutorOnly
<1>6. Says(p, <<>>, <<>>)
  BY <1>2, <1>3, <1>4, <1>5, SaysPlainly
<1> QED BY <1>1, <1>5, <1>6, ExecutorSpeaks

LEMMA NextCellKeeps ==
  ASSUME SupervisionInv, NextCell
  PROVE  SupervisionInv'
<1>1. /\ process = "running" /\ exec.pc = "matrix" /\ SupervisionTyped /\ PlaceInv
      /\ MessagesTyped /\ BarTold /\ TrackersTold /\ config.evaluation_matrix
      /\ ExecutorOnly /\ UNCHANGED <<process, exceptions, queue>>
      /\ exec' = [exec EXCEPT !.pc = "evaluate"]
  BY DEF SupervisionInv, NextCell, At, Goto
<1>2. /\ Moves /\ exec'.trigger = exec.trigger /\ exec'.evals = exec.evals
  BY <1>1 DEF Moves, SupervisionTyped, PlaceInv, ExecutorOnly
<1>3. UNCHANGED <<config, queue, call, client, process>>
  BY <1>1 DEF ExecutorOnly
<1>4. MessagesTyped' /\ BarTold' /\ TrackersTold'
  BY <1>1, <1>2, <1>3 DEF MessagesTyped, BarTold, TrackersTold, PipelineTold, EvalTold, Listens, Bar,
     Drawn, Evaluates, BarNeeds, BarGives, TrackerNeeds, TrackerGives, Queues,
     TrainingMsg, EvalMsg, PipelineMsg
<1> QED BY <1>1, <1>2, <1>4, ExecutorMoves

LEMMA ExecutionDoneKeeps ==
  ASSUME SupervisionInv, ExecutionDone
  PROVE  SupervisionInv'
<1>1. /\ process = "running" /\ exec.pc = "matrix" /\ SupervisionTyped /\ PlaceInv
      /\ ExecutorOnly /\ UNCHANGED exceptions /\ process' = "exiting"
      /\ exec' = [exec EXCEPT !.pc = "done"]
  BY DEF SupervisionInv, ExecutionDone, At, Goto
<1> DEFINE p == <<Stage("DONE")>>
<1>2. PutAll(p, <<>>, <<>>)
  BY Zenon DEF ExecutionDone
<1>3. p \in Seq(PipelineMsg) /\ \A i \in 1 .. Len(p) : p[i].counter = "none"
  BY StageIsPlain DEF Stages
<1>4. <<>> \in Seq(TrainingMsg)
  OBVIOUS
<1> HIDE DEF p
<1>5. Moves /\ exec'.trigger = exec.trigger /\ exec'.evals = exec.evals
  BY <1>1 DEF Moves, SupervisionTyped, PlaceInv, ExecutorOnly
<1>6. Says(p, <<>>, <<>>)
  BY <1>2, <1>3, <1>4, <1>5, SaysPlainly
<1> QED BY <1>1, <1>5, <1>6, ExecutorSpeaks

LEMMA ExecutorRaisesKeeps ==
  ASSUME SupervisionInv, ExecutorRaises
  PROVE  SupervisionInv'
<1>1. /\ process = "running" /\ Raise /\ faults' = faults + 1 /\ SupervisionTyped
      /\ UNCHANGED <<config, registered, exitcode, call, client>>
  BY DEF SupervisionInv, ExecutorRaises
<1>2. faults' \in Nat /\ faults' > 0
  BY <1>1 DEF SupervisionTyped
<1> QED BY <1>1, <1>2, ExecutorRaised
-----------------------------------------------------------------------------
(* The start of the process and its end.                                   *)
LEMMA StartRequestKeeps ==
  ASSUME SupervisionInv,
         StartPipeline \/ Reject \/ RegisterFails
  PROVE  SupervisionInv'
<1> DEFINE s == IF StartPipeline THEN "polling" ELSE "rejected"
<1>1. /\ SupervisionTyped /\ MessagesTyped /\ CallInv /\ ProcessInv /\ PlaceInv /\ BarTold
      /\ TrackersTold /\ VerdictInv
  BY DEF SupervisionInv
<1>2. /\ client.state = "starting" /\ client' = [client EXCEPT !.state = s]
      /\ UNCHANGED <<config, exitcode, exec, queue, exceptions, call>>
      /\ faults' \in {faults, faults + 1}
      /\ s \in {"polling", "rejected"}
      /\ s = "polling" => Accepted(config) /\ process' = "running" /\ registered'
      /\ s = "rejected" => UNCHANGED <<process, registered>>
  BY DEF StartPipeline, Reject, RegisterFails,
     StartRequest
<1> HIDE DEF s
<1>3. process = "none" /\ call = NoCall /\ exec.trigger = 0 /\ exec.evals = {} /\ ~ registered
      /\ exec.pc = "connect" /\ exitcode = 0
  BY <1>1, <1>2 DEF ProcessInv
<1>4. client' = [state |-> s, tracker |-> client.tracker, evaluations |-> client.evaluations,
                 pbar |-> client.pbar, eval_err_count |-> client.eval_err_count,
                 verdict |-> client.verdict]
  BY <1>1, <1>2 DEF SupervisionTyped, ClientForm
<1>5. /\ client'.state = s /\ client'.evaluations = client.evaluations /\ client'.pbar = client.pbar
      /\ client'.verdict = client.verdict
  BY <1>4
<1>6. SupervisionTyped'
  BY <1>1, <1>2, <1>4 DEF SupervisionTyped, ClientForm
<1>7. MessagesTyped'
  BY <1>1, <1>2 DEF MessagesTyped, Queues, TrainingMsg, EvalMsg, PipelineMsg
<1>8. CallInv'
  <2>1. call.at = "idle"
    BY <1>3 DEF NoCall
  <2> QED BY <1>1, <1>2, <1>3, <2>1 DEF CallInv, NoCall
<1>9. ProcessInv'
  <2>1. exceptions = <<>>
    BY <1>1, <1>3 DEF ProcessInv
  <2>2. Accepted(config)' <=> Accepted(config)
    BY <1>2 DEF Accepted, ValidContent,
       ValidTraining, ValidEvaluation, ValidSystem,
       DatasetAvailable, TrainerServerAvailable
  <2>3. EXCEPTION_EXITCODE # 0
    BY DEF EXCEPTION_EXITCODE
  <2> QED BY <1>2, <1>3, <1>5, <2>1, <2>2, <2>3 DEF ProcessInv, NoCall
<1>10. PlaceInv'
  BY <1>2, <1>3 DEF PlaceInv
<1>11. BarTold'
  <2>1. /\ PipelineTold' = PipelineTold /\ Bar(client)' = Bar(client) /\ Drawn' = {}
        /\ Listens
    BY <1>2, <1>3, <1>5 DEF PipelineTold, Bar, Drawn, Listens
  <2>2. BarNeeds' = BarNeeds /\ BarGives' = BarGives
    BY DEF BarNeeds, BarGives
  <2> QED BY <1>1, <2>1, <2>2 DEF BarTold
<1>12. TrackersTold'
  <2>1. /\ EvalTold' = EvalTold /\ Listens /\ exec'.evals = {}
        /\ Evaluates' = Evaluates
    BY <1>2, <1>3 DEF EvalTold, Listens, Evaluates
  <2> QED BY <1>1, <1>5, <2>1 DEF TrackersTold
<1>13. VerdictInv'
  BY <1>1, <1>2, <1>3, <1>5 DEF VerdictInv, KilledExitcode
<1> QED BY <1>6, <1>7, <1>8, <1>9, <1>10, <1>11, <1>12, <1>13 DEF SupervisionInv

(* A step of the process alone, which does not run after it.               *)
LEMMA ProcessEnds ==
  ASSUME SupervisionInv, process' = "dead",
         UNCHANGED <<config, registered, exec, call, client>>,
         faults' \in Nat, faults' >= faults, exceptions' \in {exceptions, <<>>},
         process \in {"running", "exiting"},
         exitcode' \in {0, EXCEPTION_EXITCODE, KilledExitcode},
         exitcode' = 0 => exec.pc = "done",
         exitcode' = EXCEPTION_EXITCODE => exceptions' # <<>>,
         MessagesTyped', BarTold', TrackersTold'
  PROVE  SupervisionInv'
<1> USE DEF SupervisionInv
<1>0. exceptions' \in Seq({"traceback"})
  <2>1. <<>> \in Seq({"traceback"})
    OBVIOUS
  <2> QED BY <2>1 DEF SupervisionTyped
<1>1. SupervisionTyped'
  BY <1>0 DEF SupervisionTyped, ClientForm
<1>2. CallInv'
  BY DEF CallInv, NoCall
<1>3. ProcessInv'
  BY DEF ProcessInv, NoCall, Accepted, ValidContent,
     ValidTraining, ValidEvaluation, ValidSystem,
     DatasetAvailable, TrainerServerAvailable,
     EXCEPTION_EXITCODE, KilledExitcode
<1>4. PlaceInv'
  <2>1. faults > 0 => faults' > 0
    BY DEF SupervisionTyped
  <2> QED BY <2>1 DEF PlaceInv, Evaluates, Requestable
<1>5. VerdictInv'
  BY DEF VerdictInv, ProcessInv, Evaluates, KilledExitcode
<1> QED BY <1>1, <1>2, <1>3, <1>4, <1>5

LEMMA ExitKeeps ==
  ASSUME SupervisionInv, Exit
  PROVE  SupervisionInv'
<1>1. /\ process = "exiting" /\ process' = "dead"
      /\ exitcode' = IF exec.pc = "done" THEN 0 ELSE EXCEPTION_EXITCODE
      /\ UNCHANGED <<config, registered, exec, queue, exceptions, call, client, faults>>
  BY DEF Exit
<1>2. SupervisionTyped /\ MessagesTyped /\ ProcessInv /\ BarTold /\ TrackersTold
  BY DEF SupervisionInv
<1>3. MessagesTyped' /\ BarTold' /\ TrackersTold'
  BY <1>1, <1>2 DEF MessagesTyped, BarTold, TrackersTold, PipelineTold, EvalTold, Listens, Bar,
     Drawn, Evaluates, BarNeeds, BarGives, TrackerNeeds, TrackerGives, Queues,
     TrainingMsg, EvalMsg, PipelineMsg
<1>4. faults' \in Nat /\ faults' >= faults
  BY <1>1, <1>2 DEF SupervisionTyped
<1>5. /\ exitcode' = 0 => exec.pc = "done"
      /\ exitcode' = EXCEPTION_EXITCODE => exceptions' # <<>>
      /\ exitcode' \in {0, EXCEPTION_EXITCODE, KilledExitcode}
  BY <1>1, <1>2 DEF ProcessInv, EXCEPTION_EXITCODE, KilledExitcode
<1> QED BY <1>1, <1>3, <1>4, <1>5, ProcessEnds

LEMMA CutTyped ==
  ASSUME NEW M, NEW b \in Seq(M), NEW n \in 0 .. Len(b)
  PROVE  SubSeq(b, 1, n) \in Seq(M)
OBVIOUS

LEMMA InOrderCut ==
  ASSUME NEW M, NEW a \in Seq(M), NEW b \in Seq(M), NEW n \in 0 .. Len(b), NEW D, NEW needs, NEW gives,
         InOrder(D, a \o b, needs, gives)
  PROVE  InOrder(D, a \o SubSeq(b, 1, n), needs, gives)
<1> DEFINE c == SubSeq(b, 1, n)
<1>1. c \in Seq(M)
  BY CutTyped
<1>2. InOrder(D, a, needs, gives) /\ InOrder(Have(D, a, gives), b, needs, gives)
  BY InOrderJoined
<1>3. InOrder(Have(D, a, gives), c, needs, gives)
  BY <1>2, InOrderPrefix
<1> HIDE DEF c
<1>4. InOrder(D, a \o c, needs, gives)
  BY <1>1, <1>2, <1>3, InOrderJoined
<1> QED BY <1>1, <1>4 DEF c

LEMMA ExecutorKilledKeeps ==
  ASSUME SupervisionAssumption, SupervisionInv, ExecutorKilled
  PROVE  SupervisionInv'
<1>1. /\ process \in {"running", "exiting"} /\ faults' = faults + 1
      /\ process' = "dead" /\ exitcode' = KilledExitcode
      /\ exceptions' = <<>>
      /\ UNCHANGED <<config, registered, exec, call, client>>
      /\ queue' = [q \in Queues |->
                     SubSeq(queue[q], 1, Min({PipeSize, Len(queue[q])}))]
  BY DEF ExecutorKilled
<1>2. SupervisionTyped /\ MessagesTyped /\ BarTold /\ TrackersTold
  BY DEF SupervisionInv
<1>3. ASSUME NEW n \in Nat PROVE Min({PipeSize, n}) \in 0 .. n
  <2>1. PipeSize \in Nat
    BY DEF SupervisionAssumption
  <2>2. PICK m \in {PipeSize, n} : \A y \in {PipeSize, n} : m <= y
    BY <2>1
  <2>3. /\ Min({PipeSize, n}) \in {PipeSize, n}
        /\ \A y \in {PipeSize, n} : Min({PipeSize, n}) <= y
    BY <2>2, Zenon DEF Min
  <2> HIDE DEF Min
  <2> QED BY <2>1, <2>3
<1> DEFINE k(q) == Min({PipeSize, Len(queue[q])})
<1>4. /\ queue["pipeline"] \in Seq(PipelineMsg) /\ k("pipeline") \in 0 .. Len(queue["pipeline"])
      /\ queue["training"] \in Seq(TrainingMsg) /\ k("training") \in 0 .. Len(queue["training"])
      /\ queue["eval"] \in Seq(EvalMsg) /\ k("eval") \in 0 .. Len(queue["eval"])
      /\ call.pipeline \in Seq(PipelineMsg) /\ call.eval \in Seq(EvalMsg)
  <2>1. /\ queue["pipeline"] \in Seq(PipelineMsg) /\ queue["training"] \in Seq(TrainingMsg)
        /\ queue["eval"] \in Seq(EvalMsg)
        /\ call.pipeline \in Seq(PipelineMsg) /\ call.eval \in Seq(EvalMsg)
    BY <1>2 DEF MessagesTyped
  <2>2. Len(queue["pipeline"]) \in Nat /\ Len(queue["training"]) \in Nat /\ Len(queue["eval"]) \in Nat
    BY <2>1
  <2> QED BY <1>3, <2>1, <2>2
<1>5. /\ queue'["pipeline"] = SubSeq(queue["pipeline"], 1, k("pipeline"))
      /\ queue'["training"] = SubSeq(queue["training"], 1, k("training"))
      /\ queue'["eval"] = SubSeq(queue["eval"], 1, k("eval"))
      /\ queue' = [q \in Queues |-> queue'[q]]
  BY <1>1 DEF Queues
<1> HIDE DEF k
<1>6. MessagesTyped'
  <2>1. /\ queue'["pipeline"] \in Seq(PipelineMsg) /\ queue'["training"] \in Seq(TrainingMsg)
        /\ queue'["eval"] \in Seq(EvalMsg)
    BY <1>4, <1>5, CutTyped
  <2> QED BY <1>1, <1>2, <1>5, <2>1 DEF MessagesTyped, TrainingMsg, EvalMsg, PipelineMsg
<1>7. BarTold'
  <2> SUFFICES ASSUME Listens
               PROVE  InOrder(Bar(client), call.pipeline \o queue'["pipeline"], BarNeeds, BarGives)
    BY <1>1 DEF BarTold, Listens, Bar, BarNeeds, BarGives, PipelineTold
  <2> DEFINE a == call.pipeline
             b == queue["pipeline"]
             n == k("pipeline")
             D == Bar(client)
  <2>1. a \in Seq(PipelineMsg) /\ b \in Seq(PipelineMsg) /\ n \in 0 .. Len(b)
    BY <1>4
  <2>2. InOrder(D, a \o b, BarNeeds, BarGives)
    BY <1>2 DEF BarTold, PipelineTold
  <2>3. queue'["pipeline"] = SubSeq(b, 1, n)
    BY <1>5
  <2> HIDE DEF a, b, n, D
  <2>4. InOrder(D, a \o SubSeq(b, 1, n), BarNeeds, BarGives)
    BY <2>1, <2>2, InOrderCut
  <2> QED BY <2>3, <2>4 DEF a, D
<1>8. TrackersTold'
  <2> SUFFICES ASSUME Listens, ~ Evaluates
               PROVE  InOrder(DOMAIN client.evaluations, call.eval \o queue'["eval"], TrackerNeeds,
                              TrackerGives)
    BY <1>1 DEF TrackersTold, Listens, TrackerNeeds, TrackerGives, EvalTold, Evaluates
  <2> DEFINE a == call.eval
             b == queue["eval"]
             n == k("eval")
             D == DOMAIN client.evaluations
  <2>1. a \in Seq(EvalMsg) /\ b \in Seq(EvalMsg) /\ n \in 0 .. Len(b)
    BY <1>4
  <2>2. InOrder(D, a \o b, TrackerNeeds, TrackerGives)
    BY <1>2 DEF TrackersTold, EvalTold
  <2>3. queue'["eval"] = SubSeq(b, 1, n)
    BY <1>5
  <2> HIDE DEF a, b, n, D
  <2>4. InOrder(D, a \o SubSeq(b, 1, n), TrackerNeeds, TrackerGives)
    BY <2>1, <2>2, InOrderCut
  <2> QED BY <2>3, <2>4 DEF a, D
<1>9. faults' \in Nat /\ faults' >= faults
  BY <1>1, <1>2 DEF SupervisionTyped
<1>10. /\ KilledExitcode # 0
       /\ KilledExitcode # EXCEPTION_EXITCODE
  BY DEF KilledExitcode, EXCEPTION_EXITCODE
<1> QED BY <1>1, <1>6, <1>7, <1>8, <1>9, <1>10, ProcessEnds
-----------------------------------------------------------------------------
(* The status call.  A queue that is taken into an empty place of the call *)
(* leaves what the client will be told as it was.                          *)
LEMMA Taken ==
  ASSUME SupervisionInv, NEW q \in Queues, Take(q),
         q = "pipeline" => call = NoCall,
         q = "training" => call.at = "training",
         q = "eval" => call.at = "eval",
         client.state = "polling",
         UNCHANGED <<config, registered, process, exitcode, exec, exceptions, client, faults>>
  PROVE  SupervisionInv' /\ TrainingTold' = TrainingTold
<1>1. /\ SupervisionTyped /\ MessagesTyped /\ CallInv /\ ProcessInv /\ PlaceInv /\ BarTold
      /\ TrackersTold /\ VerdictInv
  BY DEF SupervisionInv
<1> DEFINE at == AfterQueue(q)
           Q == [r \in Queues |-> IF r = q THEN <<>> ELSE queue[r]]
           C == [at |-> at,
                 pipeline |-> IF q = "pipeline" THEN queue[q] ELSE call.pipeline,
                 training |-> IF q = "training" THEN queue[q] ELSE call.training,
                 eval |-> IF q = "eval" THEN queue[q] ELSE call.eval]
<1>2. queue' = Q
  <2>1. queue = [r \in Queues |-> queue[r]] /\ queue' = [queue EXCEPT ![q] = <<>>]
    BY <1>1 DEF MessagesTyped, Take
  <2> QED BY <2>1
<1>3. q \in {"pipeline", "training", "eval"}
  BY DEF Queues
<1>4. call' = C
  <2> DEFINE m == queue[q]
  <2>1. /\ call = [at |-> call.at, pipeline |-> call.pipeline, training |-> call.training,
                   eval |-> call.eval]
        /\ call' = [[call EXCEPT !.at = at] EXCEPT ![q] = m]
    BY <1>1 DEF MessagesTyped, Take
  <2> HIDE DEF at, m
  <2>2. [call EXCEPT !.at = at] = [at |-> at, pipeline |-> call.pipeline,
                                   training |-> call.training, eval |-> call.eval]
    BY <2>1
  <2> DEFINE c == [at |-> at, pipeline |-> call.pipeline, training |-> call.training,
                   eval |-> call.eval]
  <2>3. call' = [c EXCEPT ![q] = m]
    BY <2>1, <2>2
  <2>4. CASE q = "pipeline"
    BY <2>3, <2>4 DEF m
  <2>5. CASE q = "training"
    BY <2>3, <2>5 DEF m
  <2>6. CASE q = "eval"
    BY <2>3, <2>6 DEF m
  <2> QED BY <1>3, <2>4, <2>5, <2>6
<1>5. /\ at \in {"training", "eval", "alive"}
      /\ at = "training" => q = "pipeline"
      /\ at = "eval" => q = "training"
      /\ at = "alive" => q = "eval"
  BY <1>3 DEF AfterQueue
<1> HIDE DEF at
<1>6. /\ call'.at = at
      /\ call'.pipeline = IF q = "pipeline" THEN queue[q] ELSE call.pipeline
      /\ call'.training = IF q = "training" THEN queue[q] ELSE call.training
      /\ call'.eval = IF q = "eval" THEN queue[q] ELSE call.eval
      /\ queue'["pipeline"] = IF q = "pipeline" THEN <<>> ELSE queue["pipeline"]
      /\ queue'["training"] = IF q = "training" THEN <<>> ELSE queue["training"]
      /\ queue'["eval"] = IF q = "eval" THEN <<>> ELSE queue["eval"]
      /\ queue' = [r \in Queues |-> queue'[r]]
      /\ call' = [at |-> call'.at, pipeline |-> call'.pipeline, training |-> call'.training,
                  eval |-> call'.eval]
  <2>1. {"pipeline", "training", "eval"} \subseteq Queues
    BY DEF Queues
  <2> QED BY <1>2, <1>4, <2>1
<1> HIDE DEF Q, C
<1>7. /\ q = "pipeline" => call.pipeline = <<>> /\ call.training = <<>> /\ call.eval = <<>>
      /\ q = "training" => call.training = <<>> /\ call.eval = <<>>
      /\ q = "eval" => call.eval = <<>>
  BY <1>1 DEF CallInv, NoCall
<1>8. /\ queue["pipeline"] \in Seq(PipelineMsg) /\ queue["training"] \in Seq(TrainingMsg)
      /\ queue["eval"] \in Seq(EvalMsg)
      /\ call.pipeline \in Seq(PipelineMsg) /\ call.training \in Seq(TrainingMsg)
      /\ call.eval \in Seq(EvalMsg)
  BY <1>1 DEF MessagesTyped
<1>9. <<>> \in Seq(PipelineMsg) /\ <<>> \in Seq(TrainingMsg) /\ <<>> \in Seq(EvalMsg)
  OBVIOUS
<1>10. PipelineTold' = PipelineTold
  <2>1. CASE q = "pipeline"
    <3>1. PipelineTold = <<>> \o queue["pipeline"] /\ PipelineTold' = queue["pipeline"] \o <<>>
      BY <1>6, <1>7, <2>1 DEF PipelineTold
    <3> QED BY <1>8, <3>1, ConcatEmptySeq
  <2>2. CASE q # "pipeline"
    BY <1>6, <2>2 DEF PipelineTold
  <2> QED BY <2>1, <2>2
<1>11. EvalTold' = EvalTold
  <2>1. CASE q = "eval"
    <3>1. EvalTold = <<>> \o queue["eval"] /\ EvalTold' = queue["eval"] \o <<>>
      BY <1>6, <1>7, <2>1 DEF EvalTold
    <3> QED BY <1>8, <3>1, ConcatEmptySeq
  <2>2. CASE q # "eval"
    BY <1>6, <2>2 DEF EvalTold
  <2> QED BY <2>1, <2>2
<1>18. TrainingTold' = TrainingTold
  <2>1. CASE q = "training"
    <3>1. TrainingTold = <<>> \o queue["training"] /\ TrainingTold' = queue["training"] \o <<>>
      BY <1>6, <1>7, <2>1 DEF TrainingTold
    <3> QED BY <1>8, <3>1, ConcatEmptySeq
  <2>2. CASE q # "training"
    BY <1>6, <2>2 DEF TrainingTold
  <2> QED BY <2>1, <2>2
<1>12. MessagesTyped'
  <2>1. /\ queue'["pipeline"] \in Seq(PipelineMsg) /\ queue'["training"] \in Seq(TrainingMsg)
        /\ queue'["eval"] \in Seq(EvalMsg)
        /\ call'.pipeline \in Seq(PipelineMsg) /\ call'.training \in Seq(TrainingMsg)
        /\ call'.eval \in Seq(EvalMsg)
    BY <1>6, <1>8, <1>9
  <2> QED BY <1>6, <2>1 DEF MessagesTyped, TrainingMsg, EvalMsg, PipelineMsg
<1>13. BarTold' /\ TrackersTold'
  <2>1. /\ Listens' = Listens /\ Bar(client)' = Bar(client) /\ Drawn' = Drawn
        /\ BarNeeds' = BarNeeds /\ BarGives' = BarGives
        /\ TrackerNeeds' = TrackerNeeds /\ TrackerGives' = TrackerGives
        /\ Evaluates' = Evaluates
    BY DEF Listens, Bar, Drawn, BarNeeds, BarGives, TrackerNeeds, TrackerGives, Evaluates
  <2> QED BY <1>1, <1>10, <1>11, <2>1 DEF BarTold, TrackersTold
<1>14. SupervisionTyped'
  BY <1>1 DEF SupervisionTyped, ClientForm
<1>15. CallInv'
  <2>1. /\ call'.at = "training" => call'.training = <<>>
        /\ call'.at \in {"training", "eval"} => call'.eval = <<>>
    BY <1>3, <1>5, <1>6, <1>7
  <2> QED BY <1>5, <1>6, <2>1 DEF CallInv
<1>16. ProcessInv'
  BY <1>1 DEF ProcessInv, Accepted, ValidContent,
     ValidTraining, ValidEvaluation, ValidSystem,
     DatasetAvailable, TrainerServerAvailable,
     EXCEPTION_EXITCODE, KilledExitcode
<1>17. PlaceInv' /\ VerdictInv'
  BY <1>1 DEF PlaceInv, VerdictInv, Evaluates, Requestable,
     KilledExitcode
<1> QED BY <1>12, <1>13, <1>14, <1>15, <1>16, <1>17, <1>18 DEF SupervisionInv

(* What one answer makes of the client.                                    *)
LEMMA Informed ==
  ASSUME SupervisionInv, client.state = "polling"
  PROVE  LET d == ProcessMsgs(client)
         IN /\ ClientForm(d) /\ d.verdict = client.verdict
            /\ d.state \in {"polling", "hung", "crashed"}
            /\ d.state = "crashed" => Evaluates
            /\ LET a == Monitor(MonitorTraining, client, call.training)
               IN d.tracker = a.tracker /\ (d.state = "hung" => a.state = "hung")
            /\ d.state = "polling" =>
                 /\ Have(Bar(client), call.pipeline, BarGives) \subseteq Bar(d)
                 /\ ~ Evaluates =>
                      DOMAIN d.evaluations = Have(DOMAIN client.evaluations, call.eval, TrackerGives)
<1>1. /\ SupervisionTyped /\ MessagesTyped /\ BarTold /\ TrackersTold
  BY DEF SupervisionInv
<1>2. /\ call.pipeline \in Seq(PipelineMsg) /\ call.training \in Seq(TrainingMsg)
      /\ call.eval \in Seq(EvalMsg) /\ queue["pipeline"] \in Seq(PipelineMsg)
      /\ queue["eval"] \in Seq(EvalMsg)
      /\ ClientForm(client)
  BY <1>1 DEF MessagesTyped, SupervisionTyped
<1> DEFINE a == Monitor(MonitorTraining, client, call.training)
           b == Monitor(MonitorEvaluation, a, call.eval)
           d == Monitor(MonitorPipeline, b, call.pipeline)
<1>3. ProcessMsgs(client) = d
  BY DEF ProcessMsgs
<1>4. /\ ClientForm(a) /\ a.evaluations = client.evaluations /\ a.pbar = client.pbar
      /\ a.verdict = client.verdict
      /\ a.state \in {"polling", "hung"}
  BY <1>2, TrainingMonitored
<1> HIDE DEF a
<1>5. ~ Evaluates =>
        InOrder(DOMAIN client.evaluations, call.eval, TrackerNeeds, TrackerGives)
  <2>1. ~ Evaluates =>
          InOrder(DOMAIN client.evaluations, call.eval \o queue["eval"], TrackerNeeds, TrackerGives)
    BY <1>1 DEF TrackersTold, Listens, EvalTold
  <2> DEFINE D == DOMAIN client.evaluations
             s == call.eval
             t == queue["eval"]
  <2>2. s \in Seq(EvalMsg) /\ t \in Seq(EvalMsg)
    BY <1>2
  <2> HIDE DEF D, s, t
  <2>3. InOrder(D, s \o t, TrackerNeeds, TrackerGives) => InOrder(D, s, TrackerNeeds, TrackerGives)
    BY <2>2, InOrderJoined
  <2> QED BY <2>1, <2>3 DEF D, s, t
<1>6. InOrder(Bar(client), call.pipeline, BarNeeds, BarGives)
  <2>1. InOrder(Bar(client), call.pipeline \o queue["pipeline"], BarNeeds, BarGives)
    BY <1>1 DEF BarTold, Listens, PipelineTold
  <2> DEFINE D == Bar(client)
             s == call.pipeline
             t == queue["pipeline"]
  <2>2. s \in Seq(PipelineMsg) /\ t \in Seq(PipelineMsg)
    BY <1>2
  <2> HIDE DEF D, s, t
  <2>3. InOrder(D, s \o t, BarNeeds, BarGives) => InOrder(D, s, BarNeeds, BarGives)
    BY <2>2, InOrderJoined
  <2> QED BY <2>1, <2>3 DEF D, s, t
<1>7. /\ ClientForm(b) /\ b.pbar = client.pbar /\ b.verdict = client.verdict
      /\ b.state \in {"polling", "hung", "crashed"}
      /\ b.state = "polling" => a.state = "polling"
      /\ b.tracker = a.tracker /\ (b.state = "hung" => a.state = "hung")
      /\ b.state = "crashed" => Evaluates
      /\ b.state = "polling" /\ ~ Evaluates =>
           DOMAIN b.evaluations = Have(DOMAIN client.evaluations, call.eval, TrackerGives)
  <2>1. /\ ClientForm(b) /\ b.pbar = a.pbar /\ b.verdict = a.verdict
        /\ b.state = a.state \/ (a.state = "polling" /\ b.state = "crashed")
        /\ b.tracker = a.tracker
        /\ a.state = "polling" /\ InOrder(DOMAIN a.evaluations, call.eval, TrackerNeeds, TrackerGives) =>
             /\ b.state = "polling"
             /\ DOMAIN b.evaluations = Have(DOMAIN a.evaluations, call.eval, TrackerGives)
    BY <1>2, <1>4, EvaluationMonitored
  <2> HIDE DEF b
  <2> QED BY <1>4, <1>5, <2>1
<1> HIDE DEF b
<1>8. Bar(b) = Bar(client)
  BY <1>7 DEF Bar
<1>9. /\ ClientForm(d) /\ d.evaluations = b.evaluations /\ d.verdict = b.verdict /\ d.state = b.state
      /\ d.tracker = b.tracker
      /\ b.state = "polling" => Have(Bar(b), call.pipeline, BarGives) \subseteq Bar(d)
  BY <1>2, <1>6, <1>7, <1>8, PipelineMonitored
<1> HIDE DEF d
<1> QED BY <1>3, <1>7, <1>8, <1>9 DEF a

LEMMA AskStatusKeeps ==
  ASSUME SupervisionInv, AskStatus
  PROVE  SupervisionInv'
<1>1. /\ SupervisionTyped /\ MessagesTyped /\ CallInv /\ ProcessInv /\ PlaceInv /\ BarTold
      /\ TrackersTold /\ VerdictInv
  BY DEF SupervisionInv
<1>2. CASE registered
  <2>1. "pipeline" \in Queues
    BY DEF Queues
  <2>2. /\ client.state = "polling" /\ call = NoCall /\ Take("pipeline")
        /\ UNCHANGED <<config, registered, process, exitcode, exec, exceptions, client, faults>>
    BY <1>1, <1>2 DEF AskStatus, CallInv
  <2> QED BY <2>1, <2>2, Taken
<1>3. CASE ~ registered
  <2>1. /\ client.state = "polling" /\ call.at = "idle" /\ client' = [client EXCEPT !.state = "notfound"]
        /\ UNCHANGED <<config, registered, process, exitcode, exec, queue, exceptions, call, faults>>
    BY <1>3 DEF AskStatus
  <2>2. client' = [state |-> "notfound", tracker |-> client.tracker, evaluations |-> client.evaluations,
                   pbar |-> client.pbar, eval_err_count |-> client.eval_err_count,
                   verdict |-> client.verdict]
    BY <1>1, <2>1 DEF SupervisionTyped, ClientForm
  <2>3. client'.state = "notfound" /\ client'.verdict = client.verdict
    BY <2>2
  <2>4. SupervisionTyped'
    BY <1>1, <2>1, <2>2 DEF SupervisionTyped, ClientForm
  <2>5. MessagesTyped' /\ CallInv'
    BY <1>1, <2>1, <2>3 DEF MessagesTyped, CallInv, NoCall, Queues,
       TrainingMsg, EvalMsg, PipelineMsg
  <2>6. ProcessInv'
    BY <1>1, <2>1, <2>3 DEF ProcessInv, Accepted, ValidContent,
       ValidTraining, ValidEvaluation, ValidSystem,
       DatasetAvailable, TrainerServerAvailable,
       EXCEPTION_EXITCODE, KilledExitcode
  <2>7. PlaceInv' /\ VerdictInv'
    BY <1>1, <2>1, <2>3 DEF PlaceInv, VerdictInv, Evaluates, Requestable,
       KilledExitcode
  <2>8. BarTold' /\ TrackersTold'
    BY <2>3 DEF BarTold, TrackersTold, Listens
  <2> QED BY <2>4, <2>5, <2>6, <2>7, <2>8 DEF SupervisionInv
<1> QED BY <1>2, <1>3

LEMMA DrainKeeps ==
  ASSUME SupervisionInv, NEW q \in Queues, Drain(q)
  PROVE  SupervisionInv'
<1>1. /\ call.at = q /\ q # "pipeline" /\ Take(q)
      /\ UNCHANGED <<config, registered, process, exitcode, exec, exceptions, client, faults>>
  BY DEF Drain
<1>2. q \in {"training", "eval"}
  BY <1>1 DEF Queues
<1>3. client.state = "polling"
  BY <1>1, <1>2 DEF SupervisionInv, CallInv
<1> QED BY <1>1, <1>2, <1>3, Taken

LEMMA SeeDeadKeeps ==
  ASSUME SupervisionInv, SeeDead
  PROVE  SupervisionInv'
<1>1. /\ SupervisionTyped /\ MessagesTyped /\ CallInv /\ ProcessInv /\ PlaceInv /\ BarTold
      /\ TrackersTold /\ VerdictInv
  BY DEF SupervisionInv
<1>2. /\ call.at = "alive" /\ process = "dead" /\ call' = [call EXCEPT !.at = "exception"]
      /\ UNCHANGED <<config, registered, process, exitcode, exec, queue, exceptions, client, faults>>
  BY DEF SeeDead
<1>3. call' = [at |-> "exception", pipeline |-> call.pipeline, training |-> call.training,
               eval |-> call.eval]
  BY <1>1, <1>2 DEF MessagesTyped
<1>4. client.state = "polling"
  BY <1>1, <1>2 DEF CallInv
<1>5. SupervisionTyped'
  BY <1>1, <1>2 DEF SupervisionTyped, ClientForm
<1>6. MessagesTyped' /\ CallInv'
  BY <1>1, <1>2, <1>3, <1>4 DEF MessagesTyped, CallInv, NoCall, Queues,
     TrainingMsg, EvalMsg, PipelineMsg
<1>7. ProcessInv'
  BY <1>1, <1>2, <1>4 DEF ProcessInv, Accepted, ValidContent,
     ValidTraining, ValidEvaluation, ValidSystem,
     DatasetAvailable, TrainerServerAvailable,
     EXCEPTION_EXITCODE, KilledExitcode
<1>8. PlaceInv' /\ VerdictInv'
  BY <1>1, <1>2 DEF PlaceInv, VerdictInv, Evaluates, Requestable,
     KilledExitcode
<1>9. BarTold' /\ TrackersTold'
  <2>1. PipelineTold' = PipelineTold /\ EvalTold' = EvalTold
    BY <1>2, <1>3 DEF PipelineTold, EvalTold
  <2> QED BY <1>1, <1>2, <2>1 DEF BarTold, TrackersTold, Listens, Bar, Drawn, BarNeeds, BarGives,
             TrackerNeeds, TrackerGives, Evaluates
<1> QED BY <1>5, <1>6, <1>7, <1>8, <1>9 DEF SupervisionInv

LEMMA NoMessages ==
  /\ NoCall.at = "idle" /\ NoCall.pipeline = <<>>
  /\ NoCall.training = <<>> /\ NoCall.eval = <<>>
  /\ NoCall = [at |-> NoCall.at, pipeline |-> NoCall.pipeline,
                           training |-> NoCall.training, eval |-> NoCall.eval]
  /\ <<>> \in Seq(PipelineMsg) /\ <<>> \in Seq(TrainingMsg) /\ <<>> \in Seq(EvalMsg)
BY DEF NoCall

LEMMA AnswerRunningKeeps ==
  ASSUME SupervisionInv, AnswerRunning
  PROVE  SupervisionInv'
<1>1. /\ SupervisionTyped /\ MessagesTyped /\ CallInv /\ ProcessInv /\ PlaceInv /\ BarTold
      /\ TrackersTold /\ VerdictInv
  BY DEF SupervisionInv
<1>2. /\ call.at = "alive" /\ process # "dead"
      /\ client' = ProcessMsgs(client) /\ call' = NoCall
      /\ UNCHANGED <<config, registered, process, exitcode, exec, queue, exceptions, faults>>
  BY DEF AnswerRunning
<1>3. client.state = "polling"
  BY <1>1, <1>2 DEF CallInv
<1>4. /\ ClientForm(client') /\ client'.verdict = client.verdict
      /\ client'.state \in {"polling", "hung", "crashed"}
      /\ client'.state = "crashed" => Evaluates
      /\ client'.state = "polling" =>
           /\ Have(Bar(client), call.pipeline, BarGives) \subseteq Bar(client')
           /\ ~ Evaluates =>
                DOMAIN client'.evaluations = Have(DOMAIN client.evaluations, call.eval, TrackerGives)
  BY <1>2, <1>3, Informed
<1>5. SupervisionTyped'
  BY <1>1, <1>2, <1>4 DEF SupervisionTyped, ClientForm
<1>6. MessagesTyped'
  <2>1. /\ call' = [at |-> call'.at, pipeline |-> call'.pipeline, training |-> call'.training,
                    eval |-> call'.eval]
        /\ call'.pipeline \in Seq(PipelineMsg) /\ call'.training \in Seq(TrainingMsg)
        /\ call'.eval \in Seq(EvalMsg)
    BY <1>2, NoMessages
  <2> QED BY <1>1, <1>2, <2>1 DEF MessagesTyped, Queues, TrainingMsg, EvalMsg, PipelineMsg
<1>7. CallInv'
  <2>1. call'.at = "idle" /\ call' = NoCall'
    BY <1>2, NoMessages DEF NoCall
  <2> QED BY <2>1 DEF CallInv
<1>8. ProcessInv'
  BY <1>1, <1>2, <1>3, <1>4 DEF ProcessInv, Accepted, ValidContent,
     ValidTraining, ValidEvaluation, ValidSystem,
     DatasetAvailable, TrainerServerAvailable,
     EXCEPTION_EXITCODE, KilledExitcode
<1>9. PlaceInv' /\ VerdictInv'
  BY <1>1, <1>2, <1>4 DEF PlaceInv, VerdictInv, Evaluates, Requestable,
     KilledExitcode
<1>10. /\ queue["pipeline"] \in Seq(PipelineMsg) /\ call.pipeline \in Seq(PipelineMsg)
       /\ queue["eval"] \in Seq(EvalMsg) /\ call.eval \in Seq(EvalMsg)
  BY <1>1 DEF MessagesTyped
<1>11. PipelineTold' = queue["pipeline"] /\ EvalTold' = queue["eval"]
  <2>1. /\ PipelineTold' = <<>> \o queue["pipeline"] /\ EvalTold' = <<>> \o queue["eval"]
    BY <1>2, NoMessages DEF PipelineTold, EvalTold
  <2> QED BY <1>10, <2>1, ConcatEmptySeq
<1>12. BarTold'
  <2> SUFFICES ASSUME client'.state = "polling"
               PROVE  /\ InOrder(Bar(client'), queue["pipeline"], BarNeeds, BarGives)
                      /\ process = "running" =>
                           Drawn \subseteq Have(Bar(client'), queue["pipeline"], BarGives)
    BY <1>2, <1>4, <1>11 DEF BarTold, Listens, Bar, Drawn, BarNeeds, BarGives
  <2> DEFINE D == Bar(client)
             E == Bar(client')
             s == call.pipeline
             t == queue["pipeline"]
             H == Have(D, s, BarGives)
  <2>1. s \in Seq(PipelineMsg) /\ t \in Seq(PipelineMsg) /\ H \subseteq E
    BY <1>4, <1>10
  <2>2. /\ InOrder(D, s \o t, BarNeeds, BarGives)
        /\ process = "running" => Drawn \subseteq Have(D, s \o t, BarGives)
    BY <1>1, <1>3 DEF BarTold, Listens, PipelineTold
  <2> HIDE DEF D, E, s, t
  <2>3. /\ InOrder(D, s \o t, BarNeeds, BarGives) => InOrder(H, t, BarNeeds, BarGives)
    BY <2>1, InOrderJoined
  <2>4. Have(D, s \o t, BarGives) = Have(H, t, BarGives)
    BY <2>1, HaveJoined
  <2> HIDE DEF H
  <2>5. /\ InOrder(E, t, BarNeeds, BarGives)
        /\ Have(H, t, BarGives) \subseteq Have(E, t, BarGives)
    BY <2>1, <2>2, <2>3, InOrderOfMore
  <2> QED BY <2>2, <2>4, <2>5 DEF E, t
<1>13. TrackersTold'
  <2> SUFFICES ASSUME client'.state = "polling", ~ Evaluates
               PROVE  /\ InOrder(DOMAIN client'.evaluations, queue["eval"], TrackerNeeds, TrackerGives)
                      /\ process = "running" =>
                           exec.evals \subseteq Have(DOMAIN client'.evaluations, queue["eval"], TrackerGives)
    BY <1>2, <1>4, <1>11 DEF TrackersTold, Listens, TrackerNeeds, TrackerGives, Evaluates
  <2> DEFINE D == DOMAIN client.evaluations
             s == call.eval
             t == queue["eval"]
             H == Have(D, s, TrackerGives)
  <2>1. s \in Seq(EvalMsg) /\ t \in Seq(EvalMsg) /\ DOMAIN client'.evaluations = H
    BY <1>4, <1>10
  <2>2. /\ InOrder(D, s \o t, TrackerNeeds, TrackerGives)
        /\ process = "running" => exec.evals \subseteq Have(D, s \o t, TrackerGives)
    BY <1>1, <1>3 DEF TrackersTold, Listens, EvalTold
  <2> HIDE DEF D, s, t
  <2>3. InOrder(D, s \o t, TrackerNeeds, TrackerGives) => InOrder(H, t, TrackerNeeds, TrackerGives)
    BY <2>1, InOrderJoined
  <2>4. Have(D, s \o t, TrackerGives) = Have(H, t, TrackerGives)
    BY <2>1, HaveJoined
  <2> HIDE DEF H
  <2> QED BY <2>1, <2>2, <2>3, <2>4 DEF t
<1> QED BY <1>5, <1>6, <1>7, <1>8, <1>9, <1>12, <1>13 DEF SupervisionInv

LEMMA AnswerExitKeeps ==
  ASSUME SupervisionInv, AnswerExit
  PROVE  SupervisionInv'
<1>1. /\ SupervisionTyped /\ MessagesTyped /\ CallInv /\ ProcessInv /\ PlaceInv /\ BarTold
      /\ TrackersTold /\ VerdictInv
  BY DEF SupervisionInv
<1> DEFINE d == ProcessMsgs(client)
<1>2. /\ call.at = "exception"
      /\ client' = MonitorExit(d) /\ call' = NoCall
      /\ exceptions' = IF exceptions = <<>> THEN <<>> ELSE Tail(exceptions)
      /\ UNCHANGED <<config, registered, process, exitcode, exec, queue, faults>>
  BY DEF AnswerExit
<1>3. client.state = "polling" /\ process = "dead"
  BY <1>1, <1>2 DEF CallInv
<1>4. /\ ClientForm(d) /\ d.verdict = client.verdict
      /\ d.state \in {"polling", "hung", "crashed"}
      /\ d.state = "crashed" => Evaluates
  BY <1>3, Informed
<1> HIDE DEF d
<1>5. /\ ClientForm(client')
      /\ client'.state \in {"finished", "hung", "crashed"}
      /\ client'.verdict \in {client.verdict, "successfully", "with_eval_errors", "exception"}
      /\ \/ client'.state = d.state /\ d.state # "polling" /\ client'.verdict = client.verdict
         \/ client'.state = "finished" /\ exitcode = 0 /\ client'.verdict # "exception"
         \/ client'.state = "crashed" /\ exitcode # 0 /\ exceptions = <<>> /\ client'.verdict = client.verdict
         \/ client'.state = "finished" /\ exceptions # <<>> /\ client'.verdict = "exception"
  <2>1. CASE d.state # "polling"
    <3>1. client' = d
      BY <1>2, <2>1 DEF MonitorExit
    <3> QED BY <1>4, <2>1, <3>1
  <2>2. CASE d.state = "polling" /\ exitcode = 0
    <3> DEFINE v == IF d.eval_err_count = 0 THEN "successfully" ELSE "with_eval_errors"
    <3>1. client' = [d EXCEPT !.state = "finished", !.verdict = v]
      BY <1>2, <2>2 DEF MonitorExit
    <3>2. v \in {"successfully", "with_eval_errors"}
      OBVIOUS
    <3> HIDE DEF v
    <3>3. client' = [state |-> "finished", tracker |-> d.tracker, evaluations |-> d.evaluations,
                     pbar |-> d.pbar, eval_err_count |-> d.eval_err_count, verdict |-> v]
      BY <1>4, <3>1 DEF ClientForm
    <3> QED BY <2>2, <3>2, <3>3 DEF ClientForm
  <2>3. CASE d.state = "polling" /\ exitcode # 0 /\ exceptions = <<>>
    <3>1. client' = [state |-> "crashed", tracker |-> d.tracker, evaluations |-> d.evaluations,
                     pbar |-> d.pbar, eval_err_count |-> d.eval_err_count, verdict |-> d.verdict]
      BY <1>2, <1>4, <2>3 DEF ClientForm, MonitorExit
    <3> QED BY <1>4, <2>3, <3>1 DEF ClientForm
  <2>4. CASE d.state = "polling" /\ exitcode # 0 /\ exceptions # <<>>
    <3>1. client' = [state |-> "finished", tracker |-> d.tracker, evaluations |-> d.evaluations,
                     pbar |-> d.pbar, eval_err_count |-> d.eval_err_count, verdict |-> "exception"]
      BY <1>2, <1>4, <2>4 DEF ClientForm, MonitorExit
    <3> QED BY <2>4, <3>1 DEF ClientForm
  <2> QED BY <1>4, <2>1, <2>2, <2>3, <2>4
<1>6. exceptions' \in Seq({"traceback"}) /\ (exceptions' # <<>> => exceptions # <<>>)
  <2>1. CASE exceptions = <<>>
    <3>1. exceptions' = <<>>
      BY <1>2, <2>1
    <3> QED BY <3>1
  <2>2. CASE exceptions # <<>>
    <3>1. exceptions \in Seq({"traceback"}) /\ exceptions' = Tail(exceptions)
      BY <1>1, <1>2, <2>2 DEF SupervisionTyped
    <3> QED BY <2>2, <3>1, HeadTailProperties
  <2> QED BY <2>1, <2>2
<1>7. SupervisionTyped'
  BY <1>1, <1>2, <1>5, <1>6 DEF SupervisionTyped, ClientForm
<1>8. MessagesTyped'
  <2>1. /\ call' = [at |-> call'.at, pipeline |-> call'.pipeline, training |-> call'.training,
                    eval |-> call'.eval]
        /\ call'.pipeline \in Seq(PipelineMsg) /\ call'.training \in Seq(TrainingMsg)
        /\ call'.eval \in Seq(EvalMsg)
    BY <1>2, NoMessages
  <2> QED BY <1>1, <1>2, <2>1 DEF MessagesTyped, Queues, TrainingMsg, EvalMsg, PipelineMsg
<1>9. CallInv'
  <2>1. call'.at = "idle" /\ call' = NoCall'
    BY <1>2, NoMessages DEF NoCall
  <2> QED BY <2>1 DEF CallInv
<1>10. ProcessInv'
  BY <1>1, <1>2, <1>3, <1>5, <1>6 DEF ProcessInv, Accepted, ValidContent,
     ValidTraining, ValidEvaluation, ValidSystem,
     DatasetAvailable, TrainerServerAvailable,
     EXCEPTION_EXITCODE, KilledExitcode
<1>11. PlaceInv'
  BY <1>1, <1>2 DEF PlaceInv, Evaluates, Requestable
<1>12. VerdictInv'
  <2>1. exceptions # <<>> => exec.pc = "raised"
    BY <1>1 DEF ProcessInv
  <2>2. exitcode = 0 => exec.pc = "done"
    BY <1>1, <1>3 DEF ProcessInv
  <2>3. exitcode # 0 /\ exceptions = <<>> => exitcode = KilledExitcode \/ ~ registered
    BY <1>1, <1>3 DEF ProcessInv
  <2>4. Evaluates' = Evaluates
    BY <1>2 DEF Evaluates
  <2>5. /\ client.verdict \in {"successfully", "with_eval_errors"} =>
             process = "dead" /\ exitcode = 0 /\ exec.pc = "done"
        /\ client.verdict = "exception" => process = "dead" /\ exec.pc = "raised"
    BY <1>1 DEF VerdictInv
  <2> QED BY <1>2, <1>3, <1>4, <1>5, <2>1, <2>2, <2>3, <2>4, <2>5
          DEF VerdictInv, KilledExitcode
<1>13. BarTold' /\ TrackersTold'
  BY <1>5 DEF BarTold, TrackersTold, Listens
<1> QED BY <1>7, <1>8, <1>9, <1>10, <1>11, <1>12, <1>13 DEF SupervisionInv

LEMMA SupervisorRestartsKeeps ==
  ASSUME SupervisionInv, SupervisorRestarts
  PROVE  SupervisionInv'
<1>1. /\ SupervisionTyped /\ MessagesTyped /\ CallInv /\ ProcessInv /\ PlaceInv /\ BarTold
      /\ TrackersTold /\ VerdictInv
  BY DEF SupervisionInv
<1>2. /\ registered /\ faults' = faults + 1 /\ registered' = FALSE
      /\ call' = NoCall
      /\ client' = IF call.at # "idle" THEN [client EXCEPT !.state = "crashed"] ELSE client
      /\ process' = "dead"
      /\ exitcode' = IF process = "dead" THEN exitcode ELSE KilledExitcode
      /\ queue' = [q \in Queues |-> <<>>] /\ exceptions' = <<>>
      /\ UNCHANGED <<config, exec>>
  BY DEF SupervisorRestarts
<1>3. process # "none" /\ Accepted(config) /\ client.state # "starting"
  BY <1>1, <1>2 DEF ProcessInv
<1>4. /\ ClientForm(client') /\ client'.state \in {client.state, "crashed"}
      /\ client'.verdict = client.verdict
  <2>1. CASE call.at # "idle"
    <3>1. client' = [state |-> "crashed", tracker |-> client.tracker, evaluations |-> client.evaluations,
                     pbar |-> client.pbar, eval_err_count |-> client.eval_err_count,
                     verdict |-> client.verdict]
      BY <1>1, <1>2, <2>1 DEF SupervisionTyped, ClientForm
    <3> QED BY <3>1 DEF ClientForm
  <2>2. CASE call.at = "idle"
    BY <1>1, <1>2, <2>2 DEF SupervisionTyped
  <2> QED BY <2>1, <2>2
<1>5. SupervisionTyped'
  <2>1. exceptions' \in Seq({"traceback"})
    <3>1. <<>> \in Seq({"traceback"})
      OBVIOUS
    <3> QED BY <1>2, <3>1
  <2> QED BY <1>1, <1>2, <1>4, <2>1 DEF SupervisionTyped, ClientForm
<1>6. /\ call'.at = "idle" /\ call'.pipeline = <<>> /\ call'.training = <<>> /\ call'.eval = <<>>
      /\ call' = [at |-> call'.at, pipeline |-> call'.pipeline, training |-> call'.training,
                  eval |-> call'.eval]
      /\ queue'["pipeline"] = <<>> /\ queue'["training"] = <<>> /\ queue'["eval"] = <<>>
      /\ queue' = [q \in Queues |-> queue'[q]]
  BY <1>2, NoMessages DEF Queues
<1>7. MessagesTyped'
  BY <1>6, NoMessages DEF MessagesTyped, TrainingMsg, EvalMsg, PipelineMsg
<1>8. CallInv'
  <2>1. call' = NoCall'
    BY <1>2 DEF NoCall
  <2> QED BY <1>6, <2>1 DEF CallInv
<1>9. ProcessInv'
  BY <1>1, <1>2, <1>3, <1>4 DEF ProcessInv, Accepted, ValidContent,
     ValidTraining, ValidEvaluation, ValidSystem,
     DatasetAvailable, TrainerServerAvailable,
     EXCEPTION_EXITCODE, KilledExitcode
<1>10. PlaceInv'
  <2>1. faults' > 0
    BY <1>1, <1>2 DEF SupervisionTyped
  <2> QED BY <1>2, <2>1 DEF PlaceInv
<1>11. VerdictInv'
  BY <1>1, <1>2, <1>4 DEF VerdictInv, Evaluates, KilledExitcode
<1>12. PipelineTold' = <<>> /\ EvalTold' = <<>>
  <2>1. PipelineTold' = <<>> \o <<>> /\ EvalTold' = <<>> \o <<>>
    BY <1>6 DEF PipelineTold, EvalTold
  <2> QED BY <2>1, ConcatEmptySeq, NoMessages
<1>13. BarTold' /\ TrackersTold'
  BY <1>2, <1>12, InOrderNone DEF BarTold, TrackersTold
<1> QED BY <1>5, <1>7, <1>8, <1>9, <1>10, <1>11, <1>13 DEF SupervisionInv

LEMMA SupervisionInit ==
  ASSUME Init
  PROVE  SupervisionInv
<1> DEFINE tracker == TrainingTracker(0, 1, 100)
<1>1. /\ config \in ConfigChoices /\ registered = FALSE /\ process = "none" /\ exitcode = 0
      /\ exec = [pc |-> "connect", trigger |-> 0, answers |-> 0, seen |-> 0,
                 cells |-> 0, next_eval |-> 0, evals |-> {}, errors |-> 0]
      /\ queue = [q \in Queues |-> <<>>] /\ exceptions = <<>>
      /\ call = NoCall
      /\ client = [state |-> "starting", tracker |-> tracker, evaluations |-> <<>>, pbar |-> FALSE,
                   eval_err_count |-> 0, verdict |-> "none"]
      /\ faults = 0
  BY DEF Init
<1> HIDE DEF tracker
<1>2. <<>> \in Seq({"traceback"})
  OBVIOUS
<1>3. SupervisionTyped
  BY <1>1, <1>2 DEF SupervisionTyped, ClientForm
<1>4. MessagesTyped
  <2>1. /\ queue = [q \in Queues |-> queue[q]]
        /\ queue["pipeline"] = <<>> /\ queue["training"] = <<>> /\ queue["eval"] = <<>>
    BY <1>1 DEF Queues
  <2> QED BY <1>1, <2>1, NoMessages DEF MessagesTyped
<1>5. CallInv
  BY <1>1, NoMessages DEF CallInv
<1>6. ProcessInv
  BY <1>1, NoMessages DEF ProcessInv, EXCEPTION_EXITCODE
<1>7. PlaceInv /\ VerdictInv
  BY <1>1 DEF PlaceInv, VerdictInv
<1>8. BarTold /\ TrackersTold
  <2>1. PipelineTold = <<>> /\ EvalTold = <<>>
    <3>1. PipelineTold = <<>> \o <<>> /\ EvalTold = <<>> \o <<>>
      BY <1>1, NoMessages DEF PipelineTold, EvalTold, Queues
    <3> QED BY <3>1, ConcatEmptySeq, NoMessages
  <2> QED BY <1>1, <2>1, InOrderNone DEF BarTold, TrackersTold
<1> QED BY <1>3, <1>4, <1>5, <1>6, <1>7, <1>8 DEF SupervisionInv

LEMMA SupervisionStays ==
  ASSUME SupervisionInv, UNCHANGED vars
  PROVE  SupervisionInv'
<1>1. UNCHANGED <<config, registered, process, exitcode, exec, queue, exceptions, call, client, faults>>
  BY DEF vars
<1>2. /\ SupervisionTyped /\ MessagesTyped /\ CallInv /\ ProcessInv /\ PlaceInv /\ BarTold
      /\ TrackersTold /\ VerdictInv
  BY DEF SupervisionInv
<1>3. SupervisionTyped'
  BY <1>1, <1>2 DEF SupervisionTyped, ClientForm
<1>4. MessagesTyped' /\ CallInv'
  BY <1>1, <1>2 DEF MessagesTyped, CallInv, NoCall, Queues,
     TrainingMsg, EvalMsg, PipelineMsg
<1>5. ProcessInv'
  BY <1>1, <1>2 DEF ProcessInv, NoCall, Accepted, ValidContent,
     ValidTraining, ValidEvaluation, ValidSystem,
     DatasetAvailable, TrainerServerAvailable,
     EXCEPTION_EXITCODE, KilledExitcode
<1>6. PlaceInv' /\ VerdictInv'
  BY <1>1, <1>2 DEF PlaceInv, VerdictInv, Evaluates, Requestable,
     KilledExitcode
<1>7. BarTold' /\ TrackersTold'
  BY <1>1, <1>2 DEF BarTold, TrackersTold, PipelineTold, EvalTold, Listens, Bar, Drawn, BarNeeds,
     BarGives, TrackerNeeds, TrackerGives, Evaluates
<1> QED BY <1>3, <1>4, <1>5, <1>6, <1>7 DEF SupervisionInv

LEMMA SupervisionSteps ==
  ASSUME SupervisionAssumption, SupervisionInv, [Next]_vars
  PROVE  SupervisionInv'
<1>1. CASE StartPipeline \/ Reject
  BY <1>1, StartRequestKeeps
<1>2. CASE ExecutorStep
  BY <1>2, ConnectKeeps, HandleNewDataKeeps, StartTrainingKeeps, TrainingAnswerKeeps,
     TrainingCompletedKeeps, StartEvaluationKeeps, EvaluationAnswerKeeps, EvaluationCompletedKeeps,
     NewDataHandledKeeps, ReplayDoneKeeps, NextCellKeeps, ExecutionDoneKeeps, ExitKeeps
     DEF ExecutorStep
<1>3. CASE StatusStep
  BY <1>3, AskStatusKeeps, DrainKeeps, AnswerRunningKeeps, SeeDeadKeeps, AnswerExitKeeps
     DEF StatusStep
<1>4. CASE Fault
  BY <1>4, StartRequestKeeps, ExecutorRaisesKeeps, ExecutorKilledKeeps, SupervisorRestartsKeeps
     DEF Fault
<1>5. CASE Stop \/ UNCHANGED vars
  BY <1>5, SupervisionStays DEF Stop
<1> QED BY <1>1, <1>2, <1>3, <1>4, <1>5 DEF Next

LEMMA SupervisionInvariant == Spec => []SupervisionInv
<1>1. Init => SupervisionInv
  BY SupervisionInit
<1>2. SupervisionInv /\ [Next]_vars => SupervisionInv'
  BY SupervisionAssumption, SupervisionSteps
<1> QED BY <1>1, <1>2, PTL DEF Spec

(* A configuration that passed the validation never fails the executor     *)
(* later, but for the checkpointing and prefetching the validation does    *)
(* not look at: for any set of configurations, strategies and writers, any *)
(* number of triggers and any interleaving with calls and faults.          *)
THEOREM ValidatedPipelinesRun == Spec => []ValidatedRuns
<1>1. SupervisionInv => ValidatedRuns
  BY DEF SupervisionInv, PlaceInv, ValidatedRuns
<1> QED BY <1>1, SupervisionInvariant, PTL

(* What the client prints in the end is what happened to the executor, and *)
(* only a killed process, a restart of the supervisor or an evaluation on  *)
(* a fixed dataset makes the client fail: however the executor, the status *)
(* calls that drain its queues one after the other, and faults interleave. *)
THEOREM ClientVerdictTruthful == Spec => []VerdictTruthful
<1>1. SupervisionInv => VerdictTruthful
  BY DEF SupervisionInv, VerdictInv, VerdictTruthful
<1> QED BY <1>1, SupervisionInvariant, PTL
-----------------------------------------------------------------------------
(* The bar of a training, field by field.                                  *)
Redrawn(t, event, bar, current_epoch) ==
  [id |-> t.id, event |-> event, bar |-> bar, current_epoch |-> current_epoch, hung |-> t.hung,
   last_samples_training |-> t.last_samples_training,
   last_samples_downsampling |-> t.last_samples_downsampling,
   num_samples_downsampling |-> t.num_samples_downsampling,
   num_samples_epoch_training |-> t.num_samples_epoch_training]
TrackerForm(t) == t = Redrawn(t, t.event, t.bar, t.current_epoch)
SameCounts(u, t) ==
  /\ u.hung = t.hung /\ u.last_samples_training = t.last_samples_training
  /\ u.last_samples_downsampling = t.last_samples_downsampling
  /\ u.num_samples_downsampling = t.num_samples_downsampling
  /\ u.num_samples_epoch_training = t.num_samples_epoch_training
(* u is t with another bar.                                                *)
Redraws(u, t, event, bar, current_epoch) ==
  /\ TrackerForm(u) /\ SameCounts(u, t)
  /\ u.event = event /\ u.bar = bar /\ u.current_epoch = current_epoch

LEMMA RedrawnRedraws ==
  ASSUME NEW t, NEW event, NEW bar, NEW ce
  PROVE  Redraws(Redrawn(t, event, bar, ce), t, event, bar, ce)
BY DEF Redraws, Redrawn, TrackerForm, SameCounts

LEMMA TrackerSteps ==
  ASSUME NEW t, TrackerForm(t)
  PROVE  /\ Redraws(EndDownsampling(t), t, "IDLE", NoBar, t.current_epoch)
         /\ Redraws(StartTrainingEpoch(t), t, "TRAINING", 0, t.current_epoch)
         /\ Redraws(EndTrainingEpoch(t), t, "IDLE", NoBar, t.current_epoch + 1)
         /\ \A n : Redraws(ProgressEpoch(t, n), t, t.event, t.bar + n, t.current_epoch)
         /\ t.event # "IDLE" => Redraws(CloseCounter(t), t, "IDLE", NoBar, t.current_epoch)
<1>1. EndDownsampling(t) = Redrawn(t, "IDLE", NoBar, t.current_epoch)
  <2>1. EndDownsampling(t) = [t EXCEPT !.event = "IDLE", !.bar = NoBar]
    BY DEF EndDownsampling
  <2> QED BY <2>1 DEF TrackerForm, Redrawn
<1>2. StartTrainingEpoch(t) = Redrawn(t, "TRAINING", 0, t.current_epoch)
  <2>1. StartTrainingEpoch(t) = [t EXCEPT !.event = "TRAINING", !.bar = 0]
    BY DEF StartTrainingEpoch
  <2> QED BY <2>1 DEF TrackerForm, Redrawn
<1>3. EndTrainingEpoch(t) = Redrawn(t, "IDLE", NoBar, t.current_epoch + 1)
  <2> DEFINE n == t.current_epoch + 1
  <2>1. EndTrainingEpoch(t) = [t EXCEPT !.event = "IDLE", !.bar = NoBar, !.current_epoch = n]
    BY DEF EndTrainingEpoch
  <2> HIDE DEF n
  <2>2. EndTrainingEpoch(t) = Redrawn(t, "IDLE", NoBar, n)
    BY <2>1 DEF TrackerForm, Redrawn
  <2> QED BY <2>2 DEF n
<1>4. ASSUME NEW n PROVE ProgressEpoch(t, n) = Redrawn(t, t.event, t.bar + n, t.current_epoch)
  <2> DEFINE b == t.bar + n
  <2>1. ProgressEpoch(t, n) = [t EXCEPT !.bar = b]
    BY DEF ProgressEpoch
  <2> HIDE DEF b
  <2>2. ProgressEpoch(t, n) = Redrawn(t, t.event, b, t.current_epoch)
    BY <2>1 DEF TrackerForm, Redrawn
  <2> QED BY <2>2 DEF b
<1>5. t.event # "IDLE" => CloseCounter(t) = Redrawn(t, "IDLE", NoBar, t.current_epoch)
  BY DEF CloseCounter, TrackerForm, Redrawn
<1> QED BY <1>1, <1>2, <1>3, <1>4, <1>5, RedrawnRedraws

LEMMA RedrawsTwice ==
  ASSUME NEW t, NEW u, NEW v, NEW e, NEW b, NEW ce, NEW e2, NEW b2, NEW ce2,
         Redraws(u, t, e, b, ce), Redraws(v, u, e2, b2, ce2)
  PROVE  Redraws(v, t, e2, b2, ce2)
BY DEF Redraws, SameCounts

(* The same with the samples seen.                                         *)
LEMMA TrackerSeen ==
  ASSUME NEW t, TrackerForm(t), NEW n
  PROVE  LET u == [t EXCEPT !.last_samples_training = n]
         IN /\ TrackerForm(u) /\ u.event = t.event /\ u.bar = t.bar
            /\ u.current_epoch = t.current_epoch /\ u.hung = t.hung
            /\ u.last_samples_training = n
            /\ u.last_samples_downsampling = t.last_samples_downsampling
            /\ u.num_samples_epoch_training = t.num_samples_epoch_training
<1> DEFINE u == [t EXCEPT !.last_samples_training = n]
<1>1. u = [id |-> t.id, event |-> t.event, bar |-> t.bar, current_epoch |-> t.current_epoch,
           hung |-> t.hung, last_samples_training |-> n,
           last_samples_downsampling |-> t.last_samples_downsampling,
           num_samples_downsampling |-> t.num_samples_downsampling,
           num_samples_epoch_training |-> t.num_samples_epoch_training]
  BY DEF TrackerForm, Redrawn
<1> HIDE DEF u
<1>2. /\ u.event = t.event /\ u.bar = t.bar
      /\ u.current_epoch = t.current_epoch /\ u.hung = t.hung
      /\ u.last_samples_training = n
      /\ u.last_samples_downsampling = t.last_samples_downsampling
      /\ u.num_samples_epoch_training = t.num_samples_epoch_training
  BY <1>1
<1>3. TrackerForm(u)
  BY <1>1 DEF TrackerForm, Redrawn
<1> QED BY <1>2, <1>3 DEF u

(* What an answer makes of a bar of downsampling.                          *)
LEMMA TrackerDownsampled ==
  ASSUME NEW t, TrackerForm(t), NEW n
  PROVE  /\ LET u == StartDownsampling(t)
            IN /\ TrackerForm(u) /\ u.event = "DOWNSAMPLING" /\ u.bar = 0
               /\ u.last_samples_downsampling = 0 /\ u.hung = t.hung
               /\ u.num_samples_epoch_training = t.num_samples_epoch_training
         /\ LET u == [t EXCEPT !.bar = @ + n - t.last_samples_downsampling,
                               !.last_samples_downsampling = n]
            IN /\ TrackerForm(u) /\ u.event = t.event
               /\ u.bar = t.bar + n - t.last_samples_downsampling
               /\ u.last_samples_downsampling = n /\ u.hung = t.hung
               /\ u.num_samples_epoch_training = t.num_samples_epoch_training
<1> DEFINE b == t.bar + n - t.last_samples_downsampling
           u == StartDownsampling(t)
           v == [t EXCEPT !.bar = b, !.last_samples_downsampling = n]
<1>1. v = [t EXCEPT !.bar = @ + n - t.last_samples_downsampling, !.last_samples_downsampling = n]
  OBVIOUS
<1> HIDE DEF b
<1>2. u = [id |-> t.id, event |-> "DOWNSAMPLING", bar |-> 0, current_epoch |-> t.current_epoch,
           hung |-> t.hung, last_samples_training |-> t.last_samples_training,
           last_samples_downsampling |-> 0,
           num_samples_downsampling |-> t.num_samples_downsampling,
           num_samples_epoch_training |-> t.num_samples_epoch_training]
  <2>1. u = [t EXCEPT !.event = "DOWNSAMPLING", !.bar = 0, !.last_samples_downsampling = 0]
    BY DEF StartDownsampling
  <2> HIDE DEF u
  <2> QED BY <2>1 DEF TrackerForm, Redrawn
<1>3. v = [id |-> t.id, event |-> t.event, bar |-> b, current_epoch |-> t.current_epoch,
           hung |-> t.hung, last_samples_training |-> t.last_samples_training,
           last_samples_downsampling |-> n,
           num_samples_downsampling |-> t.num_samples_downsampling,
           num_samples_epoch_training |-> t.num_samples_epoch_training]
  <2>1. v = [t EXCEPT !.bar = b, !.last_samples_downsampling = n]
    OBVIOUS
  <2> HIDE DEF v
  <2> QED BY <2>1 DEF TrackerForm, Redrawn
<1> HIDE DEF u, v
<1>4. /\ TrackerForm(u) /\ u.event = "DOWNSAMPLING" /\ u.bar = 0
      /\ u.last_samples_downsampling = 0 /\ u.hung = t.hung
      /\ u.num_samples_epoch_training = t.num_samples_epoch_training
  BY <1>2 DEF TrackerForm, Redrawn
<1>5. /\ TrackerForm(v) /\ v.event = t.event /\ v.bar = b
      /\ v.last_samples_downsampling = n /\ v.hung = t.hung
      /\ v.num_samples_epoch_training = t.num_samples_epoch_training
  BY <1>3 DEF TrackerForm, Redrawn
<1> QED BY <1>1, <1>4, <1>5 DEF u, b

(* Epochs of size e: x samples were seen, and now s.                       *)
LEMMA SameEpoch ==
  ASSUME NEW e \in Nat \ {0}, NEW x \in Nat, NEW s \in Nat, x <= s, s < e * (x \div e + 1)
  PROVE  s \div e = x \div e /\ s % e = (x % e) + (s - x)
<1> DEFINE k == x \div e
           l == x % e
           m == s - k * e
<1>1. k \in Nat /\ l \in 0 .. e - 1 /\ k * e \in Nat /\ x = k * e + l
  BY DivMod
<1>2. s < e * (k + 1)
  OBVIOUS
<1> HIDE DEF k, l
<1>3. e * (k + 1) = k * e + e
  BY <1>1
<1>4. m \in 0 .. e - 1 /\ s = k * e + m /\ m = l + (s - x)
  BY <1>1, <1>2, <1>3
<1> HIDE DEF m
<1>5. (k * e + m) % e = m /\ (k * e + m) \div e = k
  BY <1>1, <1>4, ModOfSum
<1> QED BY <1>4, <1>5 DEF k, l

LEMMA WholeEpochs ==
  ASSUME NEW e \in Nat \ {0}, NEW n \in Nat
  PROVE  (e * n) \div e = n /\ (e * n) % e = 0
<1>1. 0 \in 0 .. e - 1
  OBVIOUS
<1>2. (n * e + 0) % e = 0 /\ (n * e + 0) \div e = n
  BY <1>1, ModOfSum
<1>3. e * n = n * e + 0
  OBVIOUS
<1> QED BY <1>2, <1>3

Spilt(e, n, s, r, w, rest) ==
  /\ r = s - e * n /\ w = (IF r > e THEN (r - 1) \div e ELSE 0) /\ rest = r - w * e
EpochsAfter(e, n, s, r, w, rest) ==
  /\ w \in Nat /\ rest \in 1 .. e
  /\ rest = e => s \div e = n + w + 1 /\ s % e = 0
  /\ rest # e => s \div e = n + w /\ s % e = rest

LEMMA SpillsOver ==
  ASSUME NEW e \in Nat \ {0}, NEW n \in Nat, NEW s \in Nat, e * n < s,
         NEW r, NEW w, NEW rest, Spilt(e, n, s, r, w, rest)
  PROVE  EpochsAfter(e, n, s, r, w, rest)
<1>0. r = s - e * n /\ w = (IF r > e THEN (r - 1) \div e ELSE 0) /\ rest = r - w * e
  BY DEF Spilt
<1>1. e * n \in Nat /\ r \in Nat /\ r - 1 \in Nat
  BY <1>0
<1>2. w \in Nat /\ w * e \in Nat /\ rest \in 1 .. e
  <2>1. CASE r > e
    <3> DEFINE l == (r - 1) % e
    <3>1. w \in Nat /\ w * e \in Nat /\ l \in 0 .. e - 1 /\ r - 1 = w * e + l
      BY <1>0, <1>1, <2>1, DivMod
    <3> HIDE DEF l
    <3> QED BY <1>0, <1>1, <3>1
  <2>2. CASE ~ (r > e)
    <3>1. w = 0 /\ w * e = 0
      BY <1>0, <2>2
    <3> QED BY <1>0, <1>1, <2>2, <3>1
  <2> QED BY <2>1, <2>2
<1>3. s = (n + w) * e + rest /\ n + w \in Nat
  <2>1. e * n = n * e /\ (n + w) * e = n * e + w * e
    BY <1>2
  <2> QED BY <1>0, <1>1, <1>2, <2>1
<1>4. ASSUME rest = e PROVE s \div e = n + w + 1 /\ s % e = 0
  <2> DEFINE k == n + w + 1
  <2>1. k \in Nat /\ s = e * k
    <3> DEFINE j == n + w
    <3>1. j \in Nat /\ s = j * e + e /\ k = j + 1
      BY <1>2, <1>3, <1>4
    <3> HIDE DEF j, k
    <3>2. e * (j + 1) = j * e + e
      BY <3>1
    <3> QED BY <3>1, <3>2
  <2> HIDE DEF k
  <2>2. s \div e = k /\ s % e = 0
    BY <2>1, WholeEpochs
  <2> QED BY <2>2 DEF k
<1>5. ASSUME rest # e PROVE s \div e = n + w /\ s % e = rest
  <2> DEFINE k == n + w
  <2>1. k \in Nat /\ s = k * e + rest /\ rest \in 0 .. e - 1
    BY <1>2, <1>3, <1>5
  <2> HIDE DEF k
  <2>2. (k * e + rest) % e = rest /\ (k * e + rest) \div e = k
    BY <2>1, ModOfSum
  <2> QED BY <2>1, <2>2 DEF k
<1> QED BY <1>2, <1>4, <1>5 DEF EpochsAfter

(* The samples beyond an epoch, in the bar.                                *)
LEMMA SpillOverRedraws ==
  ASSUME NEW t, TrackerForm(t), t.hung = FALSE, NEW e \in Nat \ {0},
         t.num_samples_epoch_training = e, NEW r,
         NEW w, w = IF r > e THEN (r - 1) \div e ELSE 0,
         NEW rest, rest = r - w * e
  PROVE  LET u == SpillOver(t, r)
         IN /\ rest = e => Redraws(u, t, "IDLE", NoBar, (t.current_epoch + w) + 1)
            /\ rest # e => Redraws(u, t, "TRAINING", rest, t.current_epoch + w)
<1> DEFINE s == StartTrainingEpoch(t)
           c == s.current_epoch + w
           last == [s EXCEPT !.current_epoch = c, !.bar = rest]
<1>1. SpillOver(t, r) = IF rest = e THEN EndTrainingEpoch(last) ELSE last
  <2>1. last = [StartTrainingEpoch(t) EXCEPT !.current_epoch = @ + w, !.bar = rest]
    OBVIOUS
  <2>2. ~ (t.num_samples_epoch_training = 0)
    OBVIOUS
  <2> HIDE DEF last
  <2> QED BY <2>1, <2>2 DEF SpillOver
<1>2. Redraws(s, t, "TRAINING", 0, t.current_epoch)
  BY TrackerSteps
<1> HIDE DEF s, c
<1>3. last = Redrawn(s, s.event, rest, c)
  <2>1. last = [s EXCEPT !.current_epoch = c, !.bar = rest]
    OBVIOUS
  <2>2. TrackerForm(s)
    BY <1>2 DEF Redraws
  <2> HIDE DEF last
  <2> QED BY <2>1, <2>2 DEF TrackerForm, Redrawn
<1> HIDE DEF last
<1>4. Redraws(last, s, "TRAINING", rest, t.current_epoch + w)
  <2>1. s.event = "TRAINING" /\ c = t.current_epoch + w
    BY <1>2 DEF Redraws, c
  <2> QED BY <1>3, <2>1, RedrawnRedraws
<1>5. Redraws(last, t, "TRAINING", rest, t.current_epoch + w)
  BY <1>2, <1>4, RedrawsTwice
<1>6. Redraws(EndTrainingEpoch(last), t, "IDLE", NoBar, (t.current_epoch + w) + 1)
  <2>1. TrackerForm(last) /\ last.current_epoch = t.current_epoch + w
    BY <1>5 DEF Redraws
  <2>2. Redraws(EndTrainingEpoch(last), last, "IDLE", NoBar, (t.current_epoch + w) + 1)
    BY <2>1, TrackerSteps
  <2> QED BY <1>5, <2>2, RedrawsTwice
<1> QED BY <1>1, <1>5, <1>6

(* A tracker that never hangs: an epoch has samples.  A bar of downsampling *)
(* shows the samples of the last answer.                                   *)
Sane(t) ==
  /\ TrackerForm(t) /\ t.hung = FALSE
  /\ t.num_samples_epoch_training \in Nat \ {0}
  /\ t.event \in {"IDLE", "TRAINING", "DOWNSAMPLING"}
  /\ t.event = "DOWNSAMPLING" =>
       t.bar = t.last_samples_downsampling /\ t.last_samples_downsampling \in Int

(* A bar between or within epochs after x samples.                         *)
EpochsSeen(t, x) ==
  LET e == t.num_samples_epoch_training
  IN /\ t.last_samples_training = x /\ t.current_epoch = x \div e
     /\ t.event = "TRAINING" => t.bar = x % e
     /\ t.event = "IDLE" => t.bar = NoBar /\ x % e = 0

LEMMA SeenOf ==
  ASSUME NEW t, NEW v, NEW event, NEW bar, NEW ce, Redraws(v, t, event, bar, ce), NEW s,
         event \in {"IDLE", "TRAINING"}, Sane(t)
  PROVE  LET u == [v EXCEPT !.last_samples_training = s]
             e == t.num_samples_epoch_training
         IN /\ Sane(u) /\ u.event = event /\ u.num_samples_epoch_training = e
            /\ (ce = s \div e /\ (event = "TRAINING" => bar = s % e)
                  /\ (event = "IDLE" => bar = NoBar /\ s % e = 0)) => EpochsSeen(u, s)
<1> DEFINE u == [v EXCEPT !.last_samples_training = s]
<1>1. /\ TrackerForm(v) /\ v.event = event /\ v.bar = bar /\ v.current_epoch = ce
      /\ v.hung = FALSE /\ v.num_samples_epoch_training = t.num_samples_epoch_training
  BY DEF Redraws, SameCounts, Sane
<1>2. /\ TrackerForm(u) /\ u.event = event /\ u.bar = bar
      /\ u.current_epoch = ce /\ u.hung = FALSE
      /\ u.last_samples_training = s
      /\ u.num_samples_epoch_training = t.num_samples_epoch_training
  BY <1>1, TrackerSeen
<1> HIDE DEF u
<1>3. Sane(u)
  BY <1>2 DEF Sane
<1>4. ASSUME ce = s \div t.num_samples_epoch_training,
             event = "TRAINING" => bar = s % t.num_samples_epoch_training,
             event = "IDLE" => bar = NoBar /\ s % t.num_samples_epoch_training = 0
      PROVE  EpochsSeen(u, s)
  BY <1>2, <1>4 DEF EpochsSeen
<1> QED BY <1>2, <1>3, <1>4 DEF u

(* _progress_counter_training ends as many epochs as the samples fill.     *)
LEMMA ProgressKeeps ==
  ASSUME NEW t, Sane(t), t.event = "TRAINING", NEW s
  PROVE  LET u == ProgressTraining(t, s)
         IN /\ Sane(u) /\ u.event \in {"IDLE", "TRAINING"}
            /\ u.num_samples_epoch_training = t.num_samples_epoch_training
            /\ \A x \in Nat : EpochsSeen(t, x) /\ s \in Nat /\ x <= s => EpochsSeen(u, s)
<1> DEFINE e == t.num_samples_epoch_training
           new == s - t.last_samples_training
           b == t.bar + new
           this == e - t.bar
           r == new - this
           w == IF r > e THEN (r - 1) \div e ELSE 0
           rest == r - w * e
           pe == ProgressEpoch(t, new)
           pt == ProgressEpoch(t, this)
           full == EndTrainingEpoch(pe)
           next == EndTrainingEpoch(pt)
           spilt == SpillOver(next, r)
           u == ProgressTraining(t, s)
           v == IF s < EpochBoundary(t) THEN pe ELSE IF s = EpochBoundary(t) THEN full ELSE spilt
<1>1. u = IF new = 0 THEN t ELSE [v EXCEPT !.last_samples_training = s]
  <2>1. u = IF new = 0 THEN t
            ELSE IF s < EpochBoundary(t) THEN [pe EXCEPT !.last_samples_training = s]
            ELSE IF s = EpochBoundary(t) THEN [full EXCEPT !.last_samples_training = s]
            ELSE [spilt EXCEPT !.last_samples_training = s]
    BY DEF ProgressTraining
  <2> HIDE DEF u, new, pe, full, spilt
  <2> QED BY <2>1
<1>2. TrackerForm(t) /\ t.hung = FALSE /\ e \in Nat \ {0}
  BY DEF Sane
<1>3. /\ Redraws(pe, t, "TRAINING", b, t.current_epoch)
      /\ TrackerForm(pe) /\ pe.current_epoch = t.current_epoch
  <2>1. Redraws(pe, t, t.event, b, t.current_epoch)
    BY <1>2, TrackerSteps
  <2> HIDE DEF pe, b
  <2> QED BY <2>1 DEF Redraws
<1>4. Redraws(full, t, "IDLE", NoBar, t.current_epoch + 1)
  <2>1. Redraws(full, pe, "IDLE", NoBar, pe.current_epoch + 1)
    <3> HIDE DEF pe
    <3> QED BY <1>3, TrackerSteps
  <2> HIDE DEF pe, b, full
  <2> QED BY <1>3, <2>1, RedrawsTwice
<1>5. /\ Redraws(next, t, "IDLE", NoBar, t.current_epoch + 1)
      /\ TrackerForm(next) /\ next.hung = FALSE /\ next.num_samples_epoch_training = e
      /\ next.current_epoch = t.current_epoch + 1
  <2>1. Redraws(pt, t, t.event, t.bar + this, t.current_epoch)
    <3> HIDE DEF this
    <3> QED BY <1>2, TrackerSteps
  <2>2. TrackerForm(pt) /\ pt.current_epoch = t.current_epoch
    <3> HIDE DEF pt, this
    <3> QED BY <2>1 DEF Redraws
  <2>3. Redraws(next, pt, "IDLE", NoBar, pt.current_epoch + 1)
    <3> HIDE DEF pt
    <3> QED BY <2>2, TrackerSteps
  <2> HIDE DEF pt, next, this
  <2>4. Redraws(next, t, "IDLE", NoBar, t.current_epoch + 1)
    BY <2>1, <2>2, <2>3, RedrawsTwice
  <2> QED BY <1>2, <2>4 DEF Redraws, SameCounts
<1>6. /\ rest = e => Redraws(spilt, t, "IDLE", NoBar, ((t.current_epoch + 1) + w) + 1)
      /\ rest # e => Redraws(spilt, t, "TRAINING", rest, (t.current_epoch + 1) + w)
  <2>1. /\ w = IF r > e THEN (r - 1) \div e ELSE 0
        /\ rest = r - w * e
    OBVIOUS
  <2> HIDE DEF e, r, w, rest, next
  <2>2. /\ rest = e => Redraws(spilt, next, "IDLE", NoBar, (next.current_epoch + w) + 1)
        /\ rest # e => Redraws(spilt, next, "TRAINING", rest, next.current_epoch + w)
    BY <1>2, <1>5, <2>1, SpillOverRedraws
  <2> HIDE DEF spilt
  <2> QED BY <1>5, <2>2, RedrawsTwice
<1> HIDE DEF e, new, b, this, r, w, rest, pe, pt, full, next, spilt, u, v
<1>7. CASE new = 0
  <2>1. u = t
    BY <1>1, <1>7
  <2>2. ASSUME NEW x \in Nat, EpochsSeen(t, x), s \in Nat PROVE x = s
    BY <1>7, <2>2 DEF EpochsSeen, new
  <2> QED BY <2>1, <2>2 DEF u, e
<1>8. ASSUME NEW event \in {"IDLE", "TRAINING"}, NEW bar, NEW ce, Redraws(v, t, event, bar, ce),
             new # 0,
             \A x \in Nat : EpochsSeen(t, x) /\ s \in Nat /\ x <= s =>
               /\ ce = s \div e
               /\ event = "TRAINING" => bar = s % e
               /\ event = "IDLE" => bar = NoBar /\ s % e = 0
      PROVE  /\ Sane(u) /\ u.event \in {"IDLE", "TRAINING"}
             /\ u.num_samples_epoch_training = e
             /\ \A x \in Nat : EpochsSeen(t, x) /\ s \in Nat /\ x <= s => EpochsSeen(u, s)
  <2>1. u = [v EXCEPT !.last_samples_training = s]
    BY <1>1, <1>8
  <2>2. /\ Sane(u) /\ u.event = event /\ u.num_samples_epoch_training = e
        /\ (ce = s \div e /\ (event = "TRAINING" => bar = s % e)
              /\ (event = "IDLE" => bar = NoBar /\ s % e = 0)) => EpochsSeen(u, s)
    BY <1>8, <2>1, SeenOf DEF e
  <2> QED BY <1>8, <2>2
<1>9. ASSUME NEW x \in Nat, EpochsSeen(t, x), s \in Nat, x <= s
      PROVE  /\ x \div e \in Nat /\ EpochBoundary(t) = e * (x \div e + 1)
             /\ t.current_epoch = x \div e /\ t.bar = x % e /\ x % e \in Nat
             /\ new = s - x /\ b = (x % e) + (s - x) /\ r = s - EpochBoundary(t)
  <2>1. /\ x \div e \in Nat /\ x % e \in Nat
        /\ t.current_epoch = x \div e /\ t.bar = x % e /\ t.last_samples_training = x
    <3>1. x \div e \in Nat /\ x % e \in 0 .. e - 1
      BY <1>2, <1>9, DivMod
    <3>2. x % e \in Nat
      BY <1>2, <3>1
    <3>3. /\ t.current_epoch = x \div e /\ t.last_samples_training = x
          /\ t.bar = x % e
      BY <1>9 DEF EpochsSeen, e
    <3> QED BY <3>1, <3>2, <3>3
  <2>2. EpochBoundary(t) = e * (x \div e + 1)
    BY <2>1 DEF EpochBoundary, e
  <2>3. new = s - x /\ b = (x % e) + (s - x)
    BY <2>1 DEF new, b
  <2>4. r = s - EpochBoundary(t)
    <3> DEFINE k == x \div e
               l == x % e
    <3>1. k \in Nat /\ l \in Nat /\ k * e \in Nat /\ x = k * e + l
      <4>1. k \in Nat /\ l \in 0 .. e - 1 /\ k * e \in Nat /\ x = k * e + l
        BY <1>2, <1>9, DivMod
      <4> HIDE DEF k, l
      <4> QED BY <1>2, <4>1
    <3>2. EpochBoundary(t) = e * (k + 1) /\ r = (s - x) - (e - l)
      BY <2>1, <2>2, <2>3 DEF r, this
    <3> HIDE DEF k, l
    <3>3. e * (k + 1) = k * e + e
      BY <1>2, <3>1
    <3> QED BY <1>2, <1>9, <3>1, <3>2, <3>3
  <2> QED BY <2>1, <2>2, <2>3, <2>4
<1>10. CASE new # 0 /\ s < EpochBoundary(t)
  <2>1. v = pe
    BY <1>10 DEF v
  <2>2. ASSUME NEW x \in Nat, EpochsSeen(t, x), s \in Nat, x <= s
        PROVE  t.current_epoch = s \div e /\ b = s % e
    <3>1. s < e * (x \div e + 1)
      BY <1>9, <1>10, <2>2
    <3>2. s \div e = x \div e /\ s % e = (x % e) + (s - x)
      BY <1>2, <2>2, <3>1, SameEpoch
    <3> QED BY <1>9, <2>2, <3>2
  <2> QED BY <1>3, <1>8, <1>10, <2>1, <2>2 DEF u, e
<1>11. CASE new # 0 /\ ~ (s < EpochBoundary(t)) /\ s = EpochBoundary(t)
  <2>1. v = full
    BY <1>11 DEF v
  <2>2. ASSUME NEW x \in Nat, EpochsSeen(t, x), s \in Nat, x <= s
        PROVE  t.current_epoch + 1 = s \div e /\ s % e = 0
    <3> DEFINE k == x \div e + 1
    <3>1. k \in Nat /\ s = e * k /\ t.current_epoch + 1 = k
      BY <1>9, <1>11, <2>2
    <3> HIDE DEF k
    <3> QED BY <1>2, <3>1, WholeEpochs
  <2> QED BY <1>4, <1>8, <1>11, <2>1, <2>2 DEF u, e
<1>12. CASE new # 0 /\ ~ (s < EpochBoundary(t)) /\ s # EpochBoundary(t)
  <2>1. v = spilt
    BY <1>12 DEF v
  <2>2. ASSUME NEW x \in Nat, EpochsSeen(t, x), s \in Nat, x <= s
        PROVE  /\ rest = e => ((t.current_epoch + 1) + w) + 1 = s \div e /\ s % e = 0
               /\ rest # e => (t.current_epoch + 1) + w = s \div e /\ rest = s % e
    <3> DEFINE k == x \div e + 1
    <3>1. k \in Nat /\ r = s - e * k /\ t.current_epoch + 1 = k /\ e * k = EpochBoundary(t)
      BY <1>9, <2>2
    <3> HIDE DEF k
    <3>2. e * k \in Nat
      BY <1>2, <3>1
    <3>3. e * k < s
      BY <1>12, <2>2, <3>1, <3>2
    <3>4. w = (IF r > e THEN (r - 1) \div e ELSE 0) /\ rest = r - w * e
      BY DEF w, rest
    <3>5. /\ rest = e => s \div e = k + w + 1 /\ s % e = 0
          /\ rest # e => s \div e = k + w /\ s % e = rest
      <4>1. Spilt(e, k, s, r, w, rest)
        BY <3>1, <3>4 DEF Spilt
      <4>2. EpochsAfter(e, k, s, r, w, rest)
        BY <1>2, <2>2, <3>1, <3>3, <4>1, SpillsOver
      <4> QED BY <4>2 DEF EpochsAfter
    <3> QED BY <3>1, <3>5
  <2>3. CASE rest = e
    BY <1>6, <1>8, <1>12, <2>1, <2>2, <2>3 DEF u, e
  <2>4. CASE rest # e
    BY <1>6, <1>8, <1>12, <2>1, <2>2, <2>4 DEF u, e
  <2> QED BY <2>3, <2>4
<1> QED BY <1>2, <1>7, <1>10, <1>11, <1>12 DEF u, e

LEMMA SaneOf ==
  ASSUME NEW t, Sane(t), NEW u, NEW event \in {"IDLE", "TRAINING"}, NEW bar, NEW ce,
         Redraws(u, t, event, bar, ce)
  PROVE  /\ Sane(u) /\ u.event = event /\ u.bar = bar /\ u.current_epoch = ce
         /\ u.last_samples_training = t.last_samples_training
         /\ u.num_samples_epoch_training = t.num_samples_epoch_training
BY DEF Sane, Redraws, SameCounts

(* An answer begins an epoch, or the downsampling before it.               *)
LEMMA PhaseKeeps ==
  ASSUME NEW t, Sane(t), NEW is_training \in BOOLEAN
  PROVE  LET u == Phase(t, is_training)
         IN /\ Sane(u) /\ u.num_samples_epoch_training = t.num_samples_epoch_training
            /\ u.event = IF is_training THEN "TRAINING" ELSE "DOWNSAMPLING"
            /\ t.event # "DOWNSAMPLING" /\ is_training =>
                 \A x \in Nat : EpochsSeen(t, x) => EpochsSeen(u, x)
<1> DEFINE u == Phase(t, is_training)
<1>0. TrackerForm(t) /\ t.hung = FALSE /\ t.num_samples_epoch_training \in Nat \ {0}
      /\ t.event \in {"IDLE", "TRAINING", "DOWNSAMPLING"}
  BY DEF Sane
<1>1. ASSUME NEW v, Sane(v), v.num_samples_epoch_training = t.num_samples_epoch_training
      PROVE  LET d == StartDownsampling(v)
             IN /\ Sane(d) /\ d.event = "DOWNSAMPLING"
                /\ d.num_samples_epoch_training = t.num_samples_epoch_training
  <2> DEFINE d == StartDownsampling(v)
  <2>1. TrackerForm(v) /\ v.hung = FALSE
    BY <1>1 DEF Sane
  <2>2. /\ TrackerForm(d) /\ d.event = "DOWNSAMPLING" /\ d.bar = 0
        /\ d.last_samples_downsampling = 0 /\ d.hung = v.hung
        /\ d.num_samples_epoch_training = v.num_samples_epoch_training
    BY <2>1, TrackerDownsampled
  <2> HIDE DEF d
  <2>3. Sane(d)
    BY <1>0, <1>1, <2>1, <2>2 DEF Sane
  <2> QED BY <1>1, <2>2, <2>3 DEF d
<1>2. CASE t.event = "IDLE" /\ is_training
  <2>1. u = StartTrainingEpoch(t)
    BY <1>2 DEF Phase
  <2>2. Redraws(u, t, "TRAINING", 0, t.current_epoch)
    BY <1>0, <2>1, TrackerSteps
  <2> HIDE DEF u
  <2>3. /\ Sane(u) /\ u.event = "TRAINING" /\ u.bar = 0 /\ u.current_epoch = t.current_epoch
        /\ u.last_samples_training = t.last_samples_training
        /\ u.num_samples_epoch_training = t.num_samples_epoch_training
    BY <2>2, SaneOf
  <2>4. \A x \in Nat : EpochsSeen(t, x) => EpochsSeen(u, x)
    BY <1>2, <2>3 DEF EpochsSeen
  <2> QED BY <1>2, <2>3, <2>4 DEF u
<1>3. CASE t.event = "IDLE" /\ ~ is_training
  <2>1. u = StartDownsampling(t)
    BY <1>3 DEF Phase
  <2> QED BY <1>1, <1>3, <2>1
<1>4. CASE t.event = "DOWNSAMPLING" /\ is_training
  <2> DEFINE v == EndDownsampling(t)
  <2>1. u = StartTrainingEpoch(v)
    BY <1>4 DEF Phase
  <2>2. Redraws(v, t, "IDLE", NoBar, t.current_epoch)
    BY <1>0, TrackerSteps
  <2> HIDE DEF v, u
  <2>3. Sane(v) /\ v.num_samples_epoch_training = t.num_samples_epoch_training
    BY <2>2, SaneOf
  <2>4. Redraws(u, v, "TRAINING", 0, v.current_epoch)
    BY <2>1, <2>3, TrackerSteps DEF Sane
  <2>5. /\ Sane(u) /\ u.event = "TRAINING"
        /\ u.num_samples_epoch_training = t.num_samples_epoch_training
    BY <2>3, <2>4, SaneOf
  <2> QED BY <1>4, <2>5 DEF u
<1>5. CASE t.event = "TRAINING" /\ ~ is_training
  <2> DEFINE v == EndTrainingEpoch(t)
  <2>1. u = StartDownsampling(v)
    BY <1>5 DEF Phase
  <2>2. Redraws(v, t, "IDLE", NoBar, t.current_epoch + 1)
    BY <1>0, TrackerSteps
  <2> HIDE DEF v, u
  <2>3. Sane(v) /\ v.num_samples_epoch_training = t.num_samples_epoch_training
    BY <2>2, SaneOf
  <2>4. /\ Sane(u) /\ u.event = "DOWNSAMPLING"
        /\ u.num_samples_epoch_training = t.num_samples_epoch_training
    BY <1>1, <2>1, <2>3
  <2> QED BY <1>5, <2>4 DEF u
<1>6. CASE \/ t.event = "DOWNSAMPLING" /\ ~ is_training
           \/ t.event = "TRAINING" /\ is_training
  <2>1. u = t
    BY <1>6 DEF Phase
  <2> HIDE DEF u
  <2> QED BY <1>6, <2>1 DEF u
<1> QED BY <1>0, <1>2, <1>3, <1>4, <1>5, <1>6

LEMMA DownsamplingKeeps ==
  ASSUME NEW t, Sane(t), t.event = "DOWNSAMPLING", NEW n \in Int
  PROVE  Sane(ProgressDownsampling(t, n))
<1> DEFINE v == [t EXCEPT !.bar = @ + n - t.last_samples_downsampling,
                          !.last_samples_downsampling = n]
<1>0. /\ TrackerForm(t) /\ t.hung = FALSE /\ t.num_samples_epoch_training \in Nat \ {0}
      /\ t.bar = t.last_samples_downsampling /\ t.last_samples_downsampling \in Int
  BY DEF Sane
<1>1. /\ TrackerForm(v) /\ v.event = t.event
      /\ v.bar = t.bar + n - t.last_samples_downsampling
      /\ v.last_samples_downsampling = n /\ v.hung = t.hung
      /\ v.num_samples_epoch_training = t.num_samples_epoch_training
  BY <1>0, TrackerDownsampled
<1>2. ProgressDownsampling(t, n) = IF n = t.num_samples_downsampling THEN EndDownsampling(v) ELSE v
  BY DEF ProgressDownsampling
<1> HIDE DEF v
<1>3. v.bar = n
  BY <1>0, <1>1
<1>4. Sane(v)
  BY <1>0, <1>1, <1>3 DEF Sane
<1>5. Sane(EndDownsampling(v))
  <2>1. Redraws(EndDownsampling(v), v, "IDLE", NoBar, v.current_epoch)
    BY <1>1, TrackerSteps
  <2> QED BY <1>4, <2>1, SaneOf
<1> QED BY <1>2, <1>4, <1>5
-----------------------------------------------------------------------------
(* What a message does to the bar.                                         *)
EpochSize == (StatusBarScale * SamplesPerTrigger) \div 100
Told(t, msg) ==
  CASE msg.action = "create_tracker" -> TrainingTracker(msg.id, SamplesPerTrigger, StatusBarScale)
    [] msg.action = "progress_counter" -> ProgressCounter(t, msg.seen, msg.down, msg.is_training)
    [] msg.action = "close_counter" -> CloseCounter(t)

(* Without downsampling: after x samples the bar shows them; beyond the    *)
(* samples of a training, which stands for a bar that was closed, it shows *)
(* some.                                                                   *)
Shows(t, x) ==
  /\ Sane(t) /\ t.event # "DOWNSAMPLING" /\ ShowsProgress(t)
  /\ x <= SamplesOfTraining => EpochsSeen(t, x) /\ t.num_samples_epoch_training = EpochSize

(* The samples after a message, and what it needs of those before.         *)
MarkOf(m) == IF m.action = "create_tracker" THEN 0
             ELSE IF m.action = "progress_counter" THEN m.seen ELSE SamplesOfTraining + 1
Fits(x, m) ==
  m.action = "progress_counter" => m.is_training /\ x <= m.seen /\ m.seen <= SamplesOfTraining

LEMMA NewTracker ==
  ASSUME EpochSize \in Nat \ {0}, NEW id
  PROVE  LET t == TrainingTracker(id, SamplesPerTrigger, StatusBarScale)
         IN Sane(t) /\ EpochsSeen(t, 0) /\ t.event = "IDLE" /\ t.num_samples_epoch_training = EpochSize
<1> DEFINE t == TrainingTracker(id, SamplesPerTrigger, StatusBarScale)
<1>1. t = [id |-> id, event |-> "IDLE", bar |-> NoBar, current_epoch |-> 0, hung |-> FALSE,
           last_samples_training |-> 0, last_samples_downsampling |-> 0,
           num_samples_downsampling |-> SamplesPerTrigger,
           num_samples_epoch_training |-> EpochSize]
  BY DEF TrainingTracker, EpochSize
<1> HIDE DEF t
<1>2. 0 \div EpochSize = 0 /\ 0 % EpochSize = 0
  <2>1. 0 \in 0 .. EpochSize - 1 /\ 0 * EpochSize + 0 = 0
    OBVIOUS
  <2> QED BY <2>1, ModOfSum
<1>3. TrackerForm(t)
  BY <1>1 DEF TrackerForm, Redrawn
<1>4. /\ t.hung = FALSE /\ t.event = "IDLE" /\ t.bar = NoBar /\ t.current_epoch = 0
      /\ t.last_samples_training = 0 /\ t.num_samples_epoch_training = EpochSize
  BY <1>1
<1>5. Sane(t)
  BY <1>3, <1>4 DEF Sane
<1>6. EpochsSeen(t, 0)
  BY <1>2, <1>4 DEF EpochsSeen
<1> QED BY <1>4, <1>5, <1>6 DEF t

LEMMA EpochsSeenShow ==
  ASSUME NEW t, NEW x, EpochsSeen(t, x)
  PROVE  ShowsProgress(t)
BY DEF EpochsSeen, ShowsProgress

LEMMA ToldKeeps ==
  ASSUME EpochSize \in Nat \ {0}, NEW t, Sane(t), NEW m \in TrainingMsg,
         m.down \in Int, m.seen \in Nat
  PROVE  /\ Sane(Told(t, m))
         /\ \A x \in Nat : Shows(t, x) /\ Fits(x, m) => Shows(Told(t, m), MarkOf(m))
<1>0. SamplesOfTraining \in Nat
  <2>1. EpochSize \in Nat /\ Epochs \in Nat
    BY SupervisionAssumption DEF SupervisionAssumption
  <2>2. SamplesOfTraining = Epochs * EpochSize
    BY DEF SamplesOfTraining, EpochSize
  <2> QED BY <2>1, <2>2
<1>1. m.action \in {"create_tracker", "progress_counter", "close_counter"} /\ m.is_training \in BOOLEAN
  BY DEF TrainingMsg
<1>2. CASE m.action = "create_tracker"
  <2> DEFINE u == TrainingTracker(m.id, SamplesPerTrigger, StatusBarScale)
  <2>1. Told(t, m) = u /\ MarkOf(m) = 0
    BY <1>2 DEF Told, MarkOf
  <2>2. Sane(u) /\ EpochsSeen(u, 0) /\ u.event = "IDLE" /\ u.num_samples_epoch_training = EpochSize
    BY NewTracker
  <2> HIDE DEF u
  <2>3. Shows(u, 0)
    BY <2>2, EpochsSeenShow DEF Shows
  <2> QED BY <2>1, <2>2, <2>3
<1>3. CASE m.action = "progress_counter"
  <2> DEFINE u == Phase(t, m.is_training)
             v == ProgressTraining(u, m.seen)
  <2>1. /\ Told(t, m) = ProgressCounter(t, m.seen, m.down, m.is_training)
        /\ MarkOf(m) = m.seen
    BY <1>3 DEF Told, MarkOf
  <2>2. /\ Sane(u) /\ u.num_samples_epoch_training = t.num_samples_epoch_training
        /\ u.event = IF m.is_training THEN "TRAINING" ELSE "DOWNSAMPLING"
        /\ t.event # "DOWNSAMPLING" /\ m.is_training =>
             \A x \in Nat : EpochsSeen(t, x) => EpochsSeen(u, x)
    BY <1>1, PhaseKeeps
  <2>3. ProgressCounter(t, m.seen, m.down, m.is_training) =
          IF u.event = "DOWNSAMPLING" THEN ProgressDownsampling(u, m.down)
          ELSE IF m.seen < u.last_samples_training THEN u ELSE v
    BY DEF ProgressCounter
  <2> HIDE DEF u
  <2>4. u.event = "TRAINING" =>
          /\ Sane(v) /\ v.event \in {"IDLE", "TRAINING"}
          /\ v.num_samples_epoch_training = u.num_samples_epoch_training
          /\ \A x \in Nat : EpochsSeen(u, x) /\ m.seen \in Nat /\ x <= m.seen => EpochsSeen(v, m.seen)
    BY <2>2, ProgressKeeps
  <2>5. u.event = "DOWNSAMPLING" => Sane(ProgressDownsampling(u, m.down))
    BY <2>2, DownsamplingKeeps
  <2> HIDE DEF v
  <2>6. Sane(Told(t, m))
    BY <1>1, <2>1, <2>2, <2>3, <2>4, <2>5
  <2>7. ASSUME NEW x \in Nat, Shows(t, x), Fits(x, m) PROVE Shows(Told(t, m), MarkOf(m))
    <3>1. m.is_training /\ x <= m.seen /\ m.seen <= SamplesOfTraining
      BY <1>3, <2>7 DEF Fits
    <3>2. x <= SamplesOfTraining
      BY <1>0, <2>7, <3>1
    <3>3. /\ EpochsSeen(t, x) /\ t.num_samples_epoch_training = EpochSize
          /\ t.event # "DOWNSAMPLING"
      BY <2>7, <3>2 DEF Shows
    <3>4. EpochsSeen(u, x) /\ u.event = "TRAINING" /\ u.last_samples_training = x
      BY <2>2, <3>1, <3>3 DEF EpochsSeen
    <3>5. Told(t, m) = v
      BY <2>1, <2>3, <3>1, <3>4
    <3>6. EpochsSeen(v, m.seen) /\ v.num_samples_epoch_training = EpochSize
      BY <2>2, <2>4, <3>1, <3>3, <3>4
    <3>7. Sane(v) /\ v.event # "DOWNSAMPLING"
      BY <2>4, <3>4
    <3> QED BY <2>1, <3>5, <3>6, <3>7, EpochsSeenShow DEF Shows
  <2> QED BY <2>6, <2>7
<1>4. CASE m.action = "close_counter"
  <2> DEFINE u == CloseCounter(t)
  <2>1. Told(t, m) = u /\ MarkOf(m) = SamplesOfTraining + 1
    BY <1>4 DEF Told, MarkOf
  <2>2. CASE t.event = "IDLE"
    <3>1. u = t
      BY <2>2 DEF CloseCounter
    <3>2. ~ (SamplesOfTraining + 1 <= SamplesOfTraining)
      BY <1>0
    <3> QED BY <2>1, <2>2, <3>1, <3>2 DEF Shows
  <2>3. CASE t.event # "IDLE"
    <3>1. Redraws(u, t, "IDLE", NoBar, t.current_epoch)
      BY <2>3, TrackerSteps DEF Sane
    <3> HIDE DEF u
    <3>2. /\ Sane(u) /\ u.event = "IDLE" /\ u.bar = NoBar /\ u.current_epoch = t.current_epoch
          /\ u.last_samples_training = t.last_samples_training
          /\ u.num_samples_epoch_training = t.num_samples_epoch_training
      BY <3>1, SaneOf
    <3>3. ShowsProgress(t) => ShowsProgress(u)
      BY <3>2 DEF ShowsProgress
    <3>4. ~ (SamplesOfTraining + 1 <= SamplesOfTraining)
      BY <1>0
    <3> QED BY <2>1, <3>2, <3>3, <3>4 DEF Shows
  <2> QED BY <2>2, <2>3
<1> QED BY <1>1, <1>2, <1>3, <1>4

(* Messages one after the other: the samples after the first n of them     *)
(* from x on, and that each fits those before.                             *)
MarkAfter(x, msgs, n) == IF n = 0 THEN x ELSE MarkOf(msgs[n])
Mark(x, msgs) == MarkAfter(x, msgs, Len(msgs))
Ascend(x, msgs) == \A i \in 1 .. Len(msgs) : Fits(MarkAfter(x, msgs, i - 1), msgs[i])

LEMMA AscendNone ==
  ASSUME NEW x
  PROVE  Ascend(x, <<>>) /\ Mark(x, <<>>) = x
<1>1. Len(<<>>) = 0 /\ 1 .. 0 = {}
  OBVIOUS
<1> QED BY <1>1 DEF Ascend, Mark, MarkAfter

LEMMA AscendJoined ==
  ASSUME NEW M, NEW a \in Seq(M), NEW b \in Seq(M), NEW x
  PROVE  /\ Ascend(x, a \o b) <=> Ascend(x, a) /\ Ascend(Mark(x, a), b)
         /\ Mark(x, a \o b) = Mark(Mark(x, a), b)
<1> DEFINE c == a \o b
           k == Len(a)
           l == Len(b)
           y == Mark(x, a)
<1>1. /\ k \in Nat /\ l \in Nat /\ Len(c) = k + l
      /\ \A j \in 1 .. k : c[j] = a[j]
      /\ \A j \in 1 .. l : c[k + j] = b[j] /\ k + j \in 1 .. k + l
      /\ \A j \in 1 .. k + l : j \in 1 .. k \/ (j - k \in 1 .. l /\ k + (j - k) = j)
  OBVIOUS
<1>2. y = MarkAfter(x, a, k)
  BY DEF Mark
<1> HIDE DEF c, k, l, y
<1>3. ASSUME NEW n \in 0 .. k PROVE MarkAfter(x, c, n) = MarkAfter(x, a, n)
  <2>1. n = 0 \/ n \in 1 .. k
    BY <1>1
  <2> QED BY <1>1, <2>1 DEF MarkAfter
<1>4. ASSUME NEW n \in 0 .. l PROVE MarkAfter(x, c, k + n) = MarkAfter(y, b, n)
  <2>1. CASE n = 0
    <3>1. k + n = k /\ k \in 0 .. k
      BY <1>1, <2>1
    <3> QED BY <1>2, <1>3, <2>1, <3>1 DEF MarkAfter
  <2>2. CASE n # 0
    <3>1. n \in 1 .. l /\ k + n # 0
      BY <1>1, <2>2
    <3> QED BY <1>1, <2>2, <3>1 DEF MarkAfter
  <2> QED BY <2>1, <2>2
<1>5. Mark(x, c) = Mark(y, b)
  <2>1. l \in 0 .. l
    BY <1>1
  <2> QED BY <1>1, <1>4, <2>1 DEF Mark, l
<1> DEFINE Good(j) == Fits(MarkAfter(x, c, j - 1), c[j])
<1>6. Ascend(x, c) <=> \A j \in 1 .. k + l : Good(j)
  BY <1>1 DEF Ascend
<1>7. Ascend(x, a) <=> \A j \in 1 .. k : Good(j)
  <2>1. \A j \in 1 .. k : j - 1 \in 0 .. k
    BY <1>1
  <2> QED BY <1>1, <1>3, <2>1 DEF Ascend, k
<1>8. Ascend(y, b) <=> \A j \in 1 .. l : Good(k + j)
  <2>1. \A j \in 1 .. l : j - 1 \in 0 .. l /\ k + (j - 1) = (k + j) - 1
    BY <1>1
  <2>2. \A j \in 1 .. l : MarkAfter(x, c, (k + j) - 1) = MarkAfter(y, b, j - 1)
    BY <1>4, <2>1
  <2> QED BY <1>1, <2>2 DEF Ascend, l
<1>9. \A j \in 1 .. k : j \in 1 .. k + l
  BY <1>1
<1> HIDE DEF Good
<1>10. (\A j \in 1 .. k + l : Good(j)) <=>
         (\A j \in 1 .. k : Good(j)) /\ (\A j \in 1 .. l : Good(k + j))
  BY <1>1, <1>9
<1> QED BY <1>5, <1>6, <1>7, <1>8, <1>10 DEF c, y

LEMMA AscendCut ==
  ASSUME NEW M, NEW a \in Seq(M), NEW b \in Seq(M), NEW n \in 0 .. Len(b), NEW x, Ascend(x, a \o b)
  PROVE  Ascend(x, a \o SubSeq(b, 1, n))
<1> DEFINE c == SubSeq(b, 1, n)
           y == Mark(x, a)
<1>1. c \in Seq(M) /\ Len(c) = n /\ n \in Nat /\ \A j \in 1 .. n : c[j] = b[j] /\ j \in 1 .. Len(b)
  OBVIOUS
<1>2. Ascend(x, a) /\ Ascend(y, b)
  BY AscendJoined
<1> HIDE DEF c, y
<1>3. ASSUME NEW i \in 1 .. n PROVE MarkAfter(y, c, i - 1) = MarkAfter(y, b, i - 1)
  <2>1. i - 1 = 0 \/ i - 1 \in 1 .. n
    BY <1>1
  <2> QED BY <1>1, <2>1 DEF MarkAfter
<1>4. Ascend(y, c)
  BY <1>1, <1>2, <1>3 DEF Ascend
<1> QED BY <1>1, <1>2, <1>4, AscendJoined DEF c, y

LEMMA AscendOne ==
  ASSUME NEW x, NEW m
  PROVE  /\ Ascend(x, <<m>>) <=> Fits(x, m)
         /\ Mark(x, <<m>>) = MarkOf(m)
<1>1. Len(<<m>>) = 1 /\ 1 .. 1 = {1} /\ <<m>>[1] = m /\ 1 - 1 = 0
  OBVIOUS
<1> QED BY <1>1 DEF Ascend, Mark, MarkAfter

LEMMA MessageNumbers ==
  ASSUME NEW m \in TrainingMsg
  PROVE  m.down \in Int /\ m.seen \in Nat
<1>1. SamplesPerTrigger \in Nat /\ SeenChoices \subseteq Nat
  BY SupervisionAssumption DEF SupervisionAssumption
<1> DEFINE half == SamplesPerTrigger \div 2
<1>2. half \in Int
  BY <1>1
<1>3. m.down \in {0, half, SamplesPerTrigger} /\ m.seen \in SeenChoices \cup {0}
  BY DEF TrainingMsg
<1> HIDE DEF half
<1>4. m.down \in Int
  BY <1>1, <1>2, <1>3
<1>5. m.seen \in Nat
  <2>1. \A x \in SeenChoices : x \in Nat
    BY <1>1
  <2>2. CASE m.seen \in SeenChoices
    BY <2>1, <2>2
  <2>3. CASE m.seen = 0
    BY <2>3
  <2> QED BY <1>3, <2>2, <2>3
<1> QED BY <1>4, <1>5

LEMMA MarkNumber ==
  ASSUME EpochSize \in Nat \ {0}
  PROVE  SamplesOfTraining \in Nat /\ \A m \in TrainingMsg : MarkOf(m) \in Nat
<1>1. SamplesOfTraining \in Nat
  <2>1. EpochSize \in Nat /\ Epochs \in Nat
    BY SupervisionAssumption DEF SupervisionAssumption
  <2>2. SamplesOfTraining = Epochs * EpochSize
    BY DEF SamplesOfTraining, EpochSize
  <2> QED BY <2>1, <2>2
<1> QED BY <1>1, MessageNumbers DEF MarkOf

(* The client after each message of an answer.                             *)
LEMMA TrainingDrawn ==
  ASSUME NEW c, NEW M, NEW msgs \in Seq(M)
  PROVE  \E f : DrawnBy(f, c, msgs)
<1>1. Len(msgs) \in Nat
  OBVIOUS
<1> QED BY <1>1, TrainingFold

(* The messages of one answer, drawn one after the other.                  *)
LEMMA BarDrawn ==
  ASSUME EpochSize \in Nat \ {0}, NEW c, ClientForm(c), c.state = "polling", Sane(c.tracker),
         NEW msgs \in Seq(TrainingMsg)
  PROVE  LET d == Monitor(MonitorTraining, c, msgs)
         IN /\ d.state = "polling" /\ Sane(d.tracker)
            /\ \A x \in Nat : Shows(c.tracker, x) /\ Ascend(x, msgs) =>
                                Mark(x, msgs) \in Nat /\ Shows(d.tracker, Mark(x, msgs))
<1> DEFINE L == Len(msgs)
<1>1. L \in Nat
  OBVIOUS
<1>2. PICK f : DrawnBy(f, c, msgs)
  BY TrainingDrawn
<1>20. /\ f[0] = c
       /\ \A i \in 1 .. L : f[i] = MonitorTraining(f[i - 1], msgs[i])
       /\ Monitor(MonitorTraining, c, msgs) = f[L]
  BY <1>2 DEF DrawnBy
<1> DEFINE Follows(x) == x \in Nat /\ Shows(c.tracker, x) /\ Ascend(x, msgs)
           Good(n) == /\ ClientForm(f[n]) /\ f[n].state = "polling" /\ Sane(f[n].tracker)
                      /\ \A x : Follows(x) => /\ MarkAfter(x, msgs, n) \in Nat
                                              /\ Shows(f[n].tracker, MarkAfter(x, msgs, n))
           T == {n \in Nat : n <= L => Good(n)}
<1>3. ASSUME NEW d, ClientForm(d), d.state = "polling", NEW m, Sane(Told(d.tracker, m))
      PROVE  LET e == MonitorTraining(d, m)
             IN ClientForm(e) /\ e.state = "polling" /\ e.tracker = Told(d.tracker, m)
  <2> DEFINE t == Told(d.tracker, m)
             e == MonitorTraining(d, m)
  <2>1. e = [d EXCEPT !.tracker = t, !.state = IF t.hung THEN "hung" ELSE @]
    BY <1>3 DEF MonitorTraining, Told
  <2>2. t.hung = FALSE
    BY <1>3 DEF Sane
  <2> HIDE DEF t, e
  <2> DEFINE s == IF t.hung THEN "hung" ELSE d.state
  <2>3. e = [d EXCEPT !.tracker = t, !.state = s] /\ s = "polling"
    BY <1>3, <2>1, <2>2
  <2> HIDE DEF s
  <2>4. e = [state |-> s, tracker |-> t, evaluations |-> d.evaluations, pbar |-> d.pbar,
             eval_err_count |-> d.eval_err_count, verdict |-> d.verdict]
    BY <1>3, <2>3 DEF ClientForm
  <2>5. ClientForm(e) /\ e.state = "polling" /\ e.tracker = t
    BY <2>3, <2>4 DEF ClientForm
  <2> QED BY <2>5 DEF e, t
<1>4. 0 \in T
  <2>1. \A x : Follows(x) => MarkAfter(x, msgs, 0) = x
    BY DEF MarkAfter
  <2> HIDE DEF MarkAfter
  <2> QED BY <1>20, <2>1
<1>5. ASSUME NEW n \in Nat, n \in T PROVE n + 1 \in T
  <2> SUFFICES ASSUME n + 1 <= L PROVE Good(n + 1)
    OBVIOUS
  <2>1. n + 1 \in 1 .. L /\ (n + 1) - 1 = n /\ Good(n)
    <3> HIDE DEF Good
    <3> QED BY <1>1, <1>5
  <2> DEFINE m == msgs[n + 1]
  <2>2. m \in TrainingMsg /\ m.down \in Int /\ m.seen \in Nat /\ MarkOf(m) \in Nat
    BY <2>1, MessageNumbers, MarkNumber
  <2>3. f[n + 1] = MonitorTraining(f[n], m)
    BY <1>20, <2>1
  <2>4. \A x : /\ MarkAfter(x, msgs, n + 1) = MarkOf(m)
               /\ Follows(x) => Fits(MarkAfter(x, msgs, n), m)
    <3>1. \A x : MarkAfter(x, msgs, n + 1) = MarkOf(m)
      BY <2>1 DEF MarkAfter
    <3>2. \A x : Follows(x) => Fits(MarkAfter(x, msgs, n), m)
      BY <2>1 DEF Ascend
    <3> QED BY <3>1, <3>2
  <2> HIDE DEF m, Follows
  <2>5. /\ Sane(Told(f[n].tracker, m))
        /\ \A x \in Nat : Shows(f[n].tracker, x) /\ Fits(x, m) =>
                            Shows(Told(f[n].tracker, m), MarkOf(m))
    BY <2>1, <2>2, ToldKeeps
  <2>6. /\ ClientForm(f[n + 1]) /\ f[n + 1].state = "polling"
        /\ f[n + 1].tracker = Told(f[n].tracker, m)
    BY <1>3, <2>1, <2>3, <2>5
  <2>7. ASSUME NEW x, Follows(x)
        PROVE  /\ MarkAfter(x, msgs, n + 1) \in Nat
               /\ Shows(f[n + 1].tracker, MarkAfter(x, msgs, n + 1))
    BY <2>1, <2>2, <2>4, <2>5, <2>6, <2>7
  <2> QED BY <2>5, <2>6, <2>7
<1>6. L \in T
  <2> HIDE DEF T
  <2>1. \A n \in Nat : n \in T => n + 1 \in T
    BY <1>5
  <2> QED BY <1>1, <1>4, <2>1, NatSetInduction
<1>7. Good(L)
  <2> HIDE DEF Good
  <2> QED BY <1>1, <1>6
<1>8. \A x : MarkAfter(x, msgs, L) = Mark(x, msgs)
  BY DEF Mark
<1> QED BY <1>20, <1>7, <1>8
-----------------------------------------------------------------------------
(* Where no trainer downsamples, the bar shows some number of samples, the *)
(* messages not yet drawn go on from there, and an executor that waits for *)
(* a training has seen no fewer.                                           *)
Awaits == process = "running" /\ exec.pc = "training"
Follows(x) ==
  /\ Shows(client.tracker, x)
  /\ Listens => /\ Ascend(x, TrainingTold)
                /\ Awaits => Mark(x, TrainingTold) <= exec.seen
BarsInv ==
  /\ Sane(client.tracker) /\ client.state # "hung" /\ exec.seen \in Nat
  /\ ~ Downsamples => \E x \in Nat : Follows(x)

LEMMA MarkIsNumber ==
  ASSUME EpochSize \in Nat \ {0}, NEW msgs \in Seq(TrainingMsg), NEW x \in Nat
  PROVE  Mark(x, msgs) \in Nat
<1>1. Len(msgs) \in Nat /\ \A i \in 1 .. Len(msgs) : msgs[i] \in TrainingMsg
  OBVIOUS
<1>2. CASE Len(msgs) = 0
  BY <1>2 DEF Mark, MarkAfter
<1>3. CASE Len(msgs) # 0
  <2>1. Len(msgs) \in 1 .. Len(msgs)
    BY <1>1, <1>3
  <2>2. MarkOf(msgs[Len(msgs)]) \in Nat
    BY <1>1, <2>1, MarkNumber
  <2> QED BY <1>3, <2>2 DEF Mark, MarkAfter
<1> QED BY <1>2, <1>3

LEMMA TrainingTyped ==
  ASSUME MessagesTyped
  PROVE  TrainingTold \in Seq(TrainingMsg)
BY ConcatProperties DEF MessagesTyped, TrainingTold

(* A step that only adds messages for the bar.                             *)
LEMMA BarsTold ==
  ASSUME EpochSize \in Nat \ {0}, MessagesTyped, BarsInv, NEW t \in Seq(TrainingMsg),
         TrainingTold' = TrainingTold \o t,
         UNCHANGED config, client'.tracker = client.tracker, client'.state # "hung",
         Listens' => Listens, exec'.seen \in Nat,
         ~ Downsamples /\ Listens' =>
           \A y \in Nat : (Awaits => y <= exec.seen) =>
                            Ascend(y, t) /\ (Awaits' => Mark(y, t) <= exec'.seen)
  PROVE  BarsInv'
<1>1. Sane(client'.tracker) /\ Downsamples' = Downsamples
  BY DEF BarsInv, Downsamples
<1>2. TrainingTold \in Seq(TrainingMsg)
  BY TrainingTyped
<1>3. ASSUME ~ Downsamples PROVE \E x \in Nat : Follows(x)'
  <2>1. PICK x \in Nat : Follows(x)
    BY <1>3 DEF BarsInv
  <2>2. Shows(client'.tracker, x)
    BY <2>1 DEF Follows
  <2>3. ASSUME Listens'
        PROVE  Ascend(x, TrainingTold') /\ (Awaits' => Mark(x, TrainingTold') <= exec'.seen)
    <3> DEFINE y == Mark(x, TrainingTold)
    <3>1. y \in Nat
      BY <1>2, MarkIsNumber
    <3>2. Ascend(x, TrainingTold) /\ (Awaits => y <= exec.seen)
      BY <2>1, <2>3 DEF Follows
    <3>3. Ascend(y, t) /\ (Awaits' => Mark(y, t) <= exec'.seen)
      <4> HIDE DEF y
      <4> QED BY <1>3, <2>3, <3>1, <3>2
    <3>4. /\ Ascend(x, TrainingTold \o t) <=> Ascend(x, TrainingTold) /\ Ascend(y, t)
          /\ Mark(x, TrainingTold \o t) = Mark(y, t)
      BY <1>2, AscendJoined
    <3> HIDE DEF y
    <3> QED BY <3>2, <3>3, <3>4
  <2>4. Follows(x)'
    BY <2>2, <2>3 DEF Follows
  <2> QED BY <2>4
<1> QED BY <1>1, <1>3 DEF BarsInv

(* A step that says nothing about trainings.                               *)
LEMMA BarsQuiet ==
  ASSUME EpochSize \in Nat \ {0}, MessagesTyped, BarsInv, TrainingTold' = TrainingTold,
         UNCHANGED config, client'.tracker = client.tracker, client'.state # "hung",
         Listens' => Listens, exec'.seen = exec.seen, Awaits' => Awaits
  PROVE  BarsInv'
<1>1. TrainingTold \o <<>> = TrainingTold /\ <<>> \in Seq(TrainingMsg)
  BY TrainingTyped, ConcatEmptySeq, NoMessages
<1>2. TrainingTold' = TrainingTold \o <<>>
  BY <1>1
<1>3. exec'.seen \in Nat
  BY DEF BarsInv
<1>4. ASSUME NEW y \in Nat, Awaits => y <= exec.seen
      PROVE  Ascend(y, <<>>) /\ (Awaits' => Mark(y, <<>>) <= exec'.seen)
  BY <1>4, AscendNone
<1> QED BY <1>1, <1>2, <1>3, <1>4, BarsTold

LEMMA PutTraining ==
  ASSUME MessagesTyped, NEW p, NEW t \in Seq(TrainingMsg), NEW e, PutAll(p, t, e), UNCHANGED call
  PROVE  TrainingTold' = TrainingTold \o t
<1>1. queue["training"] \in Seq(TrainingMsg) /\ call.training \in Seq(TrainingMsg)
  BY DEF MessagesTyped
<1>2. queue'["training"] = queue["training"] \o t
  <2> DEFINE a == queue["pipeline"] \o p
             b == queue["training"] \o t
             c == queue["eval"] \o e
  <2>1. {"pipeline", "training", "eval"} = Queues /\ queue = [q \in Queues |-> queue[q]]
    BY DEF Queues, MessagesTyped
  <2>2. queue' = [queue EXCEPT !["pipeline"] = @ \o p, !["training"] = @ \o t, !["eval"] = @ \o e]
    BY DEF PutAll
  <2>3. queue' = [[[queue EXCEPT !["pipeline"] = a] EXCEPT !["training"] = b] EXCEPT !["eval"] = c]
    BY <2>1, <2>2
  <2> HIDE DEF a, b, c
  <2>4. queue'["training"] = b
    BY <2>1, <2>3
  <2> QED BY <2>4 DEF b
<1>3. TrainingTold' = call.training \o (queue["training"] \o t)
  BY <1>2 DEF TrainingTold
<1> DEFINE a == call.training
           b == queue["training"]
<1>4. a \in Seq(TrainingMsg) /\ b \in Seq(TrainingMsg)
  BY <1>1
<1> HIDE DEF a, b
<1>5. (a \o b) \o t = a \o (b \o t)
  BY <1>4, ConcatAssociative
<1> QED BY <1>3, <1>5 DEF TrainingTold, a, b

(* A step of the executor that says nothing about trainings and does not   *)
(* begin to wait for one.                                                  *)
LEMMA BarsExecutor ==
  ASSUME EpochSize \in Nat \ {0}, SupervisionInv, BarsInv, UNCHANGED <<config, call, client>>,
         UNCHANGED queue \/ \E p, e : PutAll(p, <<>>, e),
         exec'.seen = exec.seen, exec'.pc # "training" \/ process' # "running"
  PROVE  BarsInv'
<1>1. MessagesTyped
  BY DEF SupervisionInv
<1>2. TrainingTold' = TrainingTold
  <2>1. CASE UNCHANGED queue
    BY <2>1 DEF TrainingTold
  <2>2. CASE \E p, e : PutAll(p, <<>>, e)
    <3>1. PICK p, e : PutAll(p, <<>>, e)
      BY <2>2
    <3>2. TrainingTold' = TrainingTold \o <<>>
      BY <1>1, <3>1, PutTraining, NoMessages
    <3> QED BY <1>1, <3>2, TrainingTyped, ConcatEmptySeq
  <2> QED BY <2>1, <2>2
<1>3. client'.tracker = client.tracker /\ client'.state # "hung" /\ (Listens' => Listens)
  BY DEF BarsInv, Listens
<1>4. Awaits' => Awaits
  BY DEF Awaits
<1> QED BY <1>1, <1>2, <1>3, <1>4, BarsQuiet
LEMMA BarsRaised ==
  ASSUME EpochSize \in Nat \ {0}, SupervisionInv, BarsInv, Raise, UNCHANGED <<config, call, client>>
  PROVE  BarsInv'
<1>1. exec'.seen = exec.seen /\ exec'.pc = "raised" /\ UNCHANGED queue
  BY DEF SupervisionInv, SupervisionTyped, Raise
<1> QED BY <1>1, BarsExecutor

LEMMA BarsElsewhere ==
  ASSUME EpochSize \in Nat \ {0}, SupervisionInv, BarsInv,
         \/ Connect \/ HandleNewData \/ StartEvaluation \/ EvaluationAnswer \/ EvaluationCompleted
         \/ NewDataHandled \/ ReplayDone \/ NextCell \/ ExecutionDone \/ Exit
  PROVE  BarsInv'
<1>0. /\ exec = [pc |-> exec.pc, trigger |-> exec.trigger, answers |-> exec.answers,
                 seen |-> exec.seen, cells |-> exec.cells, next_eval |-> exec.next_eval,
                 evals |-> exec.evals, errors |-> exec.errors]
      /\ process = "exiting" => exec.pc \in {"done", "raised"}
  BY DEF SupervisionInv, SupervisionTyped, ProcessInv
<1> USE DEF At, Goto, ExecutorOnly
<1>1. CASE Connect
  <2>1. CASE config.trigger_available
    <3>1. /\ UNCHANGED <<config, call, client>> /\ exec' = [exec EXCEPT !.pc = "data"]
          /\ \E p, e : PutAll(p, <<>>, e)
      BY <1>1, <2>1 DEF Connect
    <3>2. exec'.seen = exec.seen /\ exec'.pc = "data"
      BY <1>0, <3>1
    <3> QED BY <3>1, <3>2, BarsExecutor
  <2>2. CASE ~ config.trigger_available
    <3>1. Raise /\ UNCHANGED <<config, call, client>>
      BY <1>1, <2>2 DEF Connect
    <3> QED BY <3>1, BarsRaised
  <2> QED BY <2>1, <2>2
<1>2. CASE HandleNewData
  <2>1. /\ UNCHANGED <<config, call, client>>
        /\ exec' = [exec EXCEPT !.pc = "train", !.trigger = @ + 1]
        /\ \E p, e : PutAll(p, <<>>, e)
    BY <1>2 DEF HandleNewData
  <2>2. exec'.seen = exec.seen /\ exec'.pc = "train"
    BY <1>0, <2>1
  <2> QED BY <2>1, <2>2, BarsExecutor
<1>3. CASE StartEvaluation
  <2>1. UNCHANGED <<config, call, client>> /\ (EvaluationStarts \/ Raise)
    BY <1>3 DEF StartEvaluation
  <2>2. CASE EvaluationStarts
    <3>1. /\ \E s, n : exec' = [exec EXCEPT !.pc = "evaluating", !.evals = s, !.next_eval = n]
          /\ \E p, e : PutAll(p, <<>>, e)
      BY <2>2 DEF EvaluationStarts
    <3>2. exec'.seen = exec.seen /\ exec'.pc = "evaluating"
      BY <1>0, <3>1
    <3> QED BY <2>1, <3>1, <3>2, BarsExecutor
  <2>3. CASE Raise
    BY <2>1, <2>3, BarsRaised
  <2> QED BY <2>1, <2>2, <2>3
<1>4. CASE EvaluationAnswer
  <2>1. PICK id \in exec.evals, outcome \in {"seen_half", "ended", "failed"} :
          /\ exec' = [exec EXCEPT !.answers = IF outcome = "seen_half" THEN @ + 1 ELSE @,
                                   !.evals = IF outcome = "seen_half" THEN @ ELSE @ \ {id},
                                   !.errors = IF outcome = "failed" THEN @ + 1 ELSE @]
          /\ \E e : PutAll(<<>>, <<>>, e)
    BY <1>4 DEF EvaluationAnswer
  <2> DEFINE a == IF outcome = "seen_half" THEN exec.answers + 1 ELSE exec.answers
             s == IF outcome = "seen_half" THEN exec.evals ELSE exec.evals \ {id}
             n == IF outcome = "failed" THEN exec.errors + 1 ELSE exec.errors
  <2>2. exec' = [exec EXCEPT !.answers = a, !.evals = s, !.errors = n]
    BY <2>1
  <2> HIDE DEF a, s, n
  <2>3. exec'.seen = exec.seen /\ exec'.pc = exec.pc
    BY <1>0, <2>2
  <2>4. exec.pc = "evaluating" /\ UNCHANGED <<config, call, client>>
    BY <1>4 DEF EvaluationAnswer
  <2>5. exec'.pc # "training"
    BY <2>3, <2>4
  <2> QED BY <2>1, <2>3, <2>4, <2>5, BarsExecutor
<1>5. CASE EvaluationCompleted
  <2>1. UNCHANGED <<config, call, client>>
    BY <1>5 DEF EvaluationCompleted
  <2>2. CASE exec' = [exec EXCEPT !.pc = "handled"] /\ \E p, e : PutAll(p, <<>>, e)
    <3>1. exec'.seen = exec.seen /\ exec'.pc = "handled"
      BY <1>0, <2>2
    <3> QED BY <2>1, <2>2, <3>1, BarsExecutor
  <2>3. CASE /\ exec' = [exec EXCEPT !.pc = "matrix", !.cells = @ + 1, !.answers = 0]
             /\ \E p, e : PutAll(p, <<>>, e)
    <3>1. exec'.seen = exec.seen /\ exec'.pc = "matrix"
      BY <1>0, <2>3
    <3> QED BY <2>1, <2>3, <3>1, BarsExecutor
  <2>4. CASE Raise
    BY <2>1, <2>4, BarsRaised
  <2> QED BY <1>5, <2>2, <2>3, <2>4 DEF EvaluationCompleted
<1>6. CASE NewDataHandled
  <2>1. /\ UNCHANGED <<config, call, client>> /\ exec' = [exec EXCEPT !.pc = "data"]
        /\ \E p, e : PutAll(p, <<>>, e)
    BY <1>6 DEF NewDataHandled
  <2>2. exec'.seen = exec.seen /\ exec'.pc = "data"
    BY <1>0, <2>1
  <2> QED BY <2>1, <2>2, BarsExecutor
<1>7. CASE ReplayDone
  <2>1. /\ UNCHANGED <<config, call, client>> /\ exec' = [exec EXCEPT !.pc = "matrix"]
        /\ \E p, e : PutAll(p, <<>>, e)
    BY <1>7 DEF ReplayDone
  <2>2. exec'.seen = exec.seen /\ exec'.pc = "matrix"
    BY <1>0, <2>1
  <2> QED BY <2>1, <2>2, BarsExecutor
<1>8. CASE NextCell
  <2>1. UNCHANGED <<config, call, client, queue>> /\ exec' = [exec EXCEPT !.pc = "evaluate"]
    BY <1>8 DEF NextCell
  <2>2. exec'.seen = exec.seen /\ exec'.pc = "evaluate"
    BY <1>0, <2>1
  <2> QED BY <2>1, <2>2, BarsExecutor
<1>9. CASE ExecutionDone
  <2>1. /\ UNCHANGED <<config, call, client>> /\ exec' = [exec EXCEPT !.pc = "done"]
        /\ \E p, e : PutAll(p, <<>>, e)
    BY <1>9 DEF ExecutionDone
  <2>2. exec'.seen = exec.seen /\ exec'.pc = "done"
    BY <1>0, <2>1
  <2> QED BY <2>1, <2>2, BarsExecutor
<1>10. CASE Exit
  <2>1. UNCHANGED <<config, exec, call, client, queue>> /\ process' = "dead"
    BY <1>10 DEF Exit
  <2> QED BY <2>1, BarsExecutor
<1> QED BY <1>1, <1>2, <1>3, <1>4, <1>5, <1>6, <1>7, <1>8, <1>9, <1>10

(* The bar of a training is created, moved on and closed.                  *)
LEMMA BarsStartTraining ==
  ASSUME EpochSize \in Nat \ {0}, SupervisionInv, BarsInv, StartTraining
  PROVE  BarsInv'
<1>0. /\ exec = [pc |-> exec.pc, trigger |-> exec.trigger, answers |-> exec.answers,
                 seen |-> exec.seen, cells |-> exec.cells, next_eval |-> exec.next_eval,
                 evals |-> exec.evals, errors |-> exec.errors]
      /\ exec.trigger \in Nat /\ exec.seen \in Nat /\ client.state # "hung" /\ MessagesTyped
  BY DEF SupervisionInv, SupervisionTyped, BarsInv
<1>1. UNCHANGED <<config, call, client>>
  BY DEF StartTraining, ExecutorOnly
<1>2. CASE BeginWaiting /\ exec' = [exec EXCEPT !.pc = "training"]
  <2> DEFINE m == Training("create_tracker", exec.trigger, 0, 0, TRUE)
             p == <<Stage("WAIT_FOR_TRAINING_COMPLETION")>>
  <2>1. m \in TrainingMsg /\ m.action = "create_tracker"
    BY <1>0 DEF TrainingMsg, Training
  <2>2. PutAll(p, <<m>>, <<>>)
    BY <1>2 DEF BeginWaiting
  <2> HIDE DEF m, p
  <2>3. <<m>> \in Seq(TrainingMsg)
    BY <2>1
  <2>4. TrainingTold' = TrainingTold \o <<m>>
    BY <1>0, <1>1, <2>2, <2>3, PutTraining
  <2>5. exec'.seen = exec.seen
    BY <1>0, <1>2
  <2>6. ASSUME NEW y \in Nat PROVE Ascend(y, <<m>>) /\ Mark(y, <<m>>) <= exec'.seen
    <3>1. Fits(y, m) /\ MarkOf(m) = 0
      BY <2>1 DEF Fits, MarkOf
    <3>2. Ascend(y, <<m>>) /\ Mark(y, <<m>>) = 0
      BY <3>1, AscendOne
    <3> QED BY <1>0, <2>5, <3>2
  <2>7. client'.tracker = client.tracker /\ client'.state # "hung" /\ (Listens' => Listens)
    BY <1>0, <1>1 DEF Listens
  <2> QED BY <1>0, <1>1, <2>3, <2>4, <2>5, <2>6, <2>7, BarsTold
<1>3. CASE Raise
  BY <1>1, <1>3, BarsRaised
<1> QED BY <1>2, <1>3 DEF StartTraining, Goto

LEMMA BarsTrainingAnswer ==
  ASSUME EpochSize \in Nat \ {0}, SupervisionInv, BarsInv, TrainingAnswer
  PROVE  BarsInv'
<1>0. /\ exec = [pc |-> exec.pc, trigger |-> exec.trigger, answers |-> exec.answers,
                 seen |-> exec.seen, cells |-> exec.cells, next_eval |-> exec.next_eval,
                 evals |-> exec.evals, errors |-> exec.errors]
      /\ exec.trigger \in Nat /\ exec.seen \in Nat /\ client.state # "hung" /\ MessagesTyped
  BY DEF SupervisionInv, SupervisionTyped, BarsInv
<1>1. UNCHANGED <<config, call, client, process>> /\ Awaits
  BY DEF TrainingAnswer, ExecutorOnly, At, Awaits
<1>2. client'.tracker = client.tracker /\ client'.state # "hung" /\ (Listens' => Listens)
  BY <1>0, <1>1 DEF Listens
<1>3. ASSUME NEW seen \in SeenChoices, exec.seen <= seen, seen <= SamplesOfTraining,
             exec' = [exec EXCEPT !.seen = seen, !.answers = @ + 1],
             PutAll(<<>>, <<Training("progress_counter", exec.trigger, seen, 0, TRUE)>>, <<>>)
      PROVE  BarsInv'
  <2> DEFINE m == Training("progress_counter", exec.trigger, seen, 0, TRUE)
  <2>1. /\ m \in TrainingMsg /\ m.action = "progress_counter" /\ m.seen = seen
        /\ m.is_training = TRUE
    BY <1>0 DEF TrainingMsg, Training
  <2>2. PutAll(<<>>, <<m>>, <<>>)
    BY <1>3
  <2> HIDE DEF m
  <2>3. <<m>> \in Seq(TrainingMsg)
    BY <2>1
  <2>4. TrainingTold' = TrainingTold \o <<m>>
    BY <1>0, <1>1, <2>2, <2>3, PutTraining
  <2>5. exec'.seen = seen /\ seen \in Nat
    <3>1. seen \in Nat
      BY SupervisionAssumption DEF SupervisionAssumption
    <3> QED BY <1>0, <1>3, <3>1
  <2>6. ASSUME NEW y \in Nat, Awaits => y <= exec.seen
        PROVE  Ascend(y, <<m>>) /\ Mark(y, <<m>>) <= exec'.seen
    <3>1. y <= seen
      BY <1>0, <1>1, <1>3, <2>5, <2>6
    <3>2. Fits(y, m) /\ MarkOf(m) = seen
      BY <1>3, <2>1, <3>1 DEF Fits, MarkOf
    <3>3. Ascend(y, <<m>>) /\ Mark(y, <<m>>) = seen
      BY <3>2, AscendOne
    <3> QED BY <2>5, <3>3
  <2> QED BY <1>0, <1>1, <1>2, <2>3, <2>4, <2>5, <2>6, BarsTold
<1>4. ASSUME NEW down \in {SamplesPerTrigger \div 2, SamplesPerTrigger}, Downsamples,
             exec' = [exec EXCEPT !.answers = @ + 1],
             PutAll(<<>>, <<Training("progress_counter", exec.trigger, 0, down, FALSE)>>, <<>>)
      PROVE  BarsInv'
  <2> DEFINE m == Training("progress_counter", exec.trigger, 0, down, FALSE)
  <2>1. m \in TrainingMsg
    BY <1>0 DEF TrainingMsg, Training
  <2>2. PutAll(<<>>, <<m>>, <<>>)
    BY <1>4
  <2> HIDE DEF m
  <2>3. <<m>> \in Seq(TrainingMsg)
    BY <2>1
  <2>4. TrainingTold' = TrainingTold \o <<m>>
    BY <1>0, <1>1, <2>2, <2>3, PutTraining
  <2>5. exec'.seen = exec.seen
    BY <1>0, <1>4
  <2> QED BY <1>0, <1>1, <1>2, <1>4, <2>3, <2>4, <2>5, BarsTold
<1> QED BY <1>3, <1>4 DEF TrainingAnswer

LEMMA BarsTrainingCompleted ==
  ASSUME EpochSize \in Nat \ {0}, SupervisionInv, BarsInv, TrainingCompleted
  PROVE  BarsInv'
<1>0. /\ exec = [pc |-> exec.pc, trigger |-> exec.trigger, answers |-> exec.answers,
                 seen |-> exec.seen, cells |-> exec.cells, next_eval |-> exec.next_eval,
                 evals |-> exec.evals, errors |-> exec.errors]
      /\ exec.trigger \in Nat /\ exec.seen \in Nat /\ client.state # "hung" /\ MessagesTyped
  BY DEF SupervisionInv, SupervisionTyped, BarsInv
<1>1. UNCHANGED <<config, call, client>>
  BY DEF TrainingCompleted, ExecutorOnly
<1>2. client'.tracker = client.tracker /\ client'.state # "hung" /\ (Listens' => Listens)
  BY <1>0, <1>1 DEF Listens
<1> DEFINE m == Training("close_counter", exec.trigger, 0, 0, TRUE)
           pc_ == IF Evaluates THEN "evaluate" ELSE "handled"
<1>3. m \in TrainingMsg /\ m.action = "close_counter"
  BY <1>0 DEF TrainingMsg, Training
<1>4. \E p : PutAll(p, <<m>>, <<>>)
  BY DEF TrainingCompleted
<1>5. exec' = [exec EXCEPT !.pc = pc_, !.answers = 0, !.seen = 0] /\ pc_ # "training"
  BY DEF TrainingCompleted
<1> HIDE DEF m, pc_
<1>6. <<m>> \in Seq(TrainingMsg)
  BY <1>3
<1>7. TrainingTold' = TrainingTold \o <<m>>
  BY <1>0, <1>1, <1>4, <1>6, PutTraining
<1>8. exec'.seen = 0 /\ exec'.pc # "training"
  BY <1>0, <1>5
<1>9. ASSUME NEW y \in Nat PROVE Ascend(y, <<m>>)
  <2>1. Fits(y, m)
    BY <1>3 DEF Fits
  <2> QED BY <2>1, AscendOne
<1>10. ~ Awaits'
  BY <1>8 DEF Awaits
<1>11. exec'.seen \in Nat
  BY <1>8
<1>12. ASSUME NEW y \in Nat PROVE Ascend(y, <<m>>) /\ (Awaits' => Mark(y, <<m>>) <= exec'.seen)
  BY <1>9, <1>10
<1> QED BY <1>0, <1>1, <1>2, <1>6, <1>7, <1>11, <1>12, BarsTold

(* A process that is killed takes messages from the end of its queues.     *)
LEMMA BarsKilled ==
  ASSUME EpochSize \in Nat \ {0}, SupervisionInv, BarsInv, ExecutorKilled
  PROVE  BarsInv'
<1>1. /\ UNCHANGED <<config, exec, call, client>> /\ process' = "dead"
      /\ queue' = [q \in Queues |-> SubSeq(queue[q], 1, Min({PipeSize, Len(queue[q])}))]
  BY DEF ExecutorKilled
<1> DEFINE a == call.training
           b == queue["training"]
           n == Min({PipeSize, Len(b)})
<1>2. a \in Seq(TrainingMsg) /\ b \in Seq(TrainingMsg) /\ TrainingTold = a \o b
  BY DEF SupervisionInv, MessagesTyped, TrainingTold
<1>3. n \in 0 .. Len(b)
  <2> DEFINE l == Len(b)
  <2>1. PipeSize \in Nat /\ l \in Nat
    BY <1>2, SupervisionAssumption DEF SupervisionAssumption
  <2> HIDE DEF b, l
  <2>2. \E x \in {PipeSize, l} : \A y \in {PipeSize, l} : x <= y
    <3>1. CASE PipeSize <= l
      BY <2>1, <3>1
    <3>2. CASE ~ (PipeSize <= l)
      BY <2>1, <3>2
    <3> QED BY <3>1, <3>2
  <2>3. /\ Min({PipeSize, l}) \in {PipeSize, l}
        /\ \A y \in {PipeSize, l} : Min({PipeSize, l}) <= y
    BY <2>2 DEF Min
  <2> QED BY <2>1, <2>3 DEF l
<1>4. TrainingTold' = a \o SubSeq(b, 1, n)
  BY <1>1 DEF TrainingTold, Queues
<1> HIDE DEF a, b, n
<1>5. client'.tracker = client.tracker /\ client'.state # "hung" /\ (Listens' => Listens)
      /\ ~ Awaits' /\ Downsamples' = Downsamples /\ exec'.seen \in Nat
  BY <1>1 DEF BarsInv, Listens, Awaits, Downsamples
<1>6. ASSUME ~ Downsamples PROVE \E x \in Nat : Follows(x)'
  <2>1. PICK x \in Nat : Follows(x)
    BY <1>6 DEF BarsInv
  <2>2. Shows(client'.tracker, x)
    BY <1>5, <2>1 DEF Follows
  <2>3. ASSUME Listens' PROVE Ascend(x, TrainingTold')
    <3>1. Ascend(x, a \o b)
      BY <1>2, <1>5, <2>1, <2>3 DEF Follows
    <3> QED BY <1>2, <1>3, <1>4, <3>1, AscendCut
  <2>4. Follows(x)'
    BY <1>5, <2>2, <2>3 DEF Follows
  <2> QED BY <2>4
<1>7. Sane(client'.tracker)
  BY <1>5 DEF BarsInv
<1> QED BY <1>5, <1>6, <1>7 DEF BarsInv

LEMMA BarsRestarted ==
  ASSUME EpochSize \in Nat \ {0}, SupervisionInv, BarsInv, SupervisorRestarts
  PROVE  BarsInv'
<1>1. /\ UNCHANGED <<config, exec>> /\ process' = "dead" /\ call' = NoCall
      /\ queue' = [q \in Queues |-> <<>>]
      /\ client' = IF call.at # "idle" THEN [client EXCEPT !.state = "crashed"] ELSE client
      /\ ClientForm(client)
  BY DEF SupervisorRestarts, SupervisionInv, SupervisionTyped
<1>2. client'.tracker = client.tracker /\ client'.state # "hung"
  <2>1. CASE call.at # "idle"
    <3>1. client' = [state |-> "crashed", tracker |-> client.tracker, evaluations |-> client.evaluations,
                     pbar |-> client.pbar, eval_err_count |-> client.eval_err_count,
                     verdict |-> client.verdict]
      BY <1>1, <2>1 DEF ClientForm
    <3> QED BY <3>1
  <2>2. CASE call.at = "idle"
    BY <1>1, <2>2 DEF BarsInv
  <2> QED BY <2>1, <2>2
<1>3. TrainingTold' = <<>>
  <2>1. TrainingTold' = <<>> \o <<>>
    BY <1>1, NoMessages DEF TrainingTold, Queues
  <2> QED BY <2>1, ConcatEmptySeq, NoMessages
<1>4. Sane(client'.tracker) /\ exec'.seen \in Nat /\ Downsamples' = Downsamples /\ ~ Awaits'
  BY <1>1, <1>2 DEF BarsInv, Downsamples, Awaits
<1>5. ASSUME ~ Downsamples PROVE \E x \in Nat : Follows(x)'
  <2>1. PICK x \in Nat : Follows(x)
    BY <1>5 DEF BarsInv
  <2>2. Shows(client'.tracker, x) /\ Ascend(x, TrainingTold')
    BY <1>2, <1>3, <2>1, AscendNone DEF Follows
  <2>3. Follows(x)'
    BY <1>4, <2>2 DEF Follows
  <2> QED BY <2>3
<1> QED BY <1>2, <1>4, <1>5 DEF BarsInv

(* Requests, and the steps of a status call before its answer.             *)
LEMMA BarsRequested ==
  ASSUME EpochSize \in Nat \ {0}, SupervisionInv, BarsInv, StartPipeline \/ Reject \/ RegisterFails
  PROVE  BarsInv'
<1>1. /\ UNCHANGED <<config, exec, queue, call>> /\ client.state = "starting" /\ ClientForm(client)
      /\ \/ client' = [client EXCEPT !.state = "polling"]
         \/ client' = [client EXCEPT !.state = "rejected"] /\ process' = process
      /\ exec.pc = "connect" /\ MessagesTyped
  BY DEF StartPipeline, Reject, RegisterFails, StartRequest, SupervisionInv, SupervisionTyped,
     ProcessInv
<1>2. client'.tracker = client.tracker /\ client'.state \in {"polling", "rejected"}
  <2>1. PICK s \in {"polling", "rejected"} : client' = [client EXCEPT !.state = s]
    BY <1>1
  <2>2. client' = [state |-> s, tracker |-> client.tracker, evaluations |-> client.evaluations,
                   pbar |-> client.pbar, eval_err_count |-> client.eval_err_count,
                   verdict |-> client.verdict]
    BY <1>1, <2>1 DEF ClientForm
  <2> QED BY <2>1, <2>2
<1>3. TrainingTold' = TrainingTold /\ exec'.seen = exec.seen
  BY <1>1 DEF TrainingTold
<1>4. Listens /\ ~ Awaits'
  BY <1>1 DEF Listens, Awaits
<1>5. client'.state # "hung"
  BY <1>2
<1> QED BY <1>1, <1>2, <1>3, <1>4, <1>5, BarsQuiet

LEMMA BarsAsked ==
  ASSUME EpochSize \in Nat \ {0}, SupervisionInv, BarsInv,
         AskStatus \/ (\E q \in Queues : Drain(q)) \/ SeeDead
  PROVE  BarsInv'
<1>0. MessagesTyped /\ CallInv /\ client.state # "hung" /\ ClientForm(client)
  BY DEF SupervisionInv, SupervisionTyped, BarsInv
<1>1. ASSUME UNCHANGED <<config, process, exec, client>>, TrainingTold' = TrainingTold
      PROVE  BarsInv'
  <2>1. client'.tracker = client.tracker /\ client'.state # "hung" /\ exec'.seen = exec.seen
    BY <1>0, <1>1
  <2>2. (Listens' => Listens) /\ (Awaits' => Awaits)
    BY <1>1 DEF Listens, Awaits
  <2> QED BY <1>0, <1>1, <2>1, <2>2, BarsQuiet
<1>2. CASE AskStatus
  <2>1. CASE registered
    <3>1. "pipeline" \in Queues
      BY DEF Queues
    <3>2. /\ client.state = "polling" /\ call = NoCall /\ Take("pipeline")
          /\ UNCHANGED <<config, registered, process, exitcode, exec, exceptions, client, faults>>
      BY <1>0, <1>2, <2>1 DEF AskStatus, CallInv
    <3>3. TrainingTold' = TrainingTold
      BY <3>1, <3>2, Taken
    <3> QED BY <1>1, <3>2, <3>3
  <2>2. CASE ~ registered
    <3>1. /\ client.state = "polling" /\ client' = [client EXCEPT !.state = "notfound"]
          /\ UNCHANGED <<config, process, exec, queue, call>>
      BY <1>2, <2>2 DEF AskStatus
    <3>2. client' = [state |-> "notfound", tracker |-> client.tracker,
                     evaluations |-> client.evaluations, pbar |-> client.pbar,
                     eval_err_count |-> client.eval_err_count, verdict |-> client.verdict]
      BY <1>0, <3>1 DEF ClientForm
    <3>3. client'.tracker = client.tracker /\ client'.state = "notfound"
      BY <3>2
    <3>4. TrainingTold' = TrainingTold /\ exec'.seen = exec.seen
      BY <3>1 DEF TrainingTold
    <3>5. (Listens' => Listens) /\ (Awaits' => Awaits) /\ client'.state # "hung"
      BY <3>1, <3>3 DEF Listens, Awaits
    <3> QED BY <1>0, <3>1, <3>3, <3>4, <3>5, BarsQuiet
  <2> QED BY <2>1, <2>2
<1>3. CASE \E q \in Queues : Drain(q)
  <2>1. PICK q \in Queues : Drain(q)
    BY <1>3
  <2>2. /\ call.at = q /\ q # "pipeline" /\ Take(q)
        /\ UNCHANGED <<config, registered, process, exitcode, exec, exceptions, client, faults>>
    BY <2>1 DEF Drain
  <2>3. q \in {"training", "eval"}
    BY <2>2 DEF Queues
  <2>4. client.state = "polling"
    BY <1>0, <2>2, <2>3 DEF CallInv
  <2>5. TrainingTold' = TrainingTold
    BY <2>2, <2>3, <2>4, Taken
  <2> QED BY <1>1, <2>2, <2>5
<1>4. CASE SeeDead
  <2>1. /\ call' = [call EXCEPT !.at = "exception"]
        /\ UNCHANGED <<config, process, exec, queue, client>>
    BY <1>4 DEF SeeDead
  <2>2. call' = [at |-> "exception", pipeline |-> call.pipeline, training |-> call.training,
                 eval |-> call.eval]
    BY <1>0, <2>1 DEF MessagesTyped
  <2>3. TrainingTold' = TrainingTold
    BY <2>1, <2>2 DEF TrainingTold
  <2> QED BY <1>1, <2>1, <2>3
<1> QED BY <1>2, <1>3, <1>4

(* An answer draws what the call has taken.                                *)
LEMMA BarsAnswered ==
  ASSUME EpochSize \in Nat \ {0}, SupervisionInv, BarsInv, AnswerRunning \/ AnswerExit
  PROVE  BarsInv'
<1> DEFINE d == ProcessMsgs(client)
           a == Monitor(MonitorTraining, client, call.training)
           s == call.training
           t == queue["training"]
<1>1. /\ MessagesTyped /\ CallInv /\ ClientForm(client)
      /\ s \in Seq(TrainingMsg) /\ t \in Seq(TrainingMsg) /\ TrainingTold = s \o t
  BY DEF SupervisionInv, SupervisionTyped, MessagesTyped, TrainingTold
<1>2. /\ UNCHANGED <<config, process, exec, queue>> /\ call' = NoCall
      /\ client' = d \/ client' = MonitorExit(d)
  BY DEF AnswerRunning, AnswerExit
<1>3. client.state = "polling"
  BY <1>1 DEF AnswerRunning, AnswerExit, CallInv
<1>4. /\ ClientForm(d) /\ d.state \in {"polling", "hung", "crashed"}
      /\ d.tracker = a.tracker /\ (d.state = "hung" => a.state = "hung")
  BY <1>3, Informed
<1>5. /\ a.state = "polling" /\ Sane(a.tracker)
      /\ \A x \in Nat : Shows(client.tracker, x) /\ Ascend(x, s) =>
                          Mark(x, s) \in Nat /\ Shows(a.tracker, Mark(x, s))
  BY <1>1, <1>3, BarDrawn DEF BarsInv
<1>6. TrainingTold' = t
  <2>1. TrainingTold' = <<>> \o t
    BY <1>2, NoMessages DEF TrainingTold
  <2> QED BY <1>1, <2>1, ConcatEmptySeq
<1> HIDE DEF d, a, s, t
<1>7. d.state # "hung"
  BY <1>4, <1>5
<1>8. client'.tracker = d.tracker /\ client'.state # "hung"
  <2>1. CASE client' = d
    BY <1>7, <2>1
  <2>2. CASE client' = MonitorExit(d) /\ client' # d
    <3>1. \E w, v : client' = [d EXCEPT !.state = w, !.verdict = v] /\ w \in {"finished", "crashed"}
      <4>1. CASE exitcode = 0
        BY <2>2, <4>1 DEF MonitorExit
      <4>2. CASE exitcode # 0 /\ exceptions = <<>>
        <5>1. client' = [d EXCEPT !.state = "crashed"]
          BY <2>2, <4>2 DEF MonitorExit
        <5>2. client' = [d EXCEPT !.state = "crashed", !.verdict = d.verdict]
          BY <1>4, <5>1 DEF ClientForm
        <5> QED BY <5>2
      <4>3. CASE exitcode # 0 /\ exceptions # <<>>
        BY <2>2, <4>3 DEF MonitorExit
      <4> QED BY <4>1, <4>2, <4>3
    <3>2. PICK w, v : client' = [d EXCEPT !.state = w, !.verdict = v] /\ w \in {"finished", "crashed"}
      BY <3>1
    <3>3. client' = [state |-> w, tracker |-> d.tracker, evaluations |-> d.evaluations,
                     pbar |-> d.pbar, eval_err_count |-> d.eval_err_count, verdict |-> v]
      BY <1>4, <3>2 DEF ClientForm
    <3> QED BY <3>2, <3>3
  <2> QED BY <1>2, <2>1, <2>2
<1>9. client'.tracker = a.tracker
  BY <1>4, <1>8
<1>10. exec'.seen \in Nat /\ exec'.seen = exec.seen /\ Downsamples' = Downsamples /\ Awaits' = Awaits
       /\ Listens
  BY <1>2, <1>3 DEF BarsInv, Downsamples, Awaits, Listens
<1>11. ASSUME ~ Downsamples PROVE \E x \in Nat : Follows(x)'
  <2>1. PICK x \in Nat : Follows(x)
    BY <1>11 DEF BarsInv
  <2> DEFINE y == Mark(x, s)
  <2>2. /\ Shows(client.tracker, x) /\ Ascend(x, s \o t)
        /\ Awaits => Mark(x, s \o t) <= exec.seen
    BY <1>1, <1>10, <2>1 DEF Follows
  <2>3. /\ Ascend(x, s) /\ Ascend(y, t)
        /\ Mark(x, s \o t) = Mark(y, t)
    BY <1>1, <2>2, AscendJoined
  <2>4. y \in Nat /\ Shows(client'.tracker, y)
    BY <1>5, <1>9, <2>2, <2>3
  <2>5. Awaits => Mark(y, t) <= exec.seen
    BY <2>2, <2>3
  <2>6. PICK z \in Nat : z = y
    BY <2>4
  <2> HIDE DEF y
  <2>7. Ascend(z, t) /\ Shows(client'.tracker, z) /\ (Awaits => Mark(z, t) <= exec.seen)
    BY <2>3, <2>4, <2>5, <2>6
  <2>8. Follows(z)'
    BY <1>6, <1>10, <2>7 DEF Follows
  <2> QED BY <2>8
<1>12. Sane(client'.tracker)
  BY <1>5, <1>9
<1> QED BY <1>8, <1>10, <1>11, <1>12 DEF BarsInv

LEMMA BarsBegin ==
  ASSUME EpochSize \in Nat \ {0}, Init
  PROVE  BarsInv
<1> DEFINE t == TrainingTracker(0, 1, 100)
<1>1. /\ client = [state |-> "starting", tracker |-> t, evaluations |-> <<>>, pbar |-> FALSE,
                   eval_err_count |-> 0, verdict |-> "none"]
      /\ exec.seen = 0 /\ process = "none" /\ call = NoCall /\ queue = [q \in Queues |-> <<>>]
  BY DEF Init
<1>2. t = [id |-> 0, event |-> "IDLE", bar |-> NoBar, current_epoch |-> 0, hung |-> FALSE,
           last_samples_training |-> 0, last_samples_downsampling |-> 0,
           num_samples_downsampling |-> 1, num_samples_epoch_training |-> 1]
  <2>1. (100 * 1) \div 100 = 1
    OBVIOUS
  <2> QED BY <2>1 DEF TrainingTracker
<1> HIDE DEF t
<1>3. client.tracker = t /\ client.state = "starting"
  BY <1>1
<1>4. /\ TrackerForm(t) /\ t.event = "IDLE" /\ t.bar = NoBar /\ t.current_epoch = 0
      /\ t.hung = FALSE /\ t.last_samples_training = 0 /\ t.num_samples_epoch_training = 1
  BY <1>2 DEF TrackerForm, Redrawn
<1>5. Sane(t)
  BY <1>4 DEF Sane
<1>6. ShowsProgress(t)
  <2>1. 0 \in 0 .. 1 - 1 /\ 0 * 1 + 0 = 0
    OBVIOUS
  <2>2. 0 \div 1 = 0 /\ 0 % 1 = 0
    BY <2>1, ModOfSum
  <2>3. EpochsSeen(t, 0)
    BY <1>4, <2>2 DEF EpochsSeen
  <2> QED BY <2>3, EpochsSeenShow
<1>7. TrainingTold = <<>>
  <2>1. TrainingTold = <<>> \o <<>>
    BY <1>1, NoMessages DEF TrainingTold, Queues
  <2> QED BY <2>1, ConcatEmptySeq, NoMessages
<1> DEFINE x == SamplesOfTraining + 1
<1>8. x \in Nat /\ ~ (x <= SamplesOfTraining)
  BY MarkNumber
<1> HIDE DEF x
<1>9. Shows(t, x)
  <2>1. t.event # "DOWNSAMPLING"
    BY <1>4
  <2> QED BY <1>5, <1>6, <1>8, <2>1 DEF Shows
<1>10. Follows(x)
  BY <1>1, <1>3, <1>7, <1>9, AscendNone DEF Follows, Awaits
<1> QED BY <1>1, <1>3, <1>5, <1>8, <1>10 DEF BarsInv

LEMMA BarsSteps ==
  ASSUME EpochSize \in Nat \ {0}, SupervisionInv, BarsInv, [Next]_vars
  PROVE  BarsInv'
<1>1. CASE StartPipeline \/ Reject \/ RegisterFails
  BY <1>1, BarsRequested
<1>2. CASE StartTraining \/ TrainingAnswer \/ TrainingCompleted
  BY <1>2, BarsStartTraining, BarsTrainingAnswer, BarsTrainingCompleted
<1>3. CASE ExecutorStep /\ ~ (StartTraining \/ TrainingAnswer \/ TrainingCompleted)
  BY <1>3, BarsElsewhere DEF ExecutorStep
<1>4. CASE StatusStep
  BY <1>4, BarsAsked, BarsAnswered DEF StatusStep
<1>5. CASE Fault /\ ~ RegisterFails
  <2>1. CASE ExecutorRaises
    <3>1. Raise /\ UNCHANGED <<config, call, client>>
      BY <2>1 DEF ExecutorRaises
    <3> QED BY <3>1, BarsRaised
  <2> QED BY <1>5, <2>1, BarsKilled, BarsRestarted DEF Fault
<1>6. CASE Stop \/ UNCHANGED vars
  <2>1. UNCHANGED <<config, process, exec, queue, call, client>>
    BY <1>6 DEF Stop, vars
  <2>2. TrainingTold' = TrainingTold /\ exec'.seen = exec.seen /\ MessagesTyped
        /\ client'.tracker = client.tracker /\ client'.state # "hung"
        /\ (Listens' => Listens) /\ (Awaits' => Awaits)
    BY <2>1 DEF TrainingTold, SupervisionInv, BarsInv, Listens, Awaits
  <2> QED BY <2>1, <2>2, BarsQuiet
<1> QED BY <1>1, <1>2, <1>3, <1>4, <1>5, <1>6 DEF Next, ExecutorStep, Fault

(* The bar the client draws of a training shows the epoch and the samples  *)
(* the trainer reported last, no message makes it loop for ever, and a bar *)
(* of downsampling shows the last answer's samples -- whenever an epoch    *)
(* trains on at least one sample: for any sizes of trainings and epochs,   *)
(* any spacing of the answers, any number of messages in one poll, and any *)
(* faults.                                                                 *)
THEOREM BarsAreTruthful ==
  ASSUME EpochSize \in Nat \ {0}
  PROVE  Spec => []BarsShowProgress
<1>1. Init => BarsInv
  BY BarsBegin
<1>2. SupervisionInv /\ BarsInv /\ [Next]_vars => BarsInv'
  BY BarsSteps
<1>3. BarsInv => BarsShowProgress
  <2> SUFFICES ASSUME BarsInv PROVE BarsShowProgress
    OBVIOUS
  <2>1. /\ client.state # "hung"
        /\ client.tracker.event = "DOWNSAMPLING" =>
             client.tracker.bar = client.tracker.last_samples_downsampling
    BY DEF BarsInv, Sane
  <2>2. ~ Downsamples => ShowsProgress(client.tracker)
    BY DEF BarsInv, Follows, Shows
  <2> QED BY <2>1, <2>2 DEF BarsShowProgress
<1> QED BY <1>1, <1>2, <1>3, SupervisionInvariant, PTL DEF Spec
=============================================================================
