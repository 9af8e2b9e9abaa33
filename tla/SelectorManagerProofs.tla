------------------------- MODULE SelectorManagerProofs -------------------------
(***************************************************************************)
(* The properties of SelectorManager for every number of processes,        *)
(* samples and triggers and every selection strategy, as long as the       *)
(* executor's connection is replaced or the service restarted at most      *)
(* once.                                                                   *)
(*                                                                         *)
(* A process that fell behind the triggers stores samples under an older   *)
(* trigger.  It fails at its next trigger; but if the service restarts     *)
(* before, the next process draws from rows that are wrong.  This is why   *)
(* the properties do not survive both.                                     *)
(*                                                                         *)
(* At the end, the properties of TriggerSamples, where a trigger's samples *)
(* go.                                                                     *)
(***************************************************************************)
EXTENDS SelectorManager, TriggerSamples, DataLemmas

(* The samples the database has, and what their rows say of them: the      *)
(* trigger a sample was seen in is the first that came after it; until     *)
(* are the samples informed of by each trigger.                            *)
Kept == (1 .. informed) \ lost
RowsAre(rs, kept, until) ==
  /\ {r[1] : r \in rs} = kept
  /\ \A r \in rs : /\ r[2] \in 0 .. Len(until)
                   /\ \A id \in 1 .. r[2] : until[id] < r[1]
                   /\ \A id \in r[2] + 1 .. Len(until) : r[1] <= until[id]

(* The executor talks to a process that does not know all triggers.        *)
Behind == NextTriggerId(connection) # Len(triggers)
-----------------------------------------------------------------------------
RowsInv ==
  phase # "failed" =>
    \/ RowsAre(rows, Kept, informed_until)
    \/ Behind /\ phase = "informing" /\ reconnects = 1

ConnectionInv ==
  /\ phase # "failed" /\ reconnects = 0 => ~Behind
  /\ \A p \in Processes : last_complete_trigger[p] = 0 \/ last_complete_trigger[p] < Len(triggers)

HistoryInv ==
  /\ Len(informed_until) = Len(triggers)
  /\ \A id \in 1 .. Len(triggers) : informed_until[id] <= informed
  /\ phase = "training" => triggers # <<>>

(* The marks of the strategies that sample.                                *)
UsedInv ==
  strategy.name = "FreshnessSamplingStrategy" =>
    /\ tail = AllData /\ used \subseteq Kept
    /\ reconnects = 0 =>
         /\ used = UNION {Drawn(id) : id \in 0 .. Len(triggers) - 1}
         /\ phase # "failed" => (is_first_trigger[connection] <=> triggers = <<>>)

LastUsedInv ==
  strategy.presampling = "RandomNoReplacement" =>
    \A k \in 1 .. MaxSamples :
      /\ \/ last_used_in_trigger[k] = -1
         \/ \E id \in 0 .. Len(triggers) - 1 : last_used_in_trigger[k] = id /\ k \in Drawn(id)
      /\ \A id \in 0 .. Len(triggers) - 1 : id > last_used_in_trigger[k] => k \notin Drawn(id)

ResponseInv ==
  response.kind # "none" =>
    /\ phase = "training"
    /\ \E p \in Processes : \E id \in {Len(triggers) - 1}, next \in {next_trigger_id[p]} :
         response \in {SizesAnswer(p, id), SamplesAnswer(p, id), StrategyAnswer(p),
                      [kind |-> "labels", process |-> p, labels |-> AvailableLabels(next)]}

DownsamplerInv ==
  reconnects = 0 /\ phase # "failed" =>
    /\ \A i \in 1 .. downsampler_index[connection] : Thresholds[i] <= Len(triggers)
    /\ \A i \in downsampler_index[connection] + 1 .. Len(Thresholds) : Thresholds[i] > Len(triggers)

(* Two windows of half the memory, of one sample at least, fit into it.    *)
RoomForTwo ==
  maximum_keys_in_memory >= 2 \/ \A s \in Strategies : s.name # "FreshnessSamplingStrategy"

OnceReconnected ==
  /\ RowsInv /\ ConnectionInv /\ HistoryInv /\ UsedInv /\ LastUsedInv /\ ResponseInv /\ DownsamplerInv
  /\ RoomForTwo => TrainingSetFollowsPolicy
  /\ PresampledAsConfigured /\ FreshShareKept

IInv == TypeOK /\ (reconnects <= 1 => OnceReconnected)
-----------------------------------------------------------------------------
(* Splitting a set of samples.  Parts of S that are disjoint and hold at   *)
(* most m samples each, and what they hold together.                       *)
Splits(ps, S, m) ==
  /\ ps \in Seq(SUBSET S)
  /\ \A i, j \in DOMAIN ps : i # j => ps[i] \cap ps[j] = {}
  /\ \A i \in DOMAIN ps : Cardinality(ps[i]) <= m
Together(ps) == UNION {ps[i] : i \in DOMAIN ps}

(* The number of parts.                                                    *)
LEMMA Ceiling ==
  ASSUME NEW c \in Nat, NEW m \in Nat \ {0}
  PROVE  /\ (c + m - 1) \div m \in Nat /\ c <= ((c + m - 1) \div m) * m
         /\ (c + m - 1) \div m > 0 <=> c > 0
<1> DEFINE x == c + m - 1
           n == x \div m
           r == x % m
<1>1. x \in Nat
  OBVIOUS
<1>2. n \in Nat /\ r \in 0 .. m - 1 /\ n * m \in Nat /\ x = n * m + r
  BY <1>1, DivMod
<1>3. x = c + m - 1
  OBVIOUS
<1> HIDE DEF x, n, r
<1>4. c <= n * m
  BY <1>2, <1>3
<1>5. n > 0 <=> c > 0
  <2>1. ASSUME c > 0, n = 0 PROVE FALSE
    BY <1>4, <2>1
  <2>2. ASSUME c = 0, n > 0 PROVE FALSE
    <3> DEFINE k == n - 1
    <3>1. k \in Nat /\ n = k + 1
      BY <1>2, <2>2
    <3> HIDE DEF k
    <3>2. (k + 1) * m = k * m + 1 * m /\ k * m \in Nat
      BY <3>1, Distribute
    <3> QED BY <1>2, <1>3, <2>2, <3>1, <3>2
  <2> QED BY <1>2, <2>1, <2>2
<1> QED BY <1>2, <1>4, <1>5 DEF n, x

LEMMA UnionFinite ==
  ASSUME NEW A, NEW B, IsFiniteSet(A), IsFiniteSet(B)
  PROVE  /\ IsFiniteSet(A \cup B) /\ Cardinality(A) \in Nat /\ Cardinality(B) \in Nat
         /\ Cardinality(A \cup B) <= Cardinality(A) + Cardinality(B)
         /\ A \cap B = {} => Cardinality(A \cup B) = Cardinality(A) + Cardinality(B)
<1>1. IsFiniteSet(A \cup B)
      /\ Cardinality(A \cup B) = Cardinality(A) + Cardinality(B) - Cardinality(A \cap B)
  BY FS_Union
<1>2. IsFiniteSet(A \cap B)
  BY FS_Subset
<1>3. Cardinality(A) \in Nat /\ Cardinality(B) \in Nat /\ Cardinality(A \cap B) \in Nat
  BY <1>2, FS_CardinalityType
<1>4. A \cap B = {} => Cardinality(A \cap B) = 0
  BY FS_EmptySet
<1> QED BY <1>1, <1>3, <1>4

(* All parts but the last have m samples: the last has at most as many.    *)
LEMMA ChunkingsSplit ==
  ASSUME NEW S, IsFiniteSet(S), NEW m \in Nat \ {0}, NEW ps \in Chunkings(S, m)
  PROVE  Splits(ps, S, m) /\ Together(ps) = S
<1> DEFINE c == Cardinality(S)
           n == (c + m - 1) \div m
<1>1. c \in Nat
  BY FS_CardinalityType
<1>2. n \in Nat /\ c <= n * m /\ (n > 0 <=> c > 0)
  BY <1>1, Ceiling
<1>3. PICK g \in [S -> 1 .. n] :
        /\ ps = [i \in 1 .. n |-> {k \in S : g[k] = i}]
        /\ \A i \in 1 .. n - 1 : Cardinality({k \in S : g[k] = i}) = m
  BY DEF Chunkings
<1> HIDE DEF n, c
<1>4. DOMAIN ps = 1 .. n /\ \A i \in 1 .. n : ps[i] = {k \in S : g[k] = i}
  BY <1>3
<1>5. ps \in Seq(SUBSET S)
  BY <1>2, <1>3
<1>6. \A i, j \in DOMAIN ps : i # j => ps[i] \cap ps[j] = {}
  BY <1>4
<1>7. Together(ps) = S
  BY <1>3, <1>4 DEF Together
<1>8. ASSUME NEW i \in 1 .. n PROVE Cardinality(ps[i]) <= m
  <2>1. CASE i < n
    BY <1>2, <1>3, <1>4, <2>1
  <2>2. CASE i = n
    <3> DEFINE C(j) == {k \in S : g[k] <= j}
               T == {j \in Nat : j <= n - 1 => Cardinality(C(j)) = j * m}
    <3>1. \A j : IsFiniteSet(C(j)) /\ C(j) \subseteq S
      BY FS_Subset
    <3>2. 0 \in T
      <4>1. C(0) = {}
        BY <1>3
      <4>2. Cardinality(C(0)) = 0 * m
        <5>1. Cardinality({}) = 0 /\ 0 * m = 0
          BY FS_EmptySet
        <5> QED BY <4>1, <5>1
      <4> QED BY <4>2
    <3>3. ASSUME NEW j \in Nat, j \in T PROVE j + 1 \in T
      <4> SUFFICES ASSUME j + 1 <= n - 1 PROVE Cardinality(C(j + 1)) = (j + 1) * m
        <5> HIDE DEF C
        <5> QED OBVIOUS
      <4> DEFINE P == {k \in S : g[k] = j + 1}
      <4>1. Cardinality(C(j)) = j * m
        BY <1>2, <3>3
      <4>2. C(j + 1) = C(j) \cup P /\ C(j) \cap P = {}
        BY <1>3
      <4>3. Cardinality(P) = m
        BY <1>2, <1>3
      <4>4. IsFiniteSet(P)
        BY FS_Subset
      <4> HIDE DEF P
      <4>5. Cardinality(C(j + 1)) = Cardinality(C(j)) + Cardinality(P)
        BY <3>1, <4>2, <4>4, UnionFinite
      <4> HIDE DEF C, T
      <4>6. (j + 1) * m = j * m + m /\ j * m \in Nat
        BY Distribute
      <4> QED BY <4>1, <4>3, <4>5, <4>6
    <3>4. Nat \subseteq T
      <4> HIDE DEF T
      <4> QED BY <3>2, <3>3, NatSetInduction
    <3> DEFINE l == n - 1
               P == {k \in S : g[k] = n}
    <3>5. l \in Nat /\ n = l + 1
      BY <1>2, <2>2
    <3>6. Cardinality(C(l)) = l * m
      BY <3>4, <3>5
    <3>7. S = C(l) \cup P /\ C(l) \cap P = {}
      BY <1>3, <3>5
    <3>8. IsFiniteSet(P) /\ Cardinality(P) \in Nat
      <4>1. IsFiniteSet(P)
        BY FS_Subset
      <4> QED BY <4>1, FS_CardinalityType
    <3> HIDE DEF P, l
    <3>9. c = Cardinality(C(l)) + Cardinality(P)
      BY <3>1, <3>7, <3>8, UnionFinite DEF c
    <3> HIDE DEF C
    <3>10. (l + 1) * m = l * m + m /\ l * m \in Nat
      BY <3>5, Distribute
    <3>11. Cardinality(P) <= m
      BY <1>1, <1>2, <3>5, <3>6, <3>8, <3>9, <3>10
    <3> QED BY <1>4, <2>2, <3>11 DEF P
  <2> QED BY <1>2, <2>1, <2>2
<1> QED BY <1>4, <1>5, <1>6, <1>7, <1>8 DEF Splits

(* How many samples are older.                                             *)
LEMMA RankIs ==
  ASSUME NEW S \in SUBSET Nat, IsFiniteSet(S), NEW k \in S
  PROVE  /\ Cardinality({h \in S : h < k}) \in Nat
         /\ Cardinality({h \in S : h < k}) < Cardinality(S)
         /\ \A l \in S : k # l => Cardinality({h \in S : h < k}) # Cardinality({h \in S : h < l})
<1> DEFINE R(x) == {h \in S : h < x}
<1>1. \A x : IsFiniteSet(R(x)) /\ R(x) \subseteq S
  BY FS_Subset
<1>2. \A x : Cardinality(R(x)) \in Nat
  BY <1>1, FS_CardinalityType
<1>3. ASSUME NEW x \in S, NEW y \in S, x < y PROVE Cardinality(R(x)) < Cardinality(R(y))
  <2>1. R(x) \cup {x} \subseteq R(y) /\ x \notin R(x)
    <3>1. \A h \in S : h \in Nat
      OBVIOUS
    <3>2. \A h \in S : h < x => h < y
      BY <1>3, <3>1
    <3>3. ~(x < x) /\ x \in R(y)
      BY <1>3, <3>1
    <3>4. x \notin R(x)
      BY <3>3
    <3>5. R(x) \subseteq R(y)
      BY <3>2
    <3> HIDE DEF R
    <3> QED BY <3>3, <3>4, <3>5
  <2> HIDE DEF R
  <2>2. Cardinality(R(x) \cup {x}) = Cardinality(R(x)) + 1
    BY <1>1, <2>1, FS_AddElement
  <2>3. Cardinality(R(x) \cup {x}) <= Cardinality(R(y))
    BY <1>1, <2>1, FS_Subset
  <2> QED BY <1>2, <2>2, <2>3
<1>4. Cardinality(R(k)) < Cardinality(S)
  <2>1. R(k) \cup {k} \subseteq S /\ k \notin R(k)
    OBVIOUS
  <2>2. Cardinality(S) \in Nat
    BY FS_CardinalityType
  <2> HIDE DEF R
  <2>3. Cardinality(R(k) \cup {k}) = Cardinality(R(k)) + 1
    BY <1>1, <2>1, FS_AddElement
  <2>4. Cardinality(R(k) \cup {k}) <= Cardinality(S)
    BY <2>1, FS_Subset
  <2> QED BY <1>2, <2>2, <2>3, <2>4
<1>5. ASSUME NEW l \in S, k # l PROVE Cardinality(R(k)) # Cardinality(R(l))
  <2>1. k < l \/ l < k
    BY <1>5
  <2>2. Cardinality(R(k)) \in Nat /\ Cardinality(R(l)) \in Nat
    BY <1>2
  <2>3. Cardinality(R(k)) < Cardinality(R(l)) \/ Cardinality(R(l)) < Cardinality(R(k))
    BY <1>3, <2>1
  <2> HIDE DEF R
  <2> QED BY <2>2, <2>3
<1> QED BY <1>2, <1>4, <1>5

LEMMA ByAgeSplits ==
  ASSUME NEW S \in SUBSET Nat, IsFiniteSet(S), NEW m \in Nat \ {0}
  PROVE  Splits(ChunksByAge(S, m), S, m) /\ Together(ChunksByAge(S, m)) = S
<1> DEFINE c == Cardinality(S)
           n == (c + m - 1) \div m
           ps == ChunksByAge(S, m)
           rank(k) == Cardinality({h \in S : h < k})
<1>1. c \in Nat
  BY FS_CardinalityType
<1>2. n \in Nat /\ c <= n * m
  BY <1>1, Ceiling
<1>3. \A k \in S : rank(k) \in Nat /\ rank(k) < c /\ \A l \in S : k # l => rank(k) # rank(l)
  BY RankIs
<1>4. ps = [i \in 1 .. n |-> {k \in S : rank(k) < i * m} \ {k \in S : rank(k) < (i - 1) * m}]
  BY DEF ChunksByAge, Oldest
<1> HIDE DEF n, c, ps, rank
<1>5. DOMAIN ps = 1 .. n
      /\ \A i \in 1 .. n : ps[i] = {k \in S : rank(k) < i * m} \ {k \in S : rank(k) < (i - 1) * m}
  BY <1>4
<1>6. ps \in Seq(SUBSET S)
  BY <1>2, <1>4
<1>7. \A i \in 1 .. n : i * m \in Nat /\ (i - 1) * m \in Nat /\ i * m = (i - 1) * m + m
  <2> SUFFICES ASSUME NEW i \in 1 .. n
               PROVE  i * m \in Nat /\ (i - 1) * m \in Nat /\ i * m = (i - 1) * m + m
    OBVIOUS
  <2> DEFINE l == i - 1
  <2>1. l \in Nat /\ i = l + 1
    BY <1>2
  <2> HIDE DEF l
  <2>2. (l + 1) * m = l * m + 1 * m /\ l * m \in Nat
    BY <2>1, Distribute
  <2>3. i * m = l * m + m /\ l * m \in Nat
    BY <2>1, <2>2
  <2> QED BY <2>3 DEF l
<1>8. ASSUME NEW i \in 1 .. n, NEW j \in 1 .. n, i < j PROVE ps[i] \cap ps[j] = {}
  <2>1. i * m <= (j - 1) * m
    BY <1>8, SharesApart
  <2>2. i * m \in Nat /\ (j - 1) * m \in Nat
    BY <1>7
  <2>3. \A k \in S : rank(k) < i * m => rank(k) < (j - 1) * m
    BY <1>3, <2>1, <2>2
  <2> QED BY <1>5, <2>3
<1>9. \A i, j \in DOMAIN ps : i # j => ps[i] \cap ps[j] = {}
  <2> SUFFICES ASSUME NEW i \in 1 .. n, NEW j \in 1 .. n, i # j PROVE ps[i] \cap ps[j] = {}
    BY <1>5
  <2>1. i < j \/ j < i
    BY <1>2
  <2> QED BY <1>8, <2>1
<1>10. ASSUME NEW i \in 1 .. n PROVE Cardinality(ps[i]) <= m
  <2> DEFINE a == (i - 1) * m
             T == a .. a + m - 1
             P == ps[i]
             f == [k \in P |-> rank(k)]
  <2>1. a \in Nat /\ i * m = a + m
    BY <1>7
  <2>2. P = {k \in S : rank(k) < a + m} \ {k \in S : rank(k) < a}
    BY <1>5, <2>1
  <2> HIDE DEF P, a
  <2>3. \A k \in P : k \in S /\ rank(k) \in T
    BY <1>3, <2>1, <2>2
  <2>4. f \in Injection(P, T)
    <3>1. f \in [P -> T]
      BY <2>3
    <3>2. \A k, l \in P : f[k] = f[l] => k = l
      BY <1>3, <2>3
    <3> HIDE DEF f
    <3> QED BY <3>1, <3>2 DEF Injection, IsInjective
  <2>5. IsFiniteSet(T) /\ Cardinality(T) = m
    <3>1. a \in Int /\ a + m - 1 \in Int
      BY <2>1
    <3>2. IsFiniteSet(T) /\ Cardinality(T) = IF a > a + m - 1 THEN 0 ELSE a + m - 1 - a + 1
      BY <3>1, FS_Interval
    <3> QED BY <2>1, <3>2
  <2> HIDE DEF T, f
  <2>6. Cardinality(P) <= Cardinality(T)
    BY <2>4, <2>5, FS_Injection
  <2> QED BY <2>5, <2>6 DEF P
<1>11. Together(ps) = S
  <2>1. Together(ps) \subseteq S
    BY <1>5 DEF Together
  <2>2. ASSUME NEW k \in S PROVE k \in Together(ps)
    <3> DEFINE U == {i \in Nat : rank(k) < i * m}
    <3>1. rank(k) \in Nat /\ rank(k) < n * m /\ n * m \in Nat
      BY <1>1, <1>2, <1>3
    <3>2. n \in U
      BY <1>2, <3>1
    <3>3. PICK i \in U : \A j \in U : i <= j
      <4>1. U \subseteq Nat /\ U # {}
        BY <3>2
      <4> HIDE DEF U
      <4> QED BY <4>1, LeastNatural
    <3>4. i \in Nat /\ rank(k) < i * m /\ i <= n
      BY <3>2, <3>3
    <3>5. i # 0
      BY <3>1, <3>4
    <3>6. i \in 1 .. n
      BY <1>2, <3>4, <3>5
    <3>7. i - 1 \notin U
      BY <3>3, <3>4, <3>5
    <3>8. ~(rank(k) < (i - 1) * m)
      BY <3>6, <3>7
    <3>9. k \in ps[i]
      BY <1>5, <3>4, <3>6, <3>8
    <3> QED BY <1>5, <3>6, <3>9 DEF Together
  <2> QED BY <2>1, <2>2
<1> QED BY <1>5, <1>6, <1>9, <1>10, <1>11 DEF Splits, ps

(* Chunks of which a limit leaves a part.                                  *)
LEMMA LimitedSplits ==
  ASSUME NEW S, IsFiniteSet(S), NEW m \in Nat \ {0}, NEW lim, NEW ps \in LimitedChunks(S, lim, m)
  PROVE  Splits(ps, S, m) /\ (lim = 0 => Together(ps) = S)
<1>1. PICK chunks \in Chunkings(S, m) :
        /\ ps \in [DOMAIN chunks -> SUBSET S]
        /\ \A i \in DOMAIN ps :
             /\ ps[i] \subseteq chunks[i]
             /\ Cardinality(ps[i]) = IF lim = 0 THEN Cardinality(chunks[i])
                                     ELSE Minimum(lim, Cardinality(chunks[i]))
  BY DEF LimitedChunks
<1>2. Splits(chunks, S, m) /\ Together(chunks) = S
  BY ChunkingsSplit
<1>3. /\ chunks \in Seq(SUBSET S) /\ \A i, j \in DOMAIN chunks : i # j => chunks[i] \cap chunks[j] = {}
      /\ \A i \in DOMAIN chunks : Cardinality(chunks[i]) <= m
  BY <1>2 DEF Splits
<1>4. DOMAIN ps = DOMAIN chunks /\ ps \in Seq(SUBSET S)
  BY <1>1, <1>3
<1>5. ASSUME NEW i \in DOMAIN ps
      PROVE  /\ IsFiniteSet(chunks[i]) /\ Cardinality(ps[i]) <= Cardinality(chunks[i])
             /\ Cardinality(ps[i]) \in Nat /\ Cardinality(chunks[i]) \in Nat
             /\ Cardinality(ps[i]) = Cardinality(chunks[i]) => ps[i] = chunks[i]
  <2>1. chunks[i] \subseteq S
    BY <1>3, <1>4
  <2>2. IsFiniteSet(chunks[i])
    BY <2>1, FS_Subset
  <2>3. IsFiniteSet(ps[i]) /\ Cardinality(ps[i]) <= Cardinality(chunks[i])
        /\ (Cardinality(ps[i]) = Cardinality(chunks[i]) => ps[i] = chunks[i])
    BY <1>1, <2>2, FS_Subset
  <2> QED BY <2>2, <2>3, FS_CardinalityType
<1>6. \A i \in DOMAIN ps : Cardinality(ps[i]) <= m
  <2> SUFFICES ASSUME NEW i \in DOMAIN ps PROVE Cardinality(ps[i]) <= m
    OBVIOUS
  <2>1. Cardinality(chunks[i]) <= m
    BY <1>3, <1>4
  <2>2. /\ Cardinality(ps[i]) <= Cardinality(chunks[i])
        /\ Cardinality(ps[i]) \in Nat /\ Cardinality(chunks[i]) \in Nat
    BY <1>5
  <2> QED BY <2>1, <2>2
<1>7. \A i, j \in DOMAIN ps : i # j => ps[i] \cap ps[j] = {}
  BY <1>1, <1>3, <1>4
<1>8. ASSUME lim = 0 PROVE Together(ps) = S
  <2>1. \A i \in DOMAIN ps : ps[i] = chunks[i]
    BY <1>1, <1>5, <1>8
  <2> QED BY <1>2, <1>4, <2>1 DEF Together
<1> QED BY <1>4, <1>6, <1>7, <1>8 DEF Splits

(* The windows of unused and of used samples, joined: each has room for a  *)
(* sample, so together they fit only if there is room for two.             *)
LEMMA FreshnessSplits ==
  ASSUME NEW U, IsFiniteSet(U), NEW V, IsFiniteSet(V), U \cap V = {},
         NEW m \in Nat \ {0}, NEW ratio, NEW lim, NEW ps \in FreshnessDraws(U, V, ratio, lim, m)
  PROVE  /\ Splits(ps, U \cup V, Larger(m, 2))
         /\ \E A \in SUBSET U, B \in SUBSET V :
              /\ Together(ps) = A \cup B
              /\ Cardinality(A) = NumSamples(Cardinality(U), Cardinality(V), ratio, lim)[1]
              /\ Cardinality(B) = NumSamples(Cardinality(U), Cardinality(V), ratio, lim)[2]
<1> DEFINE n == NumSamples(Cardinality(U), Cardinality(V), ratio, lim)
           half == Larger(m \div 2, 1)
           room == Larger(m, 2)
<1>1. half \in Nat \ {0} /\ half + half <= room /\ room \in Nat
  BY DEF Larger
<1>2. \E A \in kSubset(n[1], U), B \in kSubset(n[2], V) :
        \E fresh \in Chunkings(A, half), old \in Chunkings(B, half) : ps = JoinWindows(fresh, old)
  BY DEF FreshnessDraws
<1> HIDE DEF n, half, room
<1>15. PICK A \in kSubset(n[1], U), B \in kSubset(n[2], V) :
        \E fresh \in Chunkings(A, half), old \in Chunkings(B, half) : ps = JoinWindows(fresh, old)
  BY <1>2
<1>16. PICK fresh \in Chunkings(A, half), old \in Chunkings(B, half) : ps = JoinWindows(fresh, old)
  BY <1>15
<1>3. A \in SUBSET U /\ Cardinality(A) = n[1] /\ B \in SUBSET V /\ Cardinality(B) = n[2]
  BY DEF kSubset
<1>4. IsFiniteSet(A) /\ IsFiniteSet(B)
  BY <1>3, FS_Subset
<1>5. Splits(fresh, A, half) /\ Together(fresh) = A /\ Splits(old, B, half) /\ Together(old) = B
  BY <1>1, <1>4, ChunkingsSplit
<1>6. /\ fresh \in Seq(SUBSET A) /\ old \in Seq(SUBSET B)
      /\ \A i, j \in DOMAIN fresh : i # j => fresh[i] \cap fresh[j] = {}
      /\ \A i, j \in DOMAIN old : i # j => old[i] \cap old[j] = {}
      /\ \A i \in DOMAIN fresh : Cardinality(fresh[i]) <= half
      /\ \A i \in DOMAIN old : Cardinality(old[i]) <= half
  BY <1>5 DEF Splits
<1> DEFINE k == Larger(Len(fresh), Len(old))
           F(i) == IF i <= Len(fresh) THEN fresh[i] ELSE {}
           O(i) == IF i <= Len(old) THEN old[i] ELSE {}
<1>7. /\ k \in Nat /\ DOMAIN fresh = 1 .. Len(fresh) /\ DOMAIN old = 1 .. Len(old)
      /\ Len(fresh) \in Nat /\ Len(old) \in Nat /\ Len(fresh) <= k /\ Len(old) <= k
  BY <1>6 DEF Larger
<1>8. ps = [i \in 1 .. k |-> F(i) \cup O(i)]
  BY <1>16 DEF JoinWindows
<1>9. ASSUME NEW i \in 1 .. k
      PROVE  /\ F(i) \subseteq A /\ O(i) \subseteq B
             /\ \A j \in 1 .. k : i # j => F(i) \cap F(j) = {} /\ O(i) \cap O(j) = {}
             /\ Cardinality(F(i)) <= half /\ Cardinality(O(i)) <= half
  <2>1. i <= Len(fresh) => i \in DOMAIN fresh
    BY <1>7
  <2>2. i <= Len(old) => i \in DOMAIN old
    BY <1>7
  <2>3. F(i) \subseteq A /\ O(i) \subseteq B
    BY <1>6, <2>1, <2>2
  <2>4. \A j \in 1 .. k : i # j => F(i) \cap F(j) = {} /\ O(i) \cap O(j) = {}
    <3> SUFFICES ASSUME NEW j \in 1 .. k, i # j PROVE F(i) \cap F(j) = {} /\ O(i) \cap O(j) = {}
      OBVIOUS
    <3>1. (j <= Len(fresh) => j \in DOMAIN fresh) /\ (j <= Len(old) => j \in DOMAIN old)
      BY <1>7
    <3> QED BY <1>6, <2>1, <2>2, <3>1
  <2>5. Cardinality({}) <= half
    BY <1>1, FS_EmptySet
  <2>6. Cardinality(F(i)) <= half /\ Cardinality(O(i)) <= half
    BY <1>6, <2>1, <2>2, <2>5
  <2> QED BY <2>3, <2>4, <2>6
<1>10. Together(ps) = A \cup B
  <2>1. Together(ps) = UNION {F(i) \cup O(i) : i \in 1 .. k}
    <3>1. DOMAIN ps = 1 .. k /\ \A i \in 1 .. k : ps[i] = F(i) \cup O(i)
      BY <1>8
    <3> HIDE DEF F, O
    <3> QED BY <3>1 DEF Together
  <2>2. \A x \in A : \E i \in 1 .. k : x \in F(i)
    <3> SUFFICES ASSUME NEW x \in A PROVE \E i \in 1 .. k : x \in F(i)
      OBVIOUS
    <3>1. PICK i \in DOMAIN fresh : x \in fresh[i]
      BY <1>5 DEF Together
    <3>2. i \in 1 .. k /\ i <= Len(fresh)
      BY <1>7
    <3> QED BY <3>1, <3>2
  <2>3. \A x \in B : \E i \in 1 .. k : x \in O(i)
    <3> SUFFICES ASSUME NEW x \in B PROVE \E i \in 1 .. k : x \in O(i)
      OBVIOUS
    <3>1. PICK i \in DOMAIN old : x \in old[i]
      BY <1>5 DEF Together
    <3>2. i \in 1 .. k /\ i <= Len(old)
      BY <1>7
    <3> QED BY <3>1, <3>2
  <2>4. \A i \in 1 .. k : F(i) \subseteq A /\ O(i) \subseteq B
    BY <1>9
  <2> HIDE DEF F, O, k
  <2> QED BY <2>1, <2>2, <2>3, <2>4
<1> HIDE DEF F, O, k
<1>11. ps \in Seq(SUBSET (U \cup V)) /\ DOMAIN ps = 1 .. k
  <2>1. \A i \in 1 .. k : F(i) \cup O(i) \in SUBSET (U \cup V)
    BY <1>3, <1>9
  <2> QED BY <1>7, <1>8, <2>1
<1>12. \A i, j \in DOMAIN ps : i # j => ps[i] \cap ps[j] = {}
  <2> SUFFICES ASSUME NEW i \in 1 .. k, NEW j \in 1 .. k, i # j PROVE ps[i] \cap ps[j] = {}
    BY <1>11
  <2>1. /\ F(i) \subseteq U /\ O(i) \subseteq V /\ F(j) \subseteq U /\ O(j) \subseteq V
        /\ F(i) \cap F(j) = {} /\ O(i) \cap O(j) = {}
    BY <1>3, <1>9
  <2> QED BY <1>8, <2>1
<1>13. \A i \in DOMAIN ps : Cardinality(ps[i]) <= room
  <2> SUFFICES ASSUME NEW i \in 1 .. k PROVE Cardinality(ps[i]) <= room
    BY <1>11
  <2>1. F(i) \subseteq A /\ O(i) \subseteq B /\ Cardinality(F(i)) <= half /\ Cardinality(O(i)) <= half
    BY <1>9
  <2>2. IsFiniteSet(F(i)) /\ IsFiniteSet(O(i))
    BY <1>4, <2>1, FS_Subset
  <2>3. /\ Cardinality(F(i)) \in Nat /\ Cardinality(O(i)) \in Nat
        /\ Cardinality(F(i) \cup O(i)) <= Cardinality(F(i)) + Cardinality(O(i))
    BY <2>2, UnionFinite
  <2>4. Cardinality(F(i) \cup O(i)) \in Nat
    BY <2>2, UnionFinite, FS_CardinalityType
  <2>5. Cardinality(F(i) \cup O(i)) <= room
    BY <1>1, <2>1, <2>3, <2>4
  <2> QED BY <1>8, <2>5
<1>14. Splits(ps, U \cup V, room)
  BY <1>11, <1>12, <1>13 DEF Splits
<1> QED BY <1>3, <1>10, <1>14 DEF n, room

(* What fits into the parts.                                               *)
LEMMA TogetherBound ==
  ASSUME NEW S, IsFiniteSet(S), NEW m \in Nat, NEW ps, Splits(ps, S, m)
  PROVE  /\ Together(ps) \subseteq S /\ IsFiniteSet(Together(ps)) /\ Cardinality(Together(ps)) \in Nat
         /\ Len(ps) \in Nat /\ Cardinality(Together(ps)) <= Len(ps) * m
<1> DEFINE C(i) == UNION {ps[j] : j \in 1 .. i}
           T == {i \in Nat : i <= Len(ps) => Cardinality(C(i)) <= i * m}
<1>1. /\ ps \in Seq(SUBSET S) /\ DOMAIN ps = 1 .. Len(ps) /\ Len(ps) \in Nat
      /\ \A i \in 1 .. Len(ps) : ps[i] \subseteq S /\ Cardinality(ps[i]) <= m
  BY DEF Splits
<1>2. ASSUME NEW i \in Nat, i <= Len(ps)
      PROVE  C(i) \subseteq S /\ IsFiniteSet(C(i)) /\ Cardinality(C(i)) \in Nat
  <2>1. C(i) \subseteq S
    <3>1. \A j \in 1 .. i : j \in 1 .. Len(ps)
      BY <1>1, <1>2
    <3>2. \A j \in 1 .. i : ps[j] \subseteq S
      BY <1>1, <3>1
    <3> QED BY <3>2
  <2>2. IsFiniteSet(C(i))
    BY <2>1, FS_Subset
  <2> QED BY <2>1, <2>2, FS_CardinalityType
<1>3. 0 \in T
  <2>1. C(0) = {}
    OBVIOUS
  <2>2. Cardinality({}) = 0 /\ 0 * m = 0
    BY FS_EmptySet
  <2>3. Cardinality(C(0)) <= 0 * m
    BY <2>1, <2>2
  <2> QED BY <2>3
<1>4. ASSUME NEW i \in Nat, i \in T PROVE i + 1 \in T
  <2> SUFFICES ASSUME i + 1 <= Len(ps) PROVE Cardinality(C(i + 1)) <= (i + 1) * m
    <3> HIDE DEF C
    <3> QED OBVIOUS
  <2>1. Cardinality(C(i)) <= i * m
    BY <1>1, <1>4
  <2>2. C(i + 1) = C(i) \cup ps[i + 1]
    OBVIOUS
  <2>3. i <= Len(ps) /\ i + 1 \in 1 .. Len(ps) /\ i + 1 \in Nat
    BY <1>1
  <2> HIDE DEF C, T
  <2>4. IsFiniteSet(C(i)) /\ Cardinality(C(i)) \in Nat /\ Cardinality(C(i + 1)) \in Nat
    BY <1>2, <2>3
  <2>5. IsFiniteSet(ps[i + 1]) /\ Cardinality(ps[i + 1]) <= m
    BY <1>1, <2>3, FS_Subset
  <2>6. Cardinality(C(i + 1)) <= Cardinality(C(i)) + Cardinality(ps[i + 1]) /\ Cardinality(ps[i + 1]) \in Nat
    BY <2>2, <2>4, <2>5, UnionFinite
  <2>7. (i + 1) * m = i * m + m /\ i * m \in Nat
    BY Distribute
  <2> QED BY <2>1, <2>4, <2>5, <2>6, <2>7
<1>5. Nat \subseteq T
  <2> HIDE DEF T
  <2> QED BY <1>3, <1>4, NatSetInduction
<1>6. Cardinality(C(Len(ps))) <= Len(ps) * m
  BY <1>1, <1>5
<1>7. Together(ps) = C(Len(ps))
  BY <1>1 DEF Together
<1>8. C(Len(ps)) \subseteq S /\ IsFiniteSet(C(Len(ps))) /\ Cardinality(C(Len(ps))) \in Nat
  <2>1. Len(ps) \in Nat /\ Len(ps) <= Len(ps)
    BY <1>1
  <2> HIDE DEF C
  <2> QED BY <1>2, <2>1
<1> HIDE DEF C
<1> QED BY <1>1, <1>6, <1>7, <1>8
LEMMA SplitsMore ==
  ASSUME NEW S, IsFiniteSet(S), NEW T, S \subseteq T, NEW m \in Nat, NEW k \in Nat, m <= k,
         NEW ps, Splits(ps, S, m)
  PROVE  Splits(ps, T, k)
<1>1. /\ ps \in Seq(SUBSET S) /\ \A i \in DOMAIN ps : ps[i] \subseteq S /\ Cardinality(ps[i]) <= m
      /\ \A i, j \in DOMAIN ps : i # j => ps[i] \cap ps[j] = {}
  BY DEF Splits
<1>2. ps \in Seq(SUBSET T)
  BY <1>1
<1>3. \A i \in DOMAIN ps : Cardinality(ps[i]) <= k
  <2> SUFFICES ASSUME NEW i \in DOMAIN ps PROVE Cardinality(ps[i]) <= k
    OBVIOUS
  <2>1. IsFiniteSet(ps[i])
    BY <1>1, FS_Subset
  <2>2. Cardinality(ps[i]) \in Nat /\ Cardinality(ps[i]) <= m
    BY <1>1, <2>1, FS_CardinalityType
  <2> QED BY <2>2
<1> QED BY <1>1, <1>2, <1>3 DEF Splits
-----------------------------------------------------------------------------
(* What the presampling of a trigger draws.                                *)
LEMMA OldestAmong ==
  ASSUME NEW n, NEW S
  PROVE  Oldest(n, S) \subseteq S
BY DEF Oldest

LEMMA BalancedAmong ==
  ASSUME NEW S, NEW column, NEW target, NEW force, NEW T \in BalancedDraws(S, column, target, force)
  PROVE  T \subseteq S
<1> DEFINE sizes == ClassSizes(S, column)
           query == Query(fair_share(target, sizes), sizes, target, force)
           Class(c) == {k \in S : column[k] = c}
           Selected == {U \in SUBSET S : \A c \in {column[k] : k \in S} :
                          Cardinality(U \cap Class(c)) = Minimum(query[1], Cardinality(Class(c)))}
<1>1. T \in IF query[2] THEN {Oldest(target, U) : U \in Selected} ELSE Selected
  BY DEF BalancedDraws
<1>2. \A U \in Selected : U \subseteq S
  OBVIOUS
<1> HIDE DEF query, Selected
<1>3. T \in Selected \/ \E U \in Selected : T = Oldest(target, U)
  BY <1>1
<1> QED BY <1>2, <1>3, OldestAmong

(* get_fair_share: its recursion has an end, and giving every class the    *)
(* share, or all it has of fewer, takes no more than the capacity.         *)
Rest(requests, left, equal) ==
  left \ {CHOOSE d \in left : requests[d] = requests[c] : c \in {b \in left : requests[b] <= equal}}

LEMMA RestIs ==
  ASSUME NEW requests, NEW left, NEW equal \in Nat, \A c \in left : requests[c] \in Nat,
         {b \in left : requests[b] <= equal} # {}, {b \in left : requests[b] <= equal} # left
  PROVE  /\ Rest(requests, left, equal) \subseteq left
         /\ Rest(requests, left, equal) \notin {{}, left}
         /\ left \ Rest(requests, left, equal) \subseteq {b \in left : requests[b] <= equal}
<1> DEFINE below == {b \in left : requests[b] <= equal}
           index(c) == CHOOSE d \in left : requests[d] = requests[c]
           gone == {index(c) : c \in below}
<1>1. \A c \in below : index(c) \in left /\ requests[index(c)] = requests[c]
  OBVIOUS
<1> HIDE DEF index
<1>2. \A c \in below : index(c) \in below
  BY <1>1
<1>3. gone \subseteq below /\ gone # {}
  BY <1>2
<1>4. Rest(requests, left, equal) = left \ gone
  BY DEF Rest, index
<1>5. below \subseteq left /\ below # left
  OBVIOUS
<1> HIDE DEF gone, below
<1> QED BY <1>3, <1>4, <1>5 DEF below

FairValue(requests, args, g) ==
  LET equal == args[1] \div Cardinality(args[2])
      below == {b \in args[2] : requests[b] <= equal}
  IN IF below # {} /\ below # args[2]
       THEN g[<<args[1] - SumFunctionOnSet(requests, below), Rest(requests, args[2], equal)>>]
       ELSE equal

LEMMA FairShareIs ==
  ASSUME NEW total, NEW requests
  PROVE  fair_share(total, requests) =
           (CHOOSE g : g = [args \in Nat \X ((SUBSET DOMAIN requests) \ {{}}) |-> FairValue(requests, args, g)])
             [<<total, DOMAIN requests>>]
BY DEF fair_share, FairValue, Rest

(* A round of sharing: what is left to share is less for fewer requests.   *)
GoodRound(C, requests, capacity, left, equal, below) ==
  /\ equal \in Nat /\ Cardinality(left) \in Nat /\ Cardinality(left) * equal <= capacity
  /\ IsFiniteSet(left) /\ IsFiniteSet(below) /\ below \subseteq left
  /\ SumFunctionOnSet(requests, below) \in Nat
  /\ capacity - SumFunctionOnSet(requests, below) \in Nat
  /\ below # {} /\ below # left =>
       /\ Rest(requests, left, equal) \in (SUBSET C) \ {{}}
       /\ Rest(requests, left, equal) \subseteq left
       /\ left \ Rest(requests, left, equal) \subseteq below
       /\ Cardinality(Rest(requests, left, equal)) < Cardinality(left)

LEMMA FairRound ==
  ASSUME NEW C, IsFiniteSet(C), NEW requests \in [C -> Nat], NEW capacity \in Nat,
         NEW left \in (SUBSET C) \ {{}}, NEW equal, equal = capacity \div Cardinality(left),
         NEW below, below = {b \in left : requests[b] <= equal}
  PROVE  GoodRound(C, requests, capacity, left, equal, below)
<1> DEFINE n == Cardinality(left)
<1>1. IsFiniteSet(left) /\ IsFiniteSet(below) /\ below \subseteq left
  BY FS_Subset
<1>2. n \in Nat \ {0} /\ Cardinality(below) \in Nat /\ Cardinality(below) <= n
  <2>1. Cardinality(left) \in Nat /\ Cardinality(below) \in Nat
    BY <1>1, FS_CardinalityType
  <2>2. Cardinality(left) # 0
    BY <1>1, FS_EmptySet
  <2>3. Cardinality(below) <= Cardinality(left)
    BY <1>1, FS_Subset
  <2> QED BY <2>1, <2>2, <2>3
<1> HIDE DEF n
<1>3. equal \in Nat /\ n * equal <= capacity
  <2>1. /\ capacity \div n \in Nat /\ capacity % n \in 0 .. n - 1 /\ (capacity \div n) * n \in Nat
        /\ capacity = (capacity \div n) * n + (capacity % n)
    BY <1>2, DivMod
  <2>2. equal = capacity \div n
    BY DEF n
  <2> DEFINE r == capacity % n
             e == capacity \div n
  <2>3. e \in Nat /\ r \in Nat /\ e * n \in Nat /\ capacity = e * n + r
    BY <1>2, <2>1
  <2> HIDE DEF r, e
  <2>4. n * e = e * n
    BY <1>2, <2>3
  <2>5. n * e <= capacity
    BY <2>3, <2>4
  <2> QED BY <2>2, <2>3, <2>5 DEF e
<1>4. \A x \in below : requests[x] \in Nat /\ requests[x] <= equal
  BY <1>1
<1>5. SumFunctionOnSet(requests, below) \in Nat
  BY <1>1, <1>4, SumOf
<1>6. SumFunctionOnSet(requests, below) <= Cardinality(below) * equal
  BY <1>1, <1>3, <1>4, SumBounded
<1>7. Cardinality(below) * equal <= n * equal
  <2> DEFINE b == Cardinality(below)
             m == n - b
  <2>1. m \in Nat /\ b \in Nat /\ n = b + m
    BY <1>2
  <2> HIDE DEF b, m
  <2>2. (b + m) * equal = b * equal + m * equal /\ b * equal \in Nat /\ m * equal \in Nat
    BY <1>3, <2>1, Distribute
  <2>3. b * equal <= n * equal
    BY <2>1, <2>2
  <2> QED BY <2>3 DEF b
<1>8. capacity - SumFunctionOnSet(requests, below) \in Nat
  <2> DEFINE s == SumFunctionOnSet(requests, below)
             x == Cardinality(below) * equal
             y == n * equal
  <2>1. s \in Nat /\ s <= x /\ x <= y /\ y <= capacity /\ x \in Nat /\ y \in Nat
    BY <1>2, <1>3, <1>5, <1>6, <1>7
  <2> HIDE DEF s, x, y
  <2> QED BY <2>1 DEF s
<1>9. ASSUME below # {}, below # left
      PROVE  /\ Rest(requests, left, equal) \in (SUBSET C) \ {{}}
             /\ Rest(requests, left, equal) \subseteq left
             /\ left \ Rest(requests, left, equal) \subseteq below
             /\ Cardinality(Rest(requests, left, equal)) < Cardinality(left)
  <2>1. \A c \in left : requests[c] \in Nat
    OBVIOUS
  <2>2. /\ Rest(requests, left, equal) \subseteq left
        /\ Rest(requests, left, equal) \notin {{}, left}
        /\ left \ Rest(requests, left, equal) \subseteq below
    BY <1>3, <1>9, <2>1, RestIs
  <2>3. Cardinality(Rest(requests, left, equal)) < Cardinality(left)
    <3> DEFINE R == Rest(requests, left, equal)
    <3>1. R \subseteq left /\ R # left
      BY <2>2
    <3> HIDE DEF R
    <3>2. /\ Cardinality(R) \in Nat /\ Cardinality(R) <= Cardinality(left)
          /\ Cardinality(R) # Cardinality(left)
      BY <1>1, <3>1, FS_Subset, FS_CardinalityType
    <3> QED BY <1>2, <3>2 DEF R, n
  <2> QED BY <2>2, <2>3
<1> QED BY <1>1, <1>2, <1>3, <1>5, <1>8, <1>9 DEF n, GoodRound

(* The recursion of get_fair_share has a solution, so the function that is *)
(* chosen is one.                                                          *)
FairSharing(requests, g) ==
  LET D == Nat \X ((SUBSET DOMAIN requests) \ {{}})
  IN g = [args \in D |-> FairValue(requests, args, g)]

LEMMA FairSharingExists ==
  ASSUME NEW C, IsFiniteSet(C), NEW requests \in [C -> Nat]
  PROVE  \E g \in [Nat \X ((SUBSET C) \ {{}}) -> Nat] : FairSharing(requests, g)
<1> DEFINE D == Nat \X ((SUBSET C) \ {{}})
           size == [args \in D |-> Cardinality(args[2])]
           step == [ag \in D \X [D -> Nat] |-> FairValue(requests, ag[1], ag[2])]
           Equal(args) == args[1] \div Cardinality(args[2])
           Below(args) == {b \in args[2] : requests[b] <= Equal(args)}
           After(args) == <<args[1] - SumFunctionOnSet(requests, Below(args)),
                           Rest(requests, args[2], Equal(args))>>
<1>1. ASSUME NEW args \in D
      PROVE  /\ Equal(args) \in Nat /\ Cardinality(args[2]) \in Nat
             /\ Below(args) # {} /\ Below(args) # args[2] =>
                  /\ After(args) \in D
                  /\ After(args)[2] = Rest(requests, args[2], Equal(args))
                  /\ Cardinality(After(args)[2]) < Cardinality(args[2])
  <2> DEFINE capacity == args[1]
             left == args[2]
             equal == Equal(args)
             below == Below(args)
  <2>1. capacity \in Nat /\ left \in (SUBSET C) \ {{}}
    OBVIOUS
  <2>2. equal = capacity \div Cardinality(left) /\ below = {b \in left : requests[b] <= equal}
    OBVIOUS
  <2> HIDE DEF equal, below, capacity, left
  <2>3. /\ equal \in Nat /\ Cardinality(left) \in Nat
        /\ capacity - SumFunctionOnSet(requests, below) \in Nat
        /\ below # {} /\ below # left =>
             /\ Rest(requests, left, equal) \in (SUBSET C) \ {{}}
             /\ Cardinality(Rest(requests, left, equal)) < Cardinality(left)
    <3>1. GoodRound(C, requests, capacity, left, equal, below)
      BY <2>1, <2>2, FairRound
    <3> QED BY <3>1 DEF GoodRound
  <2> QED BY <2>3 DEF equal, below, capacity, left
<1>2. \A args \in D : \A g \in [D -> Nat] :
        FairValue(requests, args, g) =
          IF Below(args) # {} /\ Below(args) # args[2] THEN g[After(args)] ELSE Equal(args)
  BY DEF FairValue
<1>3. size \in [D -> Nat] /\ \A args \in D : size[args] = Cardinality(args[2])
  BY <1>1
<1> HIDE DEF After, Below, Equal, size
<1>4. ASSUME NEW args \in D, NEW g \in [D -> Nat]
      PROVE  FairValue(requests, args, g) \in Nat
  BY <1>1, <1>2
<1>5. /\ step \in [D \X [D -> Nat] -> Nat]
      /\ \A args \in D : \A g \in [D -> Nat] : step[<<args, g>>] = FairValue(requests, args, g)
  <2>1. \A ag \in D \X [D -> Nat] : ag[1] \in D /\ ag[2] \in [D -> Nat]
    OBVIOUS
  <2> HIDE DEF D
  <2> QED BY <1>4, <2>1
<1> HIDE DEF step
<1>6. SmallerSuffice(D, Nat, size, step)
  <2> SUFFICES ASSUME NEW x \in D, NEW g \in [D -> Nat], NEW h \in [D -> Nat],
                      \A y \in D : size[y] < size[x] => g[y] = h[y]
               PROVE  step[<<x, g>>] = step[<<x, h>>]
    BY DEF SmallerSuffice
  <2>1. FairValue(requests, x, g) = FairValue(requests, x, h)
    <3> HIDE DEF D
    <3> QED BY <1>1, <1>2, <1>3
  <2> QED BY <1>5, <2>1
<1>7. PICK g \in [D -> Nat] : \A x \in D : g[x] = step[<<x, g>>]
  <2> DEFINE V == Nat
  <2>1. 0 \in V
    OBVIOUS
  <2>2. size \in [D -> Nat] /\ step \in [D \X [D -> V] -> V] /\ SmallerSuffice(D, V, size, step)
    BY <1>3, <1>5, <1>6
  <2> HIDE DEF V, D
  <2>3. \E F : RecursiveOn(F, D, V, step)
    BY <2>1, <2>2, SizeRecursion
  <2> QED BY <2>3 DEF V, RecursiveOn
<1>8. FairSharing(requests, g)
  <2>1. \A x \in D : g[x] = FairValue(requests, x, g)
    BY <1>5, <1>7
  <2>2. g = [x \in D |-> g[x]] /\ DOMAIN requests = C
    BY <1>7
  <2> QED BY <2>1, <2>2 DEF FairSharing
<1> QED BY <1>7, <1>8

(* Every class gets the share, or all it has when it has fewer: together   *)
(* no more than the capacity.                                              *)
Granted(share, requests, S) ==
  SumFunctionOnSet([c \in DOMAIN requests |-> Minimum(share, requests[c])], S)

LEMMA FairSharingWithin ==
  ASSUME NEW C, IsFiniteSet(C), NEW requests \in [C -> Nat], NEW g, FairSharing(requests, g)
  PROVE  \A args \in Nat \X ((SUBSET C) \ {{}}) :
           g[args] \in Nat /\ Granted(g[args], requests, args[2]) <= args[1]
<1> DEFINE D == Nat \X ((SUBSET C) \ {{}})
           Good(args) == g[args] \in Nat /\ Granted(g[args], requests, args[2]) <= args[1]
           Done == {n \in Nat : \A args \in D : Cardinality(args[2]) <= n => Good(args)}
<1>1. \A args \in D : g[args] = FairValue(requests, args, g)
  BY DEF FairSharing
<1>2. ASSUME NEW args \in D,
             \A other \in D : Cardinality(other[2]) < Cardinality(args[2]) => Good(other)
      PROVE  Good(args)
  <2> DEFINE capacity == args[1]
             left == args[2]
             equal == capacity \div Cardinality(left)
             below == {b \in left : requests[b] <= equal}
             rest == Rest(requests, left, equal)
             what_is_left == capacity - SumFunctionOnSet(requests, below)
             Grant(share) == [c \in C |-> Minimum(share, requests[c])]
  <2>1. capacity \in Nat /\ left \in (SUBSET C) \ {{}} /\ DOMAIN requests = C
    OBVIOUS
  <2>2. /\ equal \in Nat /\ Cardinality(left) \in Nat /\ Cardinality(left) * equal <= capacity
        /\ IsFiniteSet(left) /\ IsFiniteSet(below) /\ below \subseteq left
        /\ SumFunctionOnSet(requests, below) \in Nat /\ what_is_left \in Nat
        /\ below # {} /\ below # left =>
             /\ rest \in (SUBSET C) \ {{}} /\ rest \subseteq left /\ left \ rest \subseteq below
             /\ Cardinality(rest) < Cardinality(left)
    <3>1. GoodRound(C, requests, capacity, left, equal, below)
      <4> HIDE DEF left, capacity
      <4> QED BY <2>1, FairRound
    <3> QED BY <3>1 DEF GoodRound
  <2>3. g[args] = IF below # {} /\ below # left THEN g[<<what_is_left, rest>>] ELSE equal
    BY <1>1 DEF FairValue
  <2>4. \A share \in Nat : \A c \in left :
          /\ Grant(share)[c] \in Nat /\ Grant(share)[c] <= share /\ Grant(share)[c] <= requests[c]
          /\ requests[c] \in Nat
    BY <2>1 DEF Minimum
  <2>5. \A share : Granted(share, requests, left) = SumFunctionOnSet(Grant(share), left)
    BY <2>1 DEF Granted
  <2> HIDE DEF Grant
  <2>6. CASE below # {} /\ below # left
    <3> DEFINE share == g[<<what_is_left, rest>>]
    <3>1. /\ <<what_is_left, rest>> \in D /\ <<what_is_left, rest>>[1] = what_is_left
          /\ <<what_is_left, rest>>[2] = rest
      BY <2>2, <2>6
    <3>2. share \in Nat /\ Granted(share, requests, rest) <= what_is_left
      <4>1. Good(<<what_is_left, rest>>)
        <5> HIDE DEF Good, D, rest, what_is_left, left
        <5> QED BY <1>2, <2>2, <2>6, <3>1 DEF left
      <4> QED BY <3>1, <4>1
    <3> HIDE DEF share
    <3>3. Granted(share, requests, rest) = SumFunctionOnSet(Grant(share), rest)
      BY <2>1 DEF Granted, Grant
    <3>4. /\ \A c \in left : Grant(share)[c] \in Nat /\ Grant(share)[c] <= requests[c] /\ requests[c] \in Nat
      BY <2>4, <3>2
    <3>5. SumFunctionOnSet(Grant(share), left)
            = SumFunctionOnSet(Grant(share), rest) + SumFunctionOnSet(Grant(share), left \ rest)
      <4> HIDE DEF rest, left, below
      <4>1. rest \in SUBSET left
        BY <2>2, <2>6
      <4> QED BY <2>2, <3>4, <4>1, SumSplits
    <3>6. SumFunctionOnSet(Grant(share), left \ rest) <= SumFunctionOnSet(requests, below)
      <4> HIDE DEF rest, left, below
      <4>1. /\ IsFiniteSet(below) /\ left \ rest \subseteq below /\ \A c \in below : requests[c] \in Nat
            /\ \A c \in left \ rest : Grant(share)[c] \in Nat /\ Grant(share)[c] <= requests[c]
        BY <2>2, <2>6, <3>4
      <4> QED BY <4>1, SumGrows
    <3>7. SumFunctionOnSet(Grant(share), left \ rest) \in Nat /\ SumFunctionOnSet(Grant(share), rest) \in Nat
      <4>1. IsFiniteSet(left \ rest) /\ IsFiniteSet(rest)
        BY <2>2, <2>6, FS_Subset
      <4>2. /\ \A c \in left \ rest : Grant(share)[c] \in Nat
            /\ \A c \in rest : Grant(share)[c] \in Nat
        BY <2>2, <2>6, <3>4
      <4> HIDE DEF rest, left
      <4> QED BY <4>1, <4>2, SumOf
    <3>8. SumFunctionOnSet(Grant(share), left) <= capacity
      <4> DEFINE a == SumFunctionOnSet(Grant(share), rest)
                 b == SumFunctionOnSet(Grant(share), left \ rest)
                 d == SumFunctionOnSet(requests, below)
      <4>1. /\ a \in Nat /\ b \in Nat /\ d \in Nat /\ b <= d /\ a <= capacity - d
            /\ SumFunctionOnSet(Grant(share), left) = a + b /\ capacity \in Nat
        BY <2>1, <2>2, <3>2, <3>3, <3>5, <3>6, <3>7
      <4> HIDE DEF a, b, d, capacity
      <4> QED BY <4>1
    <3> QED BY <2>3, <2>5, <2>6, <3>2, <3>8 DEF share
  <2>7. CASE ~(below # {} /\ below # left)
    <3>1. SumFunctionOnSet(Grant(equal), left) <= Cardinality(left) * equal
      <4> HIDE DEF left, equal
      <4> QED BY <2>2, <2>4, SumBounded
    <3>2. SumFunctionOnSet(Grant(equal), left) \in Nat
      <4> HIDE DEF left, equal
      <4> QED BY <2>2, <2>4, SumOf
    <3>3. SumFunctionOnSet(Grant(equal), left) <= capacity
      <4> DEFINE a == SumFunctionOnSet(Grant(equal), left)
                 b == Cardinality(left) * equal
      <4>1. a \in Nat /\ b \in Nat /\ a <= b /\ b <= capacity /\ capacity \in Nat
        <5> HIDE DEF left, equal, capacity
        <5> QED BY <2>1, <2>2, <3>1, <3>2
      <4> HIDE DEF a, b, capacity
      <4> QED BY <4>1 DEF a
    <3> QED BY <2>2, <2>3, <2>5, <2>7, <3>3
  <2> QED BY <2>6, <2>7
<1>3. \A args \in D : Cardinality(args[2]) \in Nat
  BY FS_Subset, FS_CardinalityType
<1> HIDE DEF Good, D
<1>4. 0 \in Done
  BY <1>2, <1>3
<1>5. ASSUME NEW n \in Nat, n \in Done PROVE n + 1 \in Done
  <2>1. n + 1 \in Nat /\ \A args \in D : Cardinality(args[2]) <= n => Good(args)
    BY <1>5
  <2>2. \A x, y \in Nat : y <= n + 1 /\ x < y => x <= n
    BY <2>1
  <2>3. \A args \in D : Cardinality(args[2]) <= n + 1 => Good(args)
    BY <1>2, <1>3, <2>1, <2>2
  <2> QED BY <2>1, <2>3
<1>6. \A n \in Nat : n \in Done
  <2> HIDE DEF Done
  <2> QED BY <1>4, <1>5, NatSetInduction
<1>7. \A args \in D : Good(args)
  BY <1>3, <1>6
<1> QED BY <1>7 DEF Good, D

(* get_fair_share of a capacity among classes: the share granted to every  *)
(* class, or all of a smaller one, adds up to the capacity at most.        *)
THEOREM FairShareWithin ==
  ASSUME NEW C, IsFiniteSet(C), C # {}, NEW requests \in [C -> Nat], NEW total \in Nat
  PROVE  /\ fair_share(total, requests) \in Nat
         /\ PredictedTotal(fair_share(total, requests), requests) <= total
<1> DEFINE g == CHOOSE g : FairSharing(requests, g)
<1>1. FairSharing(requests, g)
  <2>1. \E h : FairSharing(requests, h)
    BY FairSharingExists
  <2> QED BY <2>1
<1>2. fair_share(total, requests) = g[<<total, C>>]
  <2>1. DOMAIN requests = C
    OBVIOUS
  <2> QED BY <2>1, FairShareIs DEF FairSharing
<1> HIDE DEF g
<1>3. <<total, C>> \in Nat \X ((SUBSET C) \ {{}}) /\ <<total, C>>[1] = total /\ <<total, C>>[2] = C
  OBVIOUS
<1>4. g[<<total, C>>] \in Nat /\ Granted(g[<<total, C>>], requests, C) <= total
  BY <1>1, <1>3, FairSharingWithin
<1>5. \A share : PredictedTotal(share, requests) = Granted(share, requests, C)
  BY DEF PredictedTotal, Granted, SumFunction
<1> QED BY <1>2, <1>4, <1>5

(* How many samples the draws of a presampling have.                       *)
LEMMA PartAndRest ==
  ASSUME NEW S, IsFiniteSet(S), NEW T \in SUBSET S
  PROVE  /\ Cardinality(S) \in Nat /\ Cardinality(T) \in Nat /\ Cardinality(S \ T) \in Nat
         /\ Cardinality(S) = Cardinality(T) + Cardinality(S \ T)
<1>1. IsFiniteSet(T) /\ IsFiniteSet(S \ T)
  BY FS_Subset
<1>2. T \cup (S \ T) = S /\ T \cap (S \ T) = {}
  OBVIOUS
<1>3. Cardinality(T \cup (S \ T)) = Cardinality(T) + Cardinality(S \ T) - Cardinality(T \cap (S \ T))
  BY <1>1, FS_Union
<1>4. Cardinality(T) \in Nat /\ Cardinality(S \ T) \in Nat /\ Cardinality(S) \in Nat
  BY <1>1, FS_CardinalityType
<1>5. Cardinality(T \cap (S \ T)) = 0
  BY <1>2, FS_EmptySet
<1>6. Cardinality(T \cup (S \ T)) = Cardinality(S)
  BY <1>2
<1> QED BY <1>3, <1>4, <1>5, <1>6

LEMMA OldestCount ==
  ASSUME NEW S \in SUBSET Nat, IsFiniteSet(S), NEW n \in Nat
  PROVE  Cardinality(Oldest(n, S)) = Minimum(n, Cardinality(S))
<1> DEFINE c == Cardinality(S)
           rank(k) == Cardinality({h \in S : h < k})
           T == Oldest(n, S)
           low == [k \in T |-> rank(k)]
           high == [k \in S \ T |-> rank(k)]
<1>1. \A k \in S : rank(k) \in Nat /\ rank(k) < c /\ \A l \in S : k # l => rank(k) # rank(l)
  BY RankIs
<1>2. T = {k \in S : rank(k) < n}
  BY DEF Oldest
<1> HIDE DEF rank, T
<1>3. T \in SUBSET S
  BY <1>2
<1>4. c \in Nat /\ Cardinality(T) \in Nat /\ Cardinality(S \ T) \in Nat /\ c = Cardinality(T) + Cardinality(S \ T)
  BY <1>3, PartAndRest
<1>5. IsFiniteSet(T) /\ IsFiniteSet(S \ T)
  BY <1>3, FS_Subset
<1> HIDE DEF c
<1>6. CASE c <= n
  <2>1. \A k \in S : rank(k) < n
    BY <1>1, <1>4, <1>6
  <2>2. T = S
    BY <1>2, <2>1
  <2> QED BY <1>4, <1>6, <2>2 DEF Minimum, c, T
<1>7. CASE n < c
  <2>1. /\ IsFiniteSet(0 .. n - 1) /\ Cardinality(0 .. n - 1) = n
        /\ IsFiniteSet(n .. c - 1) /\ Cardinality(n .. c - 1) = c - n
    <3>1. n - 1 \in Int /\ 0 \in Int /\ c - 1 \in Int /\ n \in Int
      BY <1>4
    <3>2. IsFiniteSet(0 .. n - 1) /\ Cardinality(0 .. n - 1) = IF 0 > n - 1 THEN 0 ELSE (n - 1) - 0 + 1
      BY <3>1, FS_Interval
    <3>3. IsFiniteSet(n .. c - 1) /\ Cardinality(n .. c - 1) = IF n > c - 1 THEN 0 ELSE (c - 1) - n + 1
      BY <3>1, FS_Interval
    <3> QED BY <1>4, <1>7, <3>2, <3>3
  <2>2. Cardinality(T) <= n
    <3> SUFFICES ASSUME ~(Cardinality(T) <= n) PROVE FALSE
      OBVIOUS
    <3>0. \A k \in T : rank(k) \in 0 .. n - 1
      BY <1>1, <1>2
    <3>1. low \in [T -> 0 .. n - 1] /\ \A k \in T : low[k] = rank(k)
      BY <3>0
    <3>2. Cardinality(0 .. n - 1) < Cardinality(T)
      BY <1>4, <2>1
    <3> HIDE DEF low
    <3>3. \E k, l \in T : k # l /\ low[k] = low[l]
      BY <1>5, <2>1, <3>1, <3>2, FS_PigeonHole
    <3> QED BY <1>1, <1>3, <3>1, <3>3
  <2>3. Cardinality(S \ T) <= c - n
    <3> SUFFICES ASSUME ~(Cardinality(S \ T) <= c - n) PROVE FALSE
      OBVIOUS
    <3> DEFINE R == S \ T
               U == n .. c - 1
    <3>0. \A k \in R : rank(k) \in n .. c - 1
      BY <1>1, <1>2, <1>4
    <3>1. high \in [R -> n .. c - 1] /\ \A k \in R : high[k] = rank(k)
      BY <3>0
    <3>2. c - n < Cardinality(R) /\ IsFiniteSet(R)
      BY <1>4, <1>5, <1>7
    <3> HIDE DEF high, R
    <3>4. IsFiniteSet(U) /\ Cardinality(U) = c - n /\ high \in [R -> U]
      BY <2>1, <3>1
    <3> HIDE DEF U
    <3>3. \E k, l \in R : k # l /\ high[k] = high[l]
      BY <3>2, <3>4, FS_PigeonHole
    <3> QED BY <1>1, <3>1, <3>3 DEF R
  <2>4. Cardinality(T) = n
    BY <1>4, <1>7, <2>2, <2>3
  <2> QED BY <1>4, <1>7, <2>4 DEF Minimum, c, T
<1> QED BY <1>4, <1>6, <1>7

(* A part of what there is, and all of it for a ratio of 100.              *)
LEMMA TargetWithin ==
  ASSUME NEW n \in Nat, NEW ratio \in 1 .. 100, NEW lim \in Nat
  PROVE  /\ TargetSize(n, ratio, lim) \in Nat /\ TargetSize(n, ratio, lim) <= n
         /\ ratio = 100 => TargetSize(n, ratio, lim) = IF lim = 0 THEN n ELSE Minimum(lim, n)
<1> DEFINE q == (n * ratio) \div 100
           r == (n * ratio) % 100
           x == n * ratio
           d == 100 - ratio
<1>1. x \in Nat /\ d \in Nat /\ ratio \in Nat /\ ratio + d = 100
  OBVIOUS
<1>2. q \in Nat /\ r \in 0 .. 99 /\ x = q * 100 + r
  <2> HIDE DEF x
  <2>1. x \div 100 \in Nat /\ x % 100 \in 0 .. 100 - 1 /\ x = (x \div 100) * 100 + (x % 100)
    BY <1>1, DivMod
  <2> QED BY <2>1 DEF x
<1>3. x <= n * 100
  <2> HIDE DEF d
  <2>1. (ratio + d) * n = ratio * n + d * n /\ ratio * n \in Nat /\ d * n \in Nat
    BY <1>1, Distribute
  <2>2. 100 * n = ratio * n + d * n
    BY <1>1, <2>1
  <2>3. x = ratio * n
    BY <1>1
  <2> HIDE DEF x
  <2> QED BY <2>1, <2>2, <2>3
<1>4. ratio = 100 => x = n * 100
  OBVIOUS
<1>5. TargetSize(n, ratio, lim) = IF lim = 0 THEN q ELSE Minimum(lim, q)
  BY DEF TargetSize
<1> HIDE DEF q, r, x
<1>6. q <= n
  BY <1>2, <1>3
<1>7. ratio = 100 => q = n
  BY <1>2, <1>4
<1> QED BY <1>2, <1>5, <1>6, <1>7 DEF Minimum

(* Classes of one label or trigger: never more than the target together,   *)
(* and equally many of each when balancing is forced.                      *)
OfClass(T, column, c) == Cardinality({k \in T : column[k] = c})

LEMMA BalancedCount ==
  ASSUME NEW S \in SUBSET Nat, IsFiniteSet(S), NEW column, NEW target \in Nat, NEW force,
         NEW T \in BalancedDraws(S, column, target, force)
  PROVE  /\ Cardinality(T) <= target
         /\ force = "balancing" =>
              \A j, k \in S : OfClass(T, column, column[j]) = OfClass(T, column, column[k])
<1> DEFINE C == {column[k] : k \in S}
           sizes == ClassSizes(S, column)
           share == fair_share(target, sizes)
           query == Query(share, sizes, target, force)
           smallest == CHOOSE m \in {sizes[i] : i \in DOMAIN sizes} : \A i \in DOMAIN sizes : m <= sizes[i]
           Class(c) == {k \in S : column[k] = c}
           Good(U, n) == U \in SUBSET S /\ \A c \in C : OfClass(U, column, c) = Minimum(n, sizes[c])
           granted(n) == [c \in C |-> Minimum(n, sizes[c])]
<1>1. /\ IsFiniteSet(C) /\ sizes \in [C -> Nat] /\ DOMAIN sizes = C
      /\ \A c \in C : sizes[c] = Cardinality(Class(c))
  <2>1. IsFiniteSet(C)
    <3> DEFINE f == [k \in S |-> column[k]]
    <3>1. f \in Surjection(S, C)
      BY DEF Surjection
    <3> HIDE DEF f, C
    <3> QED BY <3>1, FS_Surjection
  <2>2. \A c \in C : IsFiniteSet(Class(c)) /\ Cardinality(Class(c)) \in Nat
    BY FS_Subset, FS_CardinalityType
  <2>3. sizes = [c \in C |-> Cardinality(Class(c))]
    BY DEF ClassSizes
  <2> HIDE DEF Class, C, sizes
  <2> QED BY <2>1, <2>2, <2>3
<1>2. \E U : Good(U, query[1]) /\ T = IF query[2] THEN Oldest(target, U) ELSE U
  <2> DEFINE Selected == {U \in SUBSET S : \A c \in C :
                            Cardinality(U \cap Class(c)) = Minimum(query[1], Cardinality(Class(c)))}
  <2>1. T \in IF query[2] THEN {Oldest(target, U) : U \in Selected} ELSE Selected
    BY DEF BalancedDraws
  <2>2. \A U \in SUBSET S : \A c \in C : U \cap Class(c) = {k \in U : column[k] = c}
    OBVIOUS
  <2>3. \A U \in Selected : Good(U, query[1])
    <3> SUFFICES ASSUME NEW U \in Selected PROVE Good(U, query[1])
      OBVIOUS
    <3> HIDE DEF query, sizes, Class
    <3> QED BY <1>1, <2>2 DEF OfClass
  <2>4. \E U \in Selected : T = IF query[2] THEN Oldest(target, U) ELSE U
    <3> HIDE DEF query, Selected
    <3> QED BY <2>1
  <2> HIDE DEF Selected, query, Good
  <2> QED BY <2>3, <2>4
<1>3. CASE S = {}
  <2>1. T = {}
    BY <1>3, BalancedAmong
  <2> QED BY <1>3, <2>1, FS_EmptySet
<1>4. CASE S # {}
  <2>1. C # {}
    BY <1>4
  <2> HIDE DEF sizes, C
  <2>2. share \in Nat /\ PredictedTotal(share, sizes) <= target
    BY <1>1, <2>1, FairShareWithin
  <2> HIDE DEF share
  <2>3. \A c \in C : sizes[c] \in Nat
    BY <1>1
  <2>4. ASSUME NEW n \in Nat
        PROVE  /\ granted(n) \in [C -> Nat] /\ \A c \in C : granted(n)[c] = Minimum(n, sizes[c])
               /\ SumFunctionOnSet(granted(n), C) \in Nat
    <3>1. \A c \in C : Minimum(n, sizes[c]) \in Nat
      BY <2>3 DEF Minimum
    <3>2. granted(n) \in [C -> Nat] /\ \A c \in C : granted(n)[c] = Minimum(n, sizes[c])
      BY <3>1
    <3> HIDE DEF granted
    <3> QED BY <1>1, <3>2, SumOf
  <2>5. PredictedTotal(share, sizes) = SumFunctionOnSet(granted(share), C)
    BY <1>1 DEF PredictedTotal, SumFunction
  <2> HIDE DEF granted
  <2>6. ASSUME NEW n \in Nat, NEW U, Good(U, n)
        PROVE  Cardinality(U) = SumFunctionOnSet(granted(n), C) /\ IsFiniteSet(U) /\ U \in SUBSET Nat
               /\ Cardinality(U) \in Nat
    <3>1. IsFiniteSet(U) /\ U \in SUBSET Nat /\ U \subseteq S
      BY <2>6, FS_Subset
    <3>2. \A k \in U : column[k] \in C
      BY <3>1 DEF C
    <3>3. \A c \in C : granted(n)[c] = Cardinality({k \in U : column[k] = c})
      BY <2>4, <2>6 DEF OfClass
    <3>4. Cardinality(U) = SumFunctionOnSet(granted(n), C)
      <4>1. CountedBy(granted(n), U, C, column)
        BY <3>2, <3>3 DEF CountedBy
      <4> QED BY <1>1, <3>1, <4>1, CountByClass
    <3> QED BY <3>1, <3>4, FS_CardinalityType
  <2>7. ASSUME NEW U, Good(U, share)
        PROVE  Cardinality(U) <= target
    BY <2>2, <2>5, <2>6, <2>7
  <2>8. /\ smallest \in Nat /\ \A c \in C : smallest <= sizes[c]
    <3> DEFINE N == {sizes[c] : c \in C}
    <3>1. N \subseteq Nat /\ N # {}
      BY <1>1, <2>1
    <3> HIDE DEF N
    <3>2. \E m \in N : \A i \in N : m <= i
      BY <3>1, LeastNatural
    <3>3. \E m \in N : \A c \in C : m <= sizes[c]
      BY <3>2 DEF N
    <3>4. smallest = CHOOSE m \in N : \A c \in C : m <= sizes[c]
      BY <1>1 DEF N
    <3> HIDE DEF smallest
    <3>5. smallest \in N /\ \A c \in C : smallest <= sizes[c]
      BY <3>3, <3>4
    <3> QED BY <3>1, <3>5
  <2>9. query = CASE force = "target_size" /\ PredictedTotal(share, sizes) < target -> <<share + 1, TRUE>>
                  [] force = "balancing" /\ smallest < share -> <<smallest, TRUE>>
                  [] OTHER -> <<share, FALSE>>
    BY DEF Query
  <2> HIDE DEF query, smallest
  <2>10. PICK U : Good(U, query[1]) /\ T = IF query[2] THEN Oldest(target, U) ELSE U
    BY <1>2
  <2>11. CASE force = "target_size" /\ PredictedTotal(share, sizes) < target
    <3>1. query[1] = share + 1 /\ query[2] = TRUE
      BY <2>9, <2>11
    <3>2. IsFiniteSet(U) /\ U \in SUBSET Nat /\ Cardinality(U) \in Nat
      <4>1. share + 1 \in Nat /\ Good(U, share + 1)
        BY <2>2, <2>10, <3>1
      <4> HIDE DEF Good
      <4> QED BY <2>6, <4>1
    <3>3. Cardinality(T) = Minimum(target, Cardinality(U))
      BY <2>10, <3>1, <3>2, OldestCount
    <3> QED BY <2>11, <3>2, <3>3 DEF Minimum
  <2>12. CASE force = "balancing" /\ smallest < share
    <3>1. query[1] = smallest /\ query[2] = TRUE
      BY <2>9, <2>12
    <3>2. /\ Good(U, smallest) /\ IsFiniteSet(U) /\ U \in SUBSET Nat /\ Cardinality(U) \in Nat
          /\ Cardinality(U) = SumFunctionOnSet(granted(smallest), C)
      <4>1. Good(U, smallest)
        BY <2>10, <3>1
      <4> HIDE DEF Good
      <4> QED BY <2>6, <2>8, <4>1
    <3>3. SumFunctionOnSet(granted(smallest), C) <= SumFunctionOnSet(granted(share), C)
      <4>1. \A c \in C : /\ granted(smallest)[c] \in Nat /\ granted(share)[c] \in Nat
                         /\ granted(smallest)[c] <= granted(share)[c]
        <5> SUFFICES ASSUME NEW c \in C
                     PROVE  /\ granted(smallest)[c] \in Nat /\ granted(share)[c] \in Nat
                            /\ granted(smallest)[c] <= granted(share)[c]
          OBVIOUS
        <5>1. /\ granted(smallest)[c] = Minimum(smallest, sizes[c])
              /\ granted(share)[c] = Minimum(share, sizes[c])
          BY <2>2, <2>4, <2>8
        <5> QED BY <2>2, <2>3, <2>8, <2>12, <5>1 DEF Minimum
      <4> QED BY <1>1, <4>1, SumGrows
    <3>4. Cardinality(U) <= target
      BY <2>2, <2>4, <2>5, <2>8, <3>2, <3>3
    <3>5. T = U
      <4>1. T = Oldest(target, U) /\ T \subseteq U
        BY <2>10, <3>1, OldestAmong
      <4>2. Cardinality(T) = Cardinality(U)
        BY <3>2, <3>4, <4>1, OldestCount DEF Minimum
      <4> QED BY <3>2, <4>1, <4>2, FS_Subset
    <3>6. \A c \in C : OfClass(T, column, c) = smallest
      BY <2>3, <2>8, <3>2, <3>5 DEF Minimum
    <3>7. \A j \in S : column[j] \in C
      BY DEF C
    <3> QED BY <3>4, <3>5, <3>6, <3>7
  <2>13. CASE ~(force = "target_size" /\ PredictedTotal(share, sizes) < target)
              /\ ~(force = "balancing" /\ smallest < share)
    <3>1. query[1] = share /\ query[2] = FALSE
      BY <2>9, <2>13
    <3>2. T = U /\ Good(U, share)
      BY <2>10, <3>1
    <3>3. Cardinality(T) <= target
      <4> HIDE DEF Good
      <4> QED BY <2>7, <3>2
    <3>4. ASSUME force = "balancing" PROVE \A c \in C : OfClass(T, column, c) = share
      BY <2>2, <2>3, <2>8, <2>13, <3>2, <3>4 DEF Minimum
    <3>5. \A j \in S : column[j] \in C
      BY DEF C
    <3> QED BY <3>3, <3>4, <3>5
  <2> QED BY <2>11, <2>12, <2>13
<1> QED BY <1>3, <1>4

(* Without replacement: the target exactly, from the new round what the    *)
(* old one does not have.                                                  *)
LEMMA NoReplacementCount ==
  ASSUME NEW S, IsFiniteSet(S), NEW last_used, NEW complete, NEW next,
         \A k \in S : last_used[k] < next,
         NEW target \in Nat, target <= Cardinality(S),
         NEW draw \in NoReplacementDraws(S, last_used, complete, next, target)
  PROVE  Cardinality(draw[1]) = target
<1> DEFINE L == NotDrawnSince(S, last_used, complete)
<1>1. PICK first \in FirstDraws(S, last_used, complete, target) :
        draw \in LET left == NotDrawnSince(S \ first, last_used, next)
                 IN IF Cardinality(first) >= target THEN {<<first, complete>>}
                    ELSE {<<first \cup more, next>> : more \in
                            kSubset(Minimum(target - Cardinality(first), Cardinality(left)), left)}
  BY DEF NoReplacementDraws
<1>2. L \in SUBSET S
  BY DEF NotDrawnSince
<1>3. first \in SUBSET L /\ Cardinality(first) = Minimum(target, Cardinality(L))
  BY <1>1 DEF FirstDraws, kSubset
<1> HIDE DEF L
<1>4. /\ first \in SUBSET S /\ Cardinality(L) \in Nat
      /\ Cardinality(S) \in Nat /\ Cardinality(first) \in Nat /\ Cardinality(S \ first) \in Nat
      /\ Cardinality(S) = Cardinality(first) + Cardinality(S \ first)
  <2>1. first \in SUBSET S
    BY <1>2, <1>3
  <2> QED BY <1>2, <2>1, PartAndRest
<1>5. CASE Cardinality(first) >= target
  <2>1. draw = <<first, complete>>
    BY <1>1, <1>5
  <2>2. Cardinality(first) = target
    BY <1>3, <1>4, <1>5 DEF Minimum
  <2> QED BY <2>1, <2>2
<1>6. CASE ~(Cardinality(first) >= target)
  <2>1. NotDrawnSince(S \ first, last_used, next) = S \ first
    BY DEF NotDrawnSince
  <2>2. PICK more \in kSubset(Minimum(target - Cardinality(first), Cardinality(S \ first)), S \ first) :
          draw = <<first \cup more, next>>
    BY <1>1, <1>6, <2>1
  <2>3. more \in SUBSET (S \ first) /\ Cardinality(more) = target - Cardinality(first)
    <3>1. more \in SUBSET (S \ first)
          /\ Cardinality(more) = Minimum(target - Cardinality(first), Cardinality(S \ first))
      BY DEF kSubset
    <3> QED BY <1>4, <1>6, <3>1 DEF Minimum
  <2>4. IsFiniteSet(first) /\ IsFiniteSet(more) /\ first \cap more = {}
    BY <1>4, <2>3, FS_Subset
  <2>5. Cardinality(first \cup more) = Cardinality(first) + Cardinality(more) - Cardinality(first \cap more)
    BY <2>4, FS_Union
  <2>6. Cardinality(first \cap more) = 0
    BY <2>4, FS_EmptySet
  <2> QED BY <1>4, <2>2, <2>3, <2>5, <2>6
<1> QED BY <1>5, <1>6

(* Without replacement: either only samples not drawn since the last       *)
(* complete trigger, or all of them and the trigger completes the round.   *)
LEMMA NoReplacement ==
  ASSUME NEW S, IsFiniteSet(S), NEW last_used, NEW complete, NEW next, NEW target \in Int,
         NEW draw \in NoReplacementDraws(S, last_used, complete, next, target)
  PROVE  /\ draw[1] \subseteq S
         /\ \/ draw[2] = complete /\ draw[1] \subseteq NotDrawnSince(S, last_used, complete)
            \/ draw[2] = next /\ NotDrawnSince(S, last_used, complete) \subseteq draw[1]
<1> DEFINE L == NotDrawnSince(S, last_used, complete)
<1>1. PICK first \in FirstDraws(S, last_used, complete, target) :
        draw \in LET left == NotDrawnSince(S \ first, last_used, next)
                 IN IF Cardinality(first) >= target THEN {<<first, complete>>}
                    ELSE {<<first \cup more, next>> : more \in
                            kSubset(Minimum(target - Cardinality(first), Cardinality(left)), left)}
  BY DEF NoReplacementDraws
<1>2. L \subseteq S /\ NotDrawnSince(S \ first, last_used, next) \subseteq S
  BY DEF NotDrawnSince
<1>3. first \subseteq L /\ Cardinality(first) = Minimum(target, Cardinality(L))
  BY <1>1 DEF FirstDraws, kSubset
<1> HIDE DEF L
<1>4. CASE Cardinality(first) >= target
  <2>1. draw = <<first, complete>>
    BY <1>1, <1>4
  <2> QED BY <1>2, <1>3, <2>1 DEF L
<1>5. CASE ~(Cardinality(first) >= target)
  <2>1. PICK more \in SUBSET NotDrawnSince(S \ first, last_used, next) : draw = <<first \cup more, next>>
    BY <1>1, <1>5 DEF kSubset
  <2>2. IsFiniteSet(L) /\ IsFiniteSet(first)
    BY <1>2, <1>3, FS_Subset
  <2>3. Cardinality(L) \in Nat /\ Cardinality(first) \in Nat
    BY <2>2, FS_CardinalityType
  <2>4. Cardinality(first) = Cardinality(L)
    BY <1>3, <1>5, <2>3 DEF Minimum
  <2>5. first = L
    BY <1>3, <2>2, <2>4, FS_Subset
  <2> QED BY <1>2, <2>1, <2>5 DEF L
<1> QED BY <1>4, <1>5

LEMMA PresamplingDraw ==
  ASSUME NEW S, IsFiniteSet(S), NEW seen, NEW target \in Int, NEW complete, NEW next,
         NEW draw \in PresamplingDraws(S, seen, target, complete, next)
  PROVE  /\ draw[1] \subseteq S /\ draw[2] \in {complete, next}
         /\ strategy.presampling = "No" /\ limit = 0 => draw[1] = S
         /\ strategy.presampling = "RandomNoReplacement" =>
              \/ draw[2] = complete
                   /\ draw[1] \subseteq NotDrawnSince(S, last_used_in_trigger, complete)
              \/ draw[2] = next
                   /\ NotDrawnSince(S, last_used_in_trigger, complete) \subseteq draw[1]
<1>1. CASE strategy.presampling = "No"
  <2>1. draw = <<IF limit = 0 THEN S ELSE Oldest(limit, S), complete>>
    BY <1>1 DEF PresamplingDraws
  <2>2. (IF limit = 0 THEN S ELSE Oldest(limit, S)) \subseteq S
    BY OldestAmong
  <2> QED BY <1>1, <2>1, <2>2
<1>2. CASE strategy.presampling = "Random"
  <2>1. draw \in {<<T, complete>> : T \in RandomDraws(S, target)}
    BY <1>2 DEF PresamplingDraws
  <2>2. PICK T \in RandomDraws(S, target) : draw = <<T, complete>>
    BY <2>1
  <2>3. T \subseteq S
    BY DEF RandomDraws, kSubset
  <2> QED BY <1>2, <2>2, <2>3
<1>3. CASE strategy.presampling = "RandomNoReplacement"
  <2>1. draw \in NoReplacementDraws(S, last_used_in_trigger, complete, next, target)
    BY <1>3 DEF PresamplingDraws
  <2> QED BY <1>3, <2>1, NoReplacement
<1>4. CASE strategy.presampling \notin {"No", "Random", "RandomNoReplacement"}
  <2>1. draw \in {<<T, complete>> : T \in BalancedDraws(S, Column(seen), target, strategy.force)}
    BY <1>4 DEF PresamplingDraws
  <2>2. PICK T \in BalancedDraws(S, Column(seen), target, strategy.force) : draw = <<T, complete>>
    BY <2>1
  <2>3. T \subseteq S
    BY BalancedAmong
  <2> QED BY <1>4, <2>2, <2>3
<1> QED BY <1>1, <1>2, <1>3, <1>4
LEMMA TargetIsNumber ==
  ASSUME NEW n \in Nat, NEW ratio \in Nat, NEW lim \in Nat
  PROVE  TargetSize(n, ratio, lim) \in Int
<1>1. n * ratio \in Nat
  OBVIOUS
<1>2. (n * ratio) \div 100 \in Nat
  BY <1>1, DivMod
<1> QED BY <1>2 DEF TargetSize, Minimum

(* a samples of a + b are r in a hundred, to less than one sample.         *)
NearRatio(r, a, b) ==
  -100 < 100 * a - r * (a + b) /\ 100 * a - r * (a + b) < 100

(* The mixture of unused and used samples keeps its ratio within one       *)
(* sample, whatever there is of either.                                    *)
LEMMA MixtureExact ==
  ASSUME NEW u \in Nat, NEW v \in Nat, NEW r \in 1 .. 99, NEW lim \in Nat,
         NEW a \in Int, NEW b \in Int,
         a = NumSamples(u, v, r, lim)[1], b = NumSamples(u, v, r, lim)[2]
  PROVE  NearRatio(r, a, b)
<1> SUFFICES -100 < 100 * a - r * (a + b) /\ 100 * a - r * (a + b) < 100
  BY DEF NearRatio
<1> DEFINE x == (u * 100) \div r
           y == (v * 100) \div (100 - r)
           z == (lim * r) \div 100
           rx == (u * 100) % r
           ry == (v * 100) % (100 - r)
           rz == (lim * r) % 100
<1>1. u * 100 \in Nat /\ v * 100 \in Nat /\ lim * r \in Nat
      /\ r \in Nat \ {0} /\ 100 - r \in Nat \ {0} /\ 100 \in Nat \ {0}
  OBVIOUS
<1>2. x \in Nat /\ rx \in 0 .. r - 1 /\ u * 100 = x * r + rx
  <2> DEFINE w == u * 100
  <2>1. w \in Nat /\ r \in Nat \ {0}
    BY <1>1
  <2> HIDE DEF w
  <2>2. w \div r \in Nat /\ w % r \in 0 .. r - 1 /\ w = (w \div r) * r + (w % r)
    BY <2>1, DivMod
  <2> QED BY <2>2 DEF w
<1>3. y \in Nat /\ ry \in 0 .. (100 - r) - 1 /\ v * 100 = y * (100 - r) + ry
  <2> DEFINE w == v * 100
             e == 100 - r
  <2>1. w \in Nat /\ e \in Nat \ {0}
    BY <1>1
  <2> HIDE DEF w, e
  <2>2. w \div e \in Nat /\ w % e \in 0 .. e - 1 /\ w = (w \div e) * e + (w % e)
    BY <2>1, DivMod
  <2> QED BY <2>2 DEF w, e
<1>4. z \in Nat /\ rz \in 0 .. 99 /\ lim * r = z * 100 + rz
  <2> DEFINE w == lim * r
  <2>1. w \in Nat
    BY <1>1
  <2> HIDE DEF w
  <2>2. w \div 100 \in Nat /\ w % 100 \in 0 .. 100 - 1 /\ w = (w \div 100) * 100 + (w % 100)
    BY <2>1, DivMod
  <2> QED BY <2>2 DEF w
<1>5. CalcNumSamplesNoLimit(u, v, r) = IF x > y THEN <<y - v, v>> ELSE <<u, x - u>>
  BY DEF CalcNumSamplesNoLimit
<1>6. CalcNumSamplesLimit(lim, r) = <<z, lim - z>>
  BY DEF CalcNumSamplesLimit
<1> HIDE DEF x, y, z, rx, ry, rz
<1>7. \/ a = y - v /\ b = v
      \/ a = u /\ b = x - u
      \/ a = z /\ b = lim - z
  <2>1. NumSamples(u, v, r, lim) \in {<<y - v, v>>, <<u, x - u>>, <<z, lim - z>>}
    BY <1>5, <1>6 DEF NumSamples
  <2> QED BY <2>1
<1>8. CASE a = y - v /\ b = v
  <2>1. a + b = y
    BY <1>3, <1>8
  <2>2. r * y = 100 * y - y * (100 - r)
    BY <1>3
  <2>3. 100 * a - r * (a + b) = ry - ry + y * (100 - r) - 100 * v
    BY <1>3, <1>8, <2>1, <2>2
  <2> QED BY <1>3, <2>3
<1>9. CASE a = u /\ b = x - u
  <2>1. a + b = x
    BY <1>2, <1>9
  <2>2. r * x = x * r
    BY <1>2
  <2> QED BY <1>2, <1>9, <2>1, <2>2
<1>10. CASE a = z /\ b = lim - z
  <2>1. a + b = lim
    BY <1>4, <1>10
  <2>2. r * lim = lim * r
    OBVIOUS
  <2> QED BY <1>4, <1>10, <2>1, <2>2
<1> QED BY <1>7, <1>8, <1>9, <1>10
-----------------------------------------------------------------------------
(* Every pipeline's configuration, and the samples it may have.            *)
Room == IF strategy.name = "FreshnessSamplingStrategy" THEN Larger(maximum_keys_in_memory, 2)
        ELSE maximum_keys_in_memory

LEMMA Configured ==
  ASSUME TypeOK
  PROVE  /\ strategy.name \in {"NewDataStrategy", "CoresetStrategy", "FreshnessSamplingStrategy"}
         /\ strategy.ratio \in 1 .. 100
         /\ strategy.name = "FreshnessSamplingStrategy" => strategy.ratio \in 1 .. 99
         /\ strategy.presampling # "No" => strategy.name = "CoresetStrategy"
         /\ limit \in Nat /\ maximum_keys_in_memory \in Nat \ {0} /\ MaxSamples \in Nat
         /\ Room \in Nat \ {0} /\ maximum_keys_in_memory <= Room
         /\ tail \in Nat \cup {AllData} /\ AllData \notin Nat
<1>1. strategy \in Strategies /\ limit \in Limits /\ tail \in Tails \cup {AllData}
  BY DEF TypeOK
<1>2. /\ strategy.name \in {"NewDataStrategy", "CoresetStrategy", "FreshnessSamplingStrategy"}
      /\ strategy.ratio \in 1 .. 100
      /\ strategy.name = "FreshnessSamplingStrategy" => strategy.ratio < 100
      /\ strategy.presampling # "No" => strategy.name = "CoresetStrategy"
  BY <1>1, SelectorAssumption
<1>3. /\ maximum_keys_in_memory \in Nat \ {0} /\ MaxSamples \in Nat
      /\ Limits \subseteq 0 .. maximum_keys_in_memory
      /\ Tails \subseteq Nat \cup {AllData} /\ AllData \notin Nat
  BY SelectorAssumption
<1>4. Room \in Nat \ {0} /\ maximum_keys_in_memory <= Room
  BY <1>3 DEF Room, Larger
<1>5. limit \in Nat /\ tail \in Nat \cup {AllData}
  BY <1>1, <1>3
<1> QED BY <1>2, <1>3, <1>4, <1>5

LEMMA NaturalsFinite ==
  ASSUME NEW n \in Nat, NEW S \in SUBSET (1 .. n)
  PROVE  IsFiniteSet(S) /\ Cardinality(S) \in Nat /\ S \in SUBSET Nat
<1>1. IsFiniteSet(1 .. n)
  BY FS_Interval
<1>2. IsFiniteSet(S)
  BY <1>1, FS_Subset
<1> QED BY <1>2, FS_CardinalityType

MixtureKept(A, B) ==
  LET excess == 100 * Cardinality(A) - strategy.ratio * (Cardinality(A) + Cardinality(B))
  IN -100 < excess /\ excess < 100
Mixture(T, S) ==
  \E A \in SUBSET (S \ used), B \in SUBSET used : T = A \cup B /\ MixtureKept(A, B)

(* What a trigger of a process may result in.                              *)
Expected(outcome, S, p, next) ==
  /\ Splits(outcome.partitions, S \cup used, Room)
  /\ strategy.name # "FreshnessSamplingStrategy" => Splits(outcome.partitions, S, Room)
  /\ outcome.complete \in {0, last_complete_trigger[p], next}
  /\ TakesAll => Together(outcome.partitions) = S
  /\ strategy.presampling = "RandomNoReplacement" =>
       LET left == NotDrawnSince(S, last_used_in_trigger, last_complete_trigger[p])
           drawn == Together(outcome.partitions)
       IN \/ outcome.complete = last_complete_trigger[p] /\ drawn \subseteq left
          \/ outcome.complete = next /\ left \subseteq drawn
  /\ strategy.name = "FreshnessSamplingStrategy" /\ is_first_trigger[p] = FALSE =>
       Mixture(Together(outcome.partitions), S)

LEMMA OutcomeOfTrigger ==
  ASSUME TypeOK, NEW S \in SUBSET (1 .. MaxSamples), NEW seen, NEW p \in Processes, NEW next,
         NEW outcome \in Outcomes(S, seen, p, next)
  PROVE  Expected(outcome, S, p, next)
<1> DEFINE m == maximum_keys_in_memory
           ps == outcome.partitions
<1> USE DEF Expected
<1>1. /\ m \in Nat \ {0} /\ Room \in Nat \ {0} /\ m <= Room /\ limit \in Nat /\ strategy.ratio \in Nat
      /\ strategy.name \in {"NewDataStrategy", "CoresetStrategy", "FreshnessSamplingStrategy"}
      /\ strategy.presampling # "No" => strategy.name = "CoresetStrategy"
      /\ MaxSamples \in Nat
  BY Configured
<1>2. IsFiniteSet(S) /\ Cardinality(S) \in Nat /\ S \in SUBSET Nat
  BY <1>1, NaturalsFinite
<1>3. used \in SUBSET (1 .. MaxSamples)
  BY DEF TypeOK
<1>4. IsFiniteSet(used) /\ Cardinality(used) \in Nat
  BY <1>1, <1>3, NaturalsFinite
<1>5. Unused(S) = S \ used /\ Unused(S) \in SUBSET (1 .. MaxSamples)
  BY DEF Unused
<1>6. IsFiniteSet(Unused(S)) /\ Cardinality(Unused(S)) \in Nat
  BY <1>1, <1>5, NaturalsFinite
<1>7. ASSUME Splits(ps, S, m)
      PROVE  Splits(ps, S \cup used, Room) /\ Splits(ps, S, Room)
  <2> HIDE DEF m, ps
  <2> QED BY <1>1, <1>2, <1>7, SplitsMore
<1>8. CASE strategy.name = "NewDataStrategy"
  <2>1. PICK chunks \in LimitedChunks(S, limit, m) : outcome = Outcome(chunks, 0)
    BY <1>8 DEF Outcomes, NewDataOutcomes
  <2>2. ps = chunks /\ outcome.complete = 0
    BY <2>1 DEF Outcome
  <2> HIDE DEF m, ps
  <2>3. Splits(ps, S, m) /\ (limit = 0 => Together(ps) = S)
    BY <1>1, <1>2, <2>2, LimitedSplits
  <2>4. TakesAll => limit = 0
    BY DEF TakesAll
  <2> QED BY <1>1, <1>7, <1>8, <2>2, <2>3, <2>4 DEF ps
<1>9. CASE strategy.name = "CoresetStrategy"
  <2> DEFINE target == TargetSize(TriggerDatasetSize(S), strategy.ratio, limit)
             complete == last_complete_trigger[p]
  <2>1. target \in Int
    BY <1>1, <1>2, TargetIsNumber DEF TriggerDatasetSize
  <2>2. PICK draw \in PresamplingDraws(S, seen, target, complete, next) :
          outcome = Outcome(ChunksByAge(draw[1], m), draw[2])
    BY <1>9 DEF Outcomes, CoresetOutcomes
  <2>3. ps = ChunksByAge(draw[1], m) /\ outcome.complete = draw[2]
    BY <2>2 DEF Outcome
  <2> HIDE DEF m, ps, target, complete
  <2>4. /\ draw[1] \subseteq S /\ draw[2] \in {complete, next}
        /\ strategy.presampling = "No" /\ limit = 0 => draw[1] = S
        /\ strategy.presampling = "RandomNoReplacement" =>
              \/ draw[2] = complete
                   /\ draw[1] \subseteq NotDrawnSince(S, last_used_in_trigger, complete)
              \/ draw[2] = next
                   /\ NotDrawnSince(S, last_used_in_trigger, complete) \subseteq draw[1]
    BY <1>2, <2>1, PresamplingDraw
  <2>5. IsFiniteSet(draw[1]) /\ draw[1] \in SUBSET Nat
    BY <1>2, <2>4, FS_Subset
  <2>6. Splits(ps, draw[1], m) /\ Together(ps) = draw[1]
    BY <1>1, <2>3, <2>5, ByAgeSplits
  <2>7. Splits(ps, S, m)
    BY <1>1, <2>4, <2>5, <2>6, SplitsMore
  <2>8. TakesAll => Together(ps) = S
    BY <2>4, <2>6 DEF TakesAll
  <2>9. Splits(ps, S \cup used, Room) /\ Splits(ps, S, Room)
    BY <1>7, <2>7
  <2> QED BY <1>9, <2>3, <2>4, <2>6, <2>8, <2>9 DEF ps, complete
<1>10. CASE strategy.name = "FreshnessSamplingStrategy"
  <2>1. strategy.presampling = "No" /\ ~TakesAll
    BY <1>1, <1>10 DEF TakesAll
  <2>2. outcome \in FreshnessOutcomes(S, p)
    BY <1>10 DEF Outcomes
  <2>3. CASE is_first_trigger[p]
    <3>0. is_first_trigger[p] # FALSE
      BY <2>3
    <3>1. PICK chunks \in LimitedChunks(Unused(S), limit, m) : outcome = Outcome(chunks, 0)
      BY <2>2, <2>3 DEF FreshnessOutcomes
    <3>2. ps = chunks /\ outcome.complete = 0
      BY <3>1 DEF Outcome
    <3> HIDE DEF m, ps
    <3>3. Splits(ps, Unused(S), m)
      BY <1>1, <1>6, <3>2, LimitedSplits
    <3>4. Splits(ps, S \cup used, Room)
      <4>1. Unused(S) \subseteq S \cup used
        BY <1>5
      <4> QED BY <1>1, <1>6, <3>3, <4>1, SplitsMore
    <3> QED BY <1>10, <2>1, <3>0, <3>2, <3>4 DEF ps
  <2>4. CASE ~is_first_trigger[p]
    <3> DEFINE U == Unused(S)
    <3>1. PICK joined \in FreshnessDraws(U, used, strategy.ratio, limit, m) : outcome = Outcome(joined, 0)
      BY <2>2, <2>4 DEF FreshnessOutcomes
    <3>2. ps = joined /\ outcome.complete = 0
      BY <3>1 DEF Outcome
    <3>3. U \cap used = {} /\ U \cup used = S \cup used /\ Room = Larger(m, 2)
      BY <1>5, <1>10 DEF Room
    <3>4. IsFiniteSet(U) /\ Cardinality(U) \in Nat
      BY <1>6
    <3> HIDE DEF m, ps, U
    <3>5. /\ Splits(ps, U \cup used, Larger(m, 2))
          /\ \E A \in SUBSET U, B \in SUBSET used :
               /\ Together(ps) = A \cup B
               /\ Cardinality(A) = NumSamples(Cardinality(U), Cardinality(used), strategy.ratio, limit)[1]
               /\ Cardinality(B) = NumSamples(Cardinality(U), Cardinality(used), strategy.ratio, limit)[2]
      BY <1>1, <1>4, <3>1, <3>2, <3>3, <3>4, FreshnessSplits
    <3>6. PICK A \in SUBSET U, B \in SUBSET used :
               /\ Together(ps) = A \cup B
               /\ Cardinality(A) = NumSamples(Cardinality(U), Cardinality(used), strategy.ratio, limit)[1]
               /\ Cardinality(B) = NumSamples(Cardinality(U), Cardinality(used), strategy.ratio, limit)[2]
      BY <3>5
    <3>7. IsFiniteSet(A) /\ IsFiniteSet(B)
      BY <1>4, <3>4, FS_Subset
    <3>8. Cardinality(A) \in Int /\ Cardinality(B) \in Int
      BY <3>7, FS_CardinalityType
    <3>9. strategy.ratio \in 1 .. 99
      BY <1>10, Configured
    <3>10. /\ -100 < 100 * Cardinality(A) - strategy.ratio * (Cardinality(A) + Cardinality(B))
           /\ 100 * Cardinality(A) - strategy.ratio * (Cardinality(A) + Cardinality(B)) < 100
      <4> DEFINE u == Cardinality(U)
                 v == Cardinality(used)
                 r == strategy.ratio
                 x == Cardinality(A)
                 y == Cardinality(B)
      <4>1. /\ u \in Nat /\ v \in Nat /\ r \in 1 .. 99 /\ limit \in Nat /\ x \in Int /\ y \in Int
            /\ x = NumSamples(u, v, r, limit)[1] /\ y = NumSamples(u, v, r, limit)[2]
        BY <1>1, <1>4, <3>4, <3>6, <3>8, <3>9
      <4> HIDE DEF u, v, r, x, y
      <4>2. NearRatio(r, x, y)
        BY <4>1, MixtureExact
      <4> QED BY <4>2 DEF NearRatio, r, x, y
    <3>11. Splits(ps, S \cup used, Room)
      BY <3>3, <3>5
    <3>12. A \in SUBSET (S \ used)
      BY <1>5 DEF U
    <3>13. MixtureKept(A, B)
      BY <3>10 DEF MixtureKept
    <3>14. Mixture(Together(ps), S)
      BY <3>6, <3>12, <3>13 DEF Mixture
    <3> QED BY <1>10, <2>1, <3>2, <3>11, <3>14 DEF ps
  <2> QED BY <2>3, <2>4
<1> QED BY <1>1, <1>8, <1>9, <1>10

(* What the configuration of a CoresetStrategy says of a draw D from the   *)
(* samples S.                                                              *)
AsConfigured(s, lim, S, D) ==
  LET target == TargetSize(Cardinality(S), s.ratio, lim)
  IN /\ s.presampling \notin Balanced => Cardinality(D) = target
     /\ s.presampling \in Balanced => Cardinality(D) <= target
     /\ (s.presampling = "LabelBalanced" /\ s.force = "balancing") =>
          \A j, k \in S : OfClass(D, Label, Label[j]) = OfClass(D, Label, Label[k])

LEMMA DrawAsConfigured ==
  ASSUME TypeOK, strategy.name = "CoresetStrategy", NEW S \in SUBSET (1 .. MaxSamples),
         NEW seen, NEW complete, NEW next,
         strategy.presampling = "RandomNoReplacement" => \A k \in S : last_used_in_trigger[k] < next,
         NEW draw \in PresamplingDraws(S, seen, TargetSize(Cardinality(S), strategy.ratio, limit),
                                       complete, next)
  PROVE  AsConfigured(strategy, limit, S, draw[1])
<1> DEFINE n == Cardinality(S)
           target == TargetSize(n, strategy.ratio, limit)
<1>1. /\ strategy.presampling \in {"No", "Random", "RandomNoReplacement", "LabelBalanced", "TriggerBalanced"}
      /\ strategy.ratio \in 1 .. 100 /\ limit \in Nat /\ MaxSamples \in Nat
      /\ strategy.presampling = "No" => strategy.ratio = 100
  <2>1. strategy \in Strategies
    BY DEF TypeOK
  <2>2. limit \in Nat /\ MaxSamples \in Nat
    BY Configured
  <2> QED BY <2>1, <2>2, SelectorAssumption
<1>2. IsFiniteSet(S) /\ n \in Nat /\ S \in SUBSET Nat
  BY <1>1, NaturalsFinite
<1> HIDE DEF n
<1>3. /\ target \in Nat /\ target <= n
      /\ strategy.ratio = 100 => target = IF limit = 0 THEN n ELSE Minimum(limit, n)
  <2> DEFINE r == strategy.ratio
  <2>1. r \in 1 .. 100 /\ limit \in Nat /\ n \in Nat
    BY <1>1, <1>2
  <2> HIDE DEF r
  <2>2. /\ TargetSize(n, r, limit) \in Nat /\ TargetSize(n, r, limit) <= n
        /\ r = 100 => TargetSize(n, r, limit) = IF limit = 0 THEN n ELSE Minimum(limit, n)
    BY <2>1, TargetWithin
  <2> QED BY <2>2 DEF r
<1>4. draw \in PresamplingDraws(S, seen, target, complete, next)
  BY DEF n
<1>5. AsConfigured(strategy, limit, S, draw[1]) <=>
         /\ strategy.presampling \notin Balanced => Cardinality(draw[1]) = target
         /\ strategy.presampling \in Balanced => Cardinality(draw[1]) <= target
         /\ (strategy.presampling = "LabelBalanced" /\ strategy.force = "balancing") =>
              \A j, k \in S : OfClass(draw[1], Label, Label[j]) = OfClass(draw[1], Label, Label[k])
  BY DEF AsConfigured, n
<1> HIDE DEF target
<1>6. CASE strategy.presampling = "No"
  <2>1. draw[1] = IF limit = 0 THEN S ELSE Oldest(limit, S)
    BY <1>4, <1>6 DEF PresamplingDraws
  <2>2. Cardinality(draw[1]) = target
    BY <1>1, <1>2, <1>3, <1>6, <2>1, OldestCount DEF n
  <2> QED BY <1>5, <1>6, <2>2 DEF Balanced
<1>7. CASE strategy.presampling = "Random"
  <2>1. draw \in {<<T, complete>> : T \in RandomDraws(S, target)}
    BY <1>4, <1>7 DEF PresamplingDraws
  <2>2. PICK T \in RandomDraws(S, target) : draw = <<T, complete>>
    BY <2>1
  <2>3. Cardinality(draw[1]) = target
    BY <2>2 DEF RandomDraws, kSubset
  <2> QED BY <1>5, <1>7, <2>3 DEF Balanced
<1>8. CASE strategy.presampling = "RandomNoReplacement"
  <2>1. draw \in NoReplacementDraws(S, last_used_in_trigger, complete, next, target)
    BY <1>4, <1>8 DEF PresamplingDraws
  <2>2. target \in Nat /\ target <= Cardinality(S) /\ \A k \in S : last_used_in_trigger[k] < next
    BY <1>3, <1>8 DEF n
  <2>3. Cardinality(draw[1]) = target
    BY <1>2, <2>1, <2>2, NoReplacementCount
  <2> QED BY <1>5, <1>8, <2>3 DEF Balanced
<1>9. CASE strategy.presampling \in Balanced
  <2>1. draw \in {<<T, complete>> : T \in BalancedDraws(S, Column(seen), target, strategy.force)}
    BY <1>4, <1>9 DEF PresamplingDraws, Balanced
  <2>2. PICK T \in BalancedDraws(S, Column(seen), target, strategy.force) : draw = <<T, complete>>
    BY <2>1
  <2>3. /\ Cardinality(T) <= target
        /\ strategy.force = "balancing" =>
             \A j, k \in S : OfClass(T, Column(seen), Column(seen)[j]) = OfClass(T, Column(seen), Column(seen)[k])
    BY <1>2, <1>3, BalancedCount
  <2>4. strategy.presampling = "LabelBalanced" => Column(seen) = Label
    BY DEF Column
  <2> QED BY <1>5, <1>9, <2>2, <2>3, <2>4
<1> QED BY <1>1, <1>6, <1>7, <1>8, <1>9 DEF Balanced

LEMMA OutcomeAsConfigured ==
  ASSUME TypeOK, strategy.name = "CoresetStrategy", NEW S \in SUBSET (1 .. MaxSamples),
         NEW seen, NEW p, NEW next,
         strategy.presampling = "RandomNoReplacement" => \A k \in S : last_used_in_trigger[k] < next,
         NEW outcome \in Outcomes(S, seen, p, next)
  PROVE  AsConfigured(strategy, limit, S, Together(outcome.partitions))
<1> DEFINE target == TargetSize(Cardinality(S), strategy.ratio, limit)
           complete == last_complete_trigger[p]
           m == maximum_keys_in_memory
<1>1. PICK draw \in PresamplingDraws(S, seen, target, complete, next) :
        outcome = Outcome(ChunksByAge(draw[1], m), draw[2])
  BY DEF Outcomes, CoresetOutcomes, TriggerDatasetSize
<1>2. AsConfigured(strategy, limit, S, draw[1])
  BY DrawAsConfigured
<1>3. MaxSamples \in Nat /\ m \in Nat \ {0} /\ limit \in Nat /\ strategy.ratio \in Nat
  BY Configured
<1>4. IsFiniteSet(S) /\ S \in SUBSET Nat /\ Cardinality(S) \in Nat
  BY <1>3, NaturalsFinite
<1>5. target \in Int
  BY <1>3, <1>4, TargetIsNumber
<1> HIDE DEF target
<1>6. draw[1] \subseteq S
  BY <1>4, <1>5, PresamplingDraw
<1>7. IsFiniteSet(draw[1]) /\ draw[1] \in SUBSET Nat
  BY <1>4, <1>6, FS_Subset
<1>8. outcome.partitions = ChunksByAge(draw[1], m)
  BY <1>1 DEF Outcome
<1>9. Together(outcome.partitions) = draw[1]
  BY <1>3, <1>7, <1>8, ByAgeSplits
<1> QED BY <1>2, <1>9
-----------------------------------------------------------------------------
(* The rows.  What a request stores and loses is its own samples.          *)
LEMMA ShareOfRequest ==
  ASSUME TypeOK, NEW n \in Nat, NEW i \in 1 .. insertion_threads
  PROVE  ShareOfProcess(i, n) \subseteq informed + 1 .. informed + n
<1> DEFINE c == n \div insertion_threads
           a == (i - 1) * c
           b == i * c
<1>1. insertion_threads \in Nat \ {0} /\ informed \in Nat
  BY SelectorAssumption DEF TypeOK
<1>2. a \in Nat /\ b \in Nat /\ a <= n /\ b <= n
  BY <1>1, SharesWithin
<1>3. ShareOfProcess(i, n) = informed + a + 1 .. informed + (IF i < insertion_threads THEN b ELSE n)
  BY DEF ShareOfProcess
<1> HIDE DEF a, b
<1> QED BY <1>1, <1>2, <1>3

LEMMA Persisted ==
  ASSUME TypeOK, NEW n \in Nat, PersistSamples(n)
  PROVE  /\ informed' \in 0 .. MaxSamples /\ informed' = informed + n /\ informed \in Nat
         /\ lost \subseteq lost' /\ lost' \ lost \subseteq informed + 1 .. informed'
         /\ lost \subseteq 1 .. informed /\ lost' \subseteq 1 .. informed'
         /\ failed_insertions' \in 0 .. MaxFailedInsertions
         /\ rows' = rows \cup {<<k, NextTriggerId(connection)>> :
                                 k \in (informed + 1 .. informed') \ (lost' \ lost)}
<1>1. /\ informed \in 0 .. MaxSamples /\ MaxSamples \in Nat /\ lost \subseteq 1 .. informed
      /\ failed_insertions \in 0 .. MaxFailedInsertions /\ MaxFailedInsertions \in Nat
      /\ insertion_threads \in Nat
  BY SelectorAssumption DEF TypeOK
<1>2. informed + n <= MaxSamples /\ informed' = informed + n
  BY DEF PersistSamples
<1>3. PICK failing \in {{}} \cup {{i} : i \in {j \in 1 .. insertion_threads :
                                       failed_insertions < MaxFailedInsertions
                                         /\ ShareOfProcess(j, n) # {}}} :
        /\ failed_insertions' = failed_insertions + Cardinality(failing)
        /\ lost' = lost \cup UNION {ShareOfProcess(i, n) : i \in failing}
        /\ rows' = rows \cup {<<k, NextTriggerId(connection)>> :
                                k \in (informed + 1 .. informed') \ (lost' \ lost)}
  BY DEF PersistSamples
<1>4. failing \subseteq 1 .. insertion_threads
  BY <1>3
<1>5. UNION {ShareOfProcess(i, n) : i \in failing} \subseteq informed + 1 .. informed'
  BY <1>2, <1>4, ShareOfRequest
<1>6. failed_insertions' \in 0 .. MaxFailedInsertions
  <2>1. CASE failing = {}
    <3>1. Cardinality({}) = 0
      BY FS_EmptySet
    <3> QED BY <1>1, <1>3, <2>1, <3>1
  <2>2. CASE \E i : failing = {i}
    <3>1. PICK i : failing = {i}
      BY <2>2
    <3>2. Cardinality(failing) = 1
      BY <3>1, FS_Singleton
    <3>3. failing # {}
      BY <3>1
    <3>4. failed_insertions < MaxFailedInsertions
      BY <1>3, <3>3
    <3> QED BY <1>1, <1>3, <3>2, <3>4
  <2> QED BY <1>3, <2>1, <2>2
<1>7. lost \subseteq lost' /\ lost' \ lost \subseteq informed + 1 .. informed'
  BY <1>3, <1>5
<1>8. lost' \subseteq 1 .. informed'
  BY <1>1, <1>2, <1>7
<1> QED BY <1>1, <1>2, <1>3, <1>6, <1>7, <1>8

LEMMA RowsPersisted ==
  ASSUME TypeOK, HistoryInv, RowsAre(rows, Kept, informed_until),
         NextTriggerId(connection) = Len(triggers), NEW n \in Nat, PersistSamples(n)
  PROVE  RowsAre(rows', (1 .. informed') \ lost', informed_until)
<1> DEFINE new == (informed + 1 .. informed') \ (lost' \ lost)
           L == Len(triggers)
<1>1. /\ informed' = informed + n /\ informed \in Nat /\ lost \subseteq lost'
      /\ lost \subseteq 1 .. informed /\ lost' \ lost \subseteq informed + 1 .. informed'
      /\ rows' = rows \cup {<<k, L>> : k \in new}
  BY Persisted
<1>2. L \in Nat /\ Len(informed_until) = L /\ \A id \in 1 .. L : informed_until[id] \in Nat
  <2>1. informed_until \in Seq(0 .. MaxSamples) /\ Len(informed_until) = L
    BY DEF TypeOK, HistoryInv
  <2>2. MaxSamples \in Nat
    BY Configured
  <2> HIDE DEF L
  <2> QED BY <2>1, <2>2
<1>3. \A id \in 1 .. L : informed_until[id] <= informed
  BY DEF HistoryInv
<1>4. (1 .. informed') \ lost' = Kept \cup new
  BY <1>1 DEF Kept
<1>5. {r[1] : r \in rows'} = Kept \cup new
  <2>1. {r[1] : r \in rows} = Kept
    BY DEF RowsAre
  <2>2. {r[1] : r \in {<<k, L>> : k \in new}} = new
    <3> HIDE DEF new, L
    <3>1. \A k \in new : <<k, L>>[1] = k
      OBVIOUS
    <3> QED BY <3>1
  <2>3. {r[1] : r \in rows'} = {r[1] : r \in rows} \cup {r[1] : r \in {<<k, L>> : k \in new}}
    BY <1>1
  <2> QED BY <2>1, <2>2, <2>3
<1>6. ASSUME NEW r \in rows'
      PROVE  /\ r[2] \in 0 .. L
             /\ \A id \in 1 .. r[2] : informed_until[id] < r[1]
             /\ \A id \in r[2] + 1 .. L : r[1] <= informed_until[id]
  <2>1. CASE r \in rows
    BY <1>2, <2>1 DEF RowsAre
  <2>2. CASE r \in {<<k, L>> : k \in new}
    <3>1. PICK k \in new : r = <<k, L>>
      BY <2>2
    <3>2. k \in Nat /\ informed < k
      BY <1>1
    <3> QED BY <1>1, <1>2, <1>3, <3>1, <3>2
  <2> QED BY <1>1, <2>1, <2>2
<1> QED BY <1>2, <1>4, <1>5, <1>6 DEF RowsAre

LEMMA RowsTriggered ==
  ASSUME NEW n \in Nat, NEW until \in Seq(Nat), NEW rs, NEW kept \in SUBSET (1 .. n),
         RowsAre(rs, kept, until)
  PROVE  RowsAre(rs, kept, Append(until, n))
<1> DEFINE L == Len(until)
           u == Append(until, n)
<1>1. L \in Nat /\ Len(u) = L + 1 /\ u[L + 1] = n /\ \A id \in 1 .. L : u[id] = until[id]
  OBVIOUS
<1>2. \A r \in rs : r[1] \in kept /\ r[1] <= n
  <2>1. {r[1] : r \in rs} = kept
    BY DEF RowsAre
  <2>2. \A k \in kept : k <= n
    OBVIOUS
  <2> QED BY <2>1, <2>2
<1> HIDE DEF u
<1>3. ASSUME NEW r \in rs
      PROVE  /\ r[2] \in 0 .. Len(u)
             /\ \A id \in 1 .. r[2] : u[id] < r[1]
             /\ \A id \in r[2] + 1 .. Len(u) : r[1] <= u[id]
  <2>1. /\ r[2] \in 0 .. L
        /\ \A id \in 1 .. r[2] : until[id] < r[1]
        /\ \A id \in r[2] + 1 .. L : r[1] <= until[id]
    BY DEF RowsAre
  <2>2. r[2] \in 0 .. Len(u) /\ \A id \in 1 .. r[2] : u[id] < r[1]
    BY <1>1, <2>1
  <2>3. ASSUME NEW id \in r[2] + 1 .. Len(u) PROVE r[1] <= u[id]
    <3>1. id = L + 1 \/ id \in r[2] + 1 .. L
      BY <1>1, <2>1
    <3> QED BY <1>1, <1>2, <2>1, <3>1
  <2> QED BY <2>2, <2>3
<1> QED BY <1>3 DEF RowsAre, u

(* What the strategy selects from is what the policy promises.             *)
LEMMA CandidatesPromised ==
  ASSUME TypeOK, NEW n \in Nat, NEW until \in Seq(Nat), NEW rs, NEW gone,
         RowsAre(rs, (1 .. n) \ gone, until)
  PROVE  LET before == IF tail = AllData THEN 0 ELSE Len(until) - tail
         IN Candidates(rs, Len(until)) =
              ((IF before <= 0 THEN 1 ELSE until[before] + 1) .. n) \ gone
<1> DEFINE L == Len(until)
           before == IF tail = AllData THEN 0 ELSE L - tail
           P == ((IF before <= 0 THEN 1 ELSE until[before] + 1) .. n) \ gone
<1>1. L \in Nat /\ (tail = AllData \/ tail \in Nat) /\ AllData \notin Nat
  BY Configured
<1>2. \A id \in 1 .. L : until[id] \in Nat
  OBVIOUS
<1>3. /\ {r[1] : r \in rs} = (1 .. n) \ gone
      /\ \A r \in rs : /\ r[2] \in 0 .. L
                       /\ \A id \in 1 .. r[2] : until[id] < r[1]
                       /\ \A id \in r[2] + 1 .. L : r[1] <= until[id]
  BY DEF RowsAre
<1>4. /\ before \in Int /\ (tail = AllData => before = 0) /\ (tail # AllData => before = L - tail)
      /\ before <= 0 \/ before \in 1 .. L
  BY <1>1
<1> HIDE DEF before
<1>5. ASSUME NEW r \in rs PROVE SeenIn(r[2], L) <=> r[1] \in P
  <2>1. r[1] \in (1 .. n) \ gone /\ r[2] \in 0 .. L
    BY <1>3
  <2>2. SeenIn(r[2], L) <=> r[2] >= before
    <3>1. CASE tail = AllData
      BY <1>1, <1>4, <2>1, <3>1 DEF SeenIn
    <3>2. CASE tail # AllData /\ tail = 0 /\ strategy.name = "NewDataStrategy"
      BY <1>1, <1>4, <2>1, <3>2 DEF SeenIn
    <3>3. CASE tail # AllData /\ ~(tail = 0 /\ strategy.name = "NewDataStrategy")
      BY <1>1, <1>4, <2>1, <3>3 DEF SeenIn
    <3> QED BY <3>1, <3>2, <3>3
  <2>3. CASE before <= 0
    BY <1>1, <1>4, <2>1, <2>2, <2>3
  <2>4. CASE before > 0
    <3>1. before \in 1 .. L
      BY <1>1, <1>4, <2>4
    <3>2. r[2] >= before => until[before] < r[1]
      BY <1>3, <2>1, <3>1
    <3>3. r[2] < before => r[1] <= until[before]
      BY <1>3, <2>1, <3>1
    <3> QED BY <1>2, <2>1, <2>2, <2>4, <3>1, <3>2, <3>3
  <2> QED BY <1>4, <2>3, <2>4
<1>6. P \subseteq (1 .. n) \ gone
  BY <1>1, <1>2, <1>4
<1>7. Candidates(rs, L) = {r[1] : r \in {q \in rs : q[1] \in P}}
  BY <1>5 DEF Candidates
<1> HIDE DEF P
<1> QED BY <1>3, <1>6, <1>7 DEF P, before
-----------------------------------------------------------------------------
(* Types.                                                                  *)
LEMMA NextIdTyped ==
  ASSUME TypeOK, NEW p \in Processes
  PROVE  NextTriggerId(p) \in 0 .. MaxTriggers /\ Len(triggers) \in 0 .. MaxTriggers
         /\ MaxTriggers \in Nat \ {0}
<1>1. next_trigger_id[p] \in 0 .. MaxTriggers
  BY DEF TypeOK
<1>2. Len(triggers) \in Nat
  <2>1. triggers \in Seq(Seq(SUBSET (1 .. MaxSamples)))
    BY DEF TypeOK
  <2> QED BY <2>1
<1>3. Len(triggers) <= MaxTriggers /\ MaxTriggers \in Nat \ {0}
  BY SelectorAssumption DEF TypeOK
<1> QED BY <1>1, <1>2, <1>3 DEF NextTriggerId

(* A process that serves a request knows its next trigger as before.       *)
LEMMA Populated ==
  ASSUME TypeOK, NEW p \in Processes, Populate(p)
  PROVE  /\ selectors' \subseteq Processes /\ next_trigger_id' \in [Processes -> 0 .. MaxTriggers]
         /\ p \in selectors' /\ next_trigger_id'[p] = NextTriggerId(p)
         /\ \A q \in Processes :
              (IF q \in selectors' THEN next_trigger_id'[q] ELSE Len(triggers)) = NextTriggerId(q)
<1>1. selectors \subseteq Processes /\ next_trigger_id \in [Processes -> 0 .. MaxTriggers]
  BY DEF TypeOK
<1>2. selectors' = selectors \cup {p}
      /\ next_trigger_id' = [next_trigger_id EXCEPT ![p] = NextTriggerId(p)]
  BY DEF Populate
<1>3. \A q \in Processes : NextTriggerId(q) = IF q \in selectors THEN next_trigger_id[q] ELSE Len(triggers)
  BY DEF NextTriggerId
<1>4. NextTriggerId(p) \in 0 .. MaxTriggers
  BY NextIdTyped
<1> QED BY <1>1, <1>2, <1>3, <1>4

LEMMA RowsTyped ==
  ASSUME TypeOK, NEW n \in Nat, PersistSamples(n)
  PROVE  rows' \subseteq (1 .. MaxSamples) \X (0 .. MaxTriggers)
<1>1. /\ informed' \in 0 .. MaxSamples /\ informed \in Nat
      /\ rows' = rows \cup {<<k, NextTriggerId(connection)>> :
                              k \in (informed + 1 .. informed') \ (lost' \ lost)}
  BY Persisted
<1>2. NextTriggerId(connection) \in 0 .. MaxTriggers
  BY NextIdTyped DEF TypeOK
<1>3. MaxSamples \in Nat
  BY Configured
<1>4. rows \subseteq (1 .. MaxSamples) \X (0 .. MaxTriggers)
  BY DEF TypeOK
<1>5. \A k \in (informed + 1 .. informed') \ (lost' \ lost) : k \in 1 .. MaxSamples
  BY <1>1, <1>3
<1> QED BY <1>1, <1>2, <1>4, <1>5

(* A trigger that is created is the next one, with an outcome of its       *)
(* strategy.                                                               *)
LEMMA Triggered ==
  ASSUME TypeOK, NEW n \in 0 .. MaxBatch, InformDataAndTrigger(n)
  PROVE  /\ NextTriggerId(connection) = Len(triggers) /\ Len(triggers) < MaxTriggers
         /\ PersistSamples(n) /\ n \in Nat /\ phase = "informing"
         /\ Candidates(rows', Len(triggers)) \in SUBSET (1 .. MaxSamples)
         /\ informed_until' = Append(informed_until, informed')
         /\ \E outcome \in Outcomes(Candidates(rows', Len(triggers)), rows', connection, Len(triggers)) :
              /\ CreateTrigger(connection, outcome, n)
              /\ triggers' = Append(triggers, outcome.partitions)
              /\ outcome.partitions \in Seq(SUBSET (1 .. MaxSamples))
<1> DEFINE L == Len(triggers)
           S == Candidates(rows', L)
<1>1. /\ phase = "informing" /\ L < MaxTriggers /\ PersistSamples(n)
      /\ TriggerIdFree(NextTriggerId(connection))
      /\ \E outcome \in Outcomes(Candidates(rows', NextTriggerId(connection)), rows', connection,
                                 NextTriggerId(connection)) :
           CreateTrigger(connection, outcome, n)
  BY DEF InformDataAndTrigger
<1>2. NextTriggerId(connection) = L
  BY <1>1 DEF TriggerIdFree
<1>3. n \in Nat
  BY SelectorAssumption
<1>4. S \in SUBSET (1 .. MaxSamples)
  <2>1. rows' \subseteq (1 .. MaxSamples) \X (0 .. MaxTriggers)
    BY <1>1, <1>3, RowsTyped
  <2> QED BY <2>1 DEF Candidates
<1>5. PICK outcome \in Outcomes(S, rows', connection, L) : CreateTrigger(connection, outcome, n)
  BY <1>1, <1>2
<1> HIDE DEF S
<1>6. connection \in Processes
  BY DEF TypeOK
<1>7. outcome.partitions \in Seq(SUBSET (1 .. MaxSamples))
  <2>1. Splits(outcome.partitions, S \cup used, Room)
    <3>1. Expected(outcome, S, connection, Len(triggers))
      BY <1>4, <1>5, <1>6, OutcomeOfTrigger
    <3> QED BY <3>1 DEF Expected
  <2>2. S \cup used \subseteq 1 .. MaxSamples
    BY <1>4 DEF TypeOK
  <2>3. outcome.partitions \in Seq(SUBSET (S \cup used))
    BY <2>1 DEF Splits
  <2> QED BY <2>2, <2>3
<1>8. triggers' = Append(triggers, outcome.partitions)
  <2>1. triggers' = [i \in 1 .. IF L < L THEN L ELSE L + 1 |->
                       IF i = L + 1 THEN outcome.partitions ELSE triggers[i]]
    BY <1>2, <1>5 DEF CreateTrigger, StoreTriggerSamples
  <2>2. triggers \in Seq(Seq(SUBSET (1 .. MaxSamples)))
    BY DEF TypeOK
  <2>3. L \in Nat /\ ~(L < L)
    BY <2>2
  <2>4. triggers' = [i \in 1 .. L + 1 |-> IF i = L + 1 THEN outcome.partitions ELSE triggers[i]]
    BY <2>1, <2>3
  <2> HIDE DEF L
  <2>5. Append(triggers, outcome.partitions)
          = [i \in 1 .. L + 1 |-> IF i = L + 1 THEN outcome.partitions ELSE triggers[i]]
    BY <2>2, <2>3 DEF L
  <2> QED BY <2>4, <2>5
<1>9. informed_until' = Append(informed_until, informed')
  <2>1. informed_until' = Append(informed_until, informed + n)
    BY <1>5 DEF CreateTrigger
  <2>2. informed' = informed + n
    BY <1>1 DEF PersistSamples
  <2> QED BY <2>1, <2>2
<1> QED BY <1>1, <1>2, <1>3, <1>4, <1>5, <1>7, <1>8, <1>9 DEF S
LEMMA NumKeysIs ==
  ASSUME NEW n \in Nat, NEW ps \in Seq(SUBSET (1 .. n))
  PROVE  /\ Together(ps) \in SUBSET (1 .. n) /\ NumKeys(ps) = Cardinality(Together(ps))
         /\ NumKeys(ps) \in Nat
<1>1. Together(ps) \in SUBSET (1 .. n)
  BY DEF Together
<1>2. NumKeys(ps) = Cardinality(Together(ps))
  BY DEF NumKeys, Together
<1>3. Cardinality(Together(ps)) \in Nat
  BY <1>1, NaturalsFinite
<1> QED BY <1>1, <1>2, <1>3

Served == <<config, data, marks, triggers, link, phase, trigger_cache,
            current_keys_in_cache, downsampler_index, rounds, informed_until>>
Answered(p) ==
  /\ phase = "training" /\ Populate(p) /\ UNCHANGED Served
  /\ \/ response' = SizesAnswer(p, Len(triggers) - 1)
     \/ response' = SamplesAnswer(p, Len(triggers) - 1)
     \/ response' = LabelsAnswer(p)
     \/ response' = StrategyAnswer(p)

(* The steps of the selector, the four requests of a training as one.      *)
LEMMA StepsOfNext ==
  ASSUME Next
  PROVE  \/ \E n \in 1 .. MaxBatch : InformData(n)
         \/ \E n \in 0 .. MaxBatch :
              InformDataAndTrigger(n) \/ InformDataAndTriggerFails(n) \/ TriggerFails(n)
         \/ \E p \in Processes : Answered(p)
         \/ EndTraining \/ Reconnect \/ Restart
BY DEF Next, GetSizes, GetSamples, GetAvailableLabels, GetSelectionStrategy, Answered, Served

(* The index of the downsampler.                                           *)
LEMMA IndexTyped ==
  ASSUME NEW index \in 0 .. Len(Thresholds), NEW next \in Nat
  PROVE  InformNextTrigger(index, next) \in 0 .. Len(Thresholds)
<1>1. Len(Thresholds) \in Nat
  BY SelectorAssumption
<1> QED BY <1>1 DEF InformNextTrigger

LEMMA TypeOfTrigger ==
  ASSUME TypeOK, NEW n \in 0 .. MaxBatch, InformDataAndTrigger(n)
  PROVE  TypeOK'
<1> DEFINE p == connection
           L == Len(triggers)
           S == Candidates(rows', L)
<1>1. /\ NextTriggerId(p) = L /\ L < MaxTriggers /\ PersistSamples(n) /\ n \in Nat
      /\ S \in SUBSET (1 .. MaxSamples)
      /\ informed_until' = Append(informed_until, informed')
      /\ \E outcome \in Outcomes(S, rows', p, L) :
           /\ CreateTrigger(p, outcome, n)
           /\ triggers' = Append(triggers, outcome.partitions)
           /\ outcome.partitions \in Seq(SUBSET (1 .. MaxSamples))
  BY Triggered
<1>2. PICK outcome \in Outcomes(S, rows', p, L) :
           /\ CreateTrigger(p, outcome, n)
           /\ triggers' = Append(triggers, outcome.partitions)
           /\ outcome.partitions \in Seq(SUBSET (1 .. MaxSamples))
  BY <1>1
<1> DEFINE ps == outcome.partitions
           k == NumKeys(ps)
           drawn == UNION {outcome.partitions[i] : i \in DOMAIN outcome.partitions}
<1>3. UNCHANGED <<config, link, response>>
  BY DEF InformDataAndTrigger
<1>4. p \in Processes
  BY DEF TypeOK
<1>5. MaxSamples \in Nat /\ L \in 0 .. MaxTriggers /\ MaxTriggers \in Nat \ {0}
  BY <1>4, Configured, NextIdTyped
<1>6. drawn \in SUBSET (1 .. MaxSamples) /\ k \in Nat
  BY <1>2, <1>5, NumKeysIs DEF Together
<1>7. outcome.complete \in {0, last_complete_trigger[p], L}
  <2>1. Expected(outcome, S, p, L)
    BY <1>1, <1>2, <1>4, OutcomeOfTrigger
  <2> QED BY <2>1 DEF Expected
<1>8. /\ informed' \in 0 .. MaxSamples /\ lost' \subseteq 1 .. informed'
      /\ failed_insertions' \in 0 .. MaxFailedInsertions
      /\ rows' \subseteq (1 .. MaxSamples) \X (0 .. MaxTriggers)
  BY <1>1, Persisted, RowsTyped
<1>9. /\ selectors' = selectors \cup {p}
      /\ next_trigger_id' = [next_trigger_id EXCEPT ![p] = L + 1]
      /\ downsampler_index' = [downsampler_index EXCEPT ![p] = InformNextTrigger(downsampler_index[p], L + 1)]
      /\ is_first_trigger' = [is_first_trigger EXCEPT
                                ![p] = is_first_trigger[p] /\ strategy.name # "FreshnessSamplingStrategy"]
      /\ last_complete_trigger' = [last_complete_trigger EXCEPT ![p] = outcome.complete]
      /\ MarkUsed(drawn)
      /\ UpdateLastUsed(drawn, L)
      /\ IF Fits(p, k)
           THEN /\ trigger_cache' = [trigger_cache EXCEPT ![p] = trigger_cache[p] \cup {L}]
                /\ current_keys_in_cache' =
                     [current_keys_in_cache EXCEPT ![p] = current_keys_in_cache[p] + k]
           ELSE UNCHANGED <<trigger_cache, current_keys_in_cache>>
      /\ phase' = IF k > 0 THEN "training" ELSE "informing"
  BY <1>1, <1>2 DEF CreateTrigger
<1> HIDE DEF S, ps, k, drawn, L
<1>10. triggers' \in Seq(Seq(SUBSET (1 .. MaxSamples))) /\ Len(triggers') <= MaxTriggers
  <2>1. triggers \in Seq(Seq(SUBSET (1 .. MaxSamples)))
    BY DEF TypeOK
  <2>2. triggers' = Append(triggers, outcome.partitions) /\ L + 1 <= MaxTriggers
    BY <1>1, <1>2, <1>5
  <2> QED BY <1>2, <2>1, <2>2 DEF L
<1>11. informed_until' \in Seq(0 .. MaxSamples)
  BY <1>1, <1>8 DEF TypeOK
<1>12. downsampler_index' \in [Processes -> 0 .. Len(Thresholds)]
  <2>1. downsampler_index \in [Processes -> 0 .. Len(Thresholds)]
    BY DEF TypeOK
  <2>2. InformNextTrigger(downsampler_index[p], L + 1) \in 0 .. Len(Thresholds)
    <3>1. downsampler_index[p] \in 0 .. Len(Thresholds) /\ L + 1 \in Nat
      BY <1>4, <1>5, <2>1
    <3> QED BY <3>1, IndexTyped
  <2> QED BY <1>9, <2>1, <2>2
<1>13. current_keys_in_cache' \in [Processes -> 0 .. keys_in_selector_cache]
       /\ trigger_cache' \in [Processes -> SUBSET (0 .. MaxTriggers - 1)]
  <2>1. current_keys_in_cache \in [Processes -> 0 .. keys_in_selector_cache]
        /\ trigger_cache \in [Processes -> SUBSET (0 .. MaxTriggers - 1)] /\ keys_in_selector_cache \in Nat
    BY SelectorAssumption DEF TypeOK
  <2>2. L \in 0 .. MaxTriggers - 1
    BY <1>1, <1>5
  <2>3. CASE Fits(p, k)
    <3>1. current_keys_in_cache[p] + k \in 0 .. keys_in_selector_cache
      BY <1>4, <1>6, <2>1, <2>3 DEF Fits
    <3> QED BY <1>9, <2>1, <2>2, <2>3, <3>1
  <2>4. CASE ~Fits(p, k)
    BY <1>9, <2>1, <2>4
  <2> QED BY <2>3, <2>4
<1>14. used' \subseteq 1 .. MaxSamples
       /\ last_used_in_trigger' \in [1 .. MaxSamples -> -1 .. MaxTriggers - 1]
  <2>1. used \subseteq 1 .. MaxSamples
        /\ last_used_in_trigger \in [1 .. MaxSamples -> -1 .. MaxTriggers - 1]
    BY DEF TypeOK
  <2>2. L \in -1 .. MaxTriggers - 1
    BY <1>1, <1>5
  <2>3. used' \subseteq 1 .. MaxSamples
    BY <1>6, <1>9, <2>1 DEF MarkUsed
  <2>4. last_used_in_trigger' \in [1 .. MaxSamples -> -1 .. MaxTriggers - 1]
    BY <1>9, <2>1, <2>2 DEF UpdateLastUsed
  <2> QED BY <2>3, <2>4
<1>15. /\ next_trigger_id' \in [Processes -> 0 .. MaxTriggers] /\ selectors' \subseteq Processes
       /\ last_complete_trigger' \in [Processes -> 0 .. MaxTriggers - 1]
  <2>1. /\ next_trigger_id \in [Processes -> 0 .. MaxTriggers] /\ selectors \subseteq Processes
        /\ last_complete_trigger \in [Processes -> 0 .. MaxTriggers - 1]
    BY DEF TypeOK
  <2>2. L + 1 \in 0 .. MaxTriggers /\ L \in 0 .. MaxTriggers - 1 /\ 0 \in 0 .. MaxTriggers - 1
    BY <1>1, <1>5
  <2>3. outcome.complete \in 0 .. MaxTriggers - 1
    BY <1>4, <1>7, <2>1, <2>2 DEF L
  <2> QED BY <1>4, <1>9, <2>1, <2>2, <2>3
<1>16. is_first_trigger' \in [Processes -> BOOLEAN]
  <2>1. is_first_trigger \in [Processes -> BOOLEAN]
    BY DEF TypeOK
  <2> QED BY <1>9, <2>1
<1>17. /\ strategy' \in Strategies /\ tail' \in Tails \cup {AllData} /\ limit' \in Limits
       /\ connection' \in Processes /\ reconnects' \in 0 .. MaxReconnects
       /\ phase' \in {"informing", "training", "failed"}
       /\ response'.kind \in {"none", "sizes", "samples", "labels", "strategy"}
  BY <1>3, <1>9 DEF TypeOK, config, link
<1> QED BY <1>8, <1>10, <1>11, <1>12, <1>13, <1>14, <1>15, <1>16, <1>17 DEF TypeOK

LEMMA TypeStep ==
  ASSUME TypeOK, [Next]_vars
  PROVE  TypeOK'
<1>1. connection \in Processes
  BY DEF TypeOK
<1>2. ASSUME NEW n \in 1 .. MaxBatch, InformData(n) PROVE TypeOK'
  <2>1. /\ PersistSamples(n) /\ Populate(connection)
        /\ UNCHANGED <<config, marks, triggers, link, phase, trigger_cache,
                       current_keys_in_cache, downsampler_index, rounds, response, informed_until>>
    BY <1>2 DEF InformData
  <2>2. /\ informed' \in 0 .. MaxSamples /\ lost' \subseteq 1 .. informed'
        /\ failed_insertions' \in 0 .. MaxFailedInsertions
        /\ rows' \subseteq (1 .. MaxSamples) \X (0 .. MaxTriggers)
    BY <2>1, SelectorAssumption, Persisted, RowsTyped
  <2>3. selectors' \subseteq Processes /\ next_trigger_id' \in [Processes -> 0 .. MaxTriggers]
    BY <1>1, <2>1, Populated
  <2> QED BY <2>1, <2>2, <2>3 DEF TypeOK, config, marks, link, rounds
<1>3. ASSUME NEW n \in 0 .. MaxBatch, InformDataAndTriggerFails(n) PROVE TypeOK'
  <2>1. /\ PersistSamples(n) /\ phase' = "failed"
        /\ UNCHANGED <<config, marks, triggers, link, local, response, informed_until>>
    BY <1>3 DEF InformDataAndTriggerFails
  <2>2. /\ informed' \in 0 .. MaxSamples /\ lost' \subseteq 1 .. informed'
        /\ failed_insertions' \in 0 .. MaxFailedInsertions
        /\ rows' \subseteq (1 .. MaxSamples) \X (0 .. MaxTriggers)
    BY <2>1, SelectorAssumption, Persisted, RowsTyped
  <2> QED BY <2>1, <2>2 DEF TypeOK, config, marks, link, local, rounds
<1>4. ASSUME NEW n \in 0 .. MaxBatch, TriggerFails(n) PROVE TypeOK'
  <2>1. /\ PersistSamples(n) /\ phase' = "failed" /\ Populate(connection)
        /\ Len(triggers) < MaxTriggers
        /\ triggers' = Append(triggers, <<>>) /\ informed_until' = Append(informed_until, informed + n)
        /\ UNCHANGED <<config, marks, link, trigger_cache, current_keys_in_cache,
                       downsampler_index, rounds, response>>
    BY <1>4 DEF TriggerFails
  <2>2. /\ informed' \in 0 .. MaxSamples /\ lost' \subseteq 1 .. informed'
        /\ failed_insertions' \in 0 .. MaxFailedInsertions
        /\ rows' \subseteq (1 .. MaxSamples) \X (0 .. MaxTriggers) /\ informed' = informed + n
    BY <2>1, SelectorAssumption, Persisted, RowsTyped
  <2>3. selectors' \subseteq Processes /\ next_trigger_id' \in [Processes -> 0 .. MaxTriggers]
    BY <1>1, <2>1, Populated
  <2>4. triggers' \in Seq(Seq(SUBSET (1 .. MaxSamples))) /\ Len(triggers') <= MaxTriggers
    <3>1. triggers \in Seq(Seq(SUBSET (1 .. MaxSamples)))
      BY DEF TypeOK
    <3>2. <<>> \in Seq(SUBSET (1 .. MaxSamples)) /\ MaxTriggers \in Nat
      BY SelectorAssumption
    <3>3. triggers' \in Seq(Seq(SUBSET (1 .. MaxSamples))) /\ Len(triggers') = Len(triggers) + 1
          /\ Len(triggers) \in Nat
      BY <2>1, <3>1, <3>2
    <3> QED BY <2>1, <3>2, <3>3
  <2>5. informed_until' \in Seq(0 .. MaxSamples)
    BY <2>1, <2>2 DEF TypeOK
  <2> QED BY <2>1, <2>2, <2>3, <2>4, <2>5 DEF TypeOK, config, marks, link, rounds
<1>5. ASSUME NEW p \in Processes, Answered(p) PROVE TypeOK'
  <2>1. Populate(p) /\ UNCHANGED Served
    BY <1>5 DEF Answered
  <2>2. selectors' \subseteq Processes /\ next_trigger_id' \in [Processes -> 0 .. MaxTriggers]
    BY <2>1, Populated
  <2>3. response'.kind \in {"none", "sizes", "samples", "labels", "strategy"}
    BY <1>5 DEF Answered, SizesAnswer, SamplesAnswer, LabelsAnswer, StrategyAnswer
  <2> QED BY <2>1, <2>2, <2>3 DEF TypeOK, Served, config, data, marks, link, rounds
<1>6. CASE EndTraining
  BY <1>6 DEF TypeOK, EndTraining, NoResponse, config, data, marks, link, local, rounds
<1>7. CASE Reconnect
  <2>1. reconnects' \in 0 .. MaxReconnects
    BY <1>7, SelectorAssumption DEF Reconnect, TypeOK
  <2> QED BY <1>7, <2>1 DEF TypeOK, Reconnect, config, data, marks, local, rounds
<1>8. CASE Restart
  <2>1. reconnects' \in 0 .. MaxReconnects
    BY <1>8, SelectorAssumption DEF Restart, TypeOK
  <2>2. 0 \in 0 .. MaxTriggers /\ 0 \in 0 .. MaxTriggers - 1 /\ 0 \in 0 .. keys_in_selector_cache
        /\ 0 \in 0 .. Len(Thresholds)
    BY SelectorAssumption
  <2> QED BY <1>8, <2>1, <2>2 DEF TypeOK, Restart, config, data, marks
<1>9. CASE UNCHANGED vars
  BY <1>9 DEF TypeOK, vars, config, data, marks, link, local, rounds
<1> QED BY <1>2, <1>3, <1>4, <1>5, <1>6, <1>7, <1>8, <1>9, TypeOfTrigger, StepsOfNext
-----------------------------------------------------------------------------
(* A step may create the next trigger and lose samples it is informed of;  *)
(* what the earlier triggers drew and were promised stays.                 *)
Keeps ==
  /\ UNCHANGED config /\ lost \subseteq lost' /\ lost' \ lost \subseteq informed + 1 .. informed'
  /\ informed <= informed' /\ informed' \in Nat
  /\ \/ UNCHANGED <<triggers, informed_until>>
     \/ /\ \E ps \in Seq(SUBSET (1 .. MaxSamples)) : triggers' = Append(triggers, ps)
        /\ informed_until' = Append(informed_until, informed')

LEMMA StepKeeps ==
  ASSUME TypeOK, [Next]_vars
  PROVE  Keeps
<1>1. informed \in Nat /\ lost \subseteq 1 .. informed
  BY SelectorAssumption DEF TypeOK
<1>2. ASSUME UNCHANGED <<config, data, triggers, informed_until>> PROVE Keeps
  BY <1>1, <1>2 DEF Keeps, data
<1>3. ASSUME NEW n \in Nat, PersistSamples(n)
      PROVE  /\ lost \subseteq lost' /\ lost' \ lost \subseteq informed + 1 .. informed'
             /\ informed <= informed' /\ informed' \in Nat /\ informed' = informed + n
  BY <1>1, <1>3, Persisted
<1>4. ASSUME NEW n \in 1 .. MaxBatch, InformData(n) PROVE Keeps
  <2>1. PersistSamples(n) /\ UNCHANGED <<config, triggers, informed_until>> /\ n \in Nat
    BY <1>4, SelectorAssumption DEF InformData
  <2> QED BY <1>3, <2>1 DEF Keeps
<1>5. ASSUME NEW n \in 0 .. MaxBatch, InformDataAndTriggerFails(n) PROVE Keeps
  <2>1. PersistSamples(n) /\ UNCHANGED <<config, triggers, informed_until>> /\ n \in Nat
    BY <1>5, SelectorAssumption DEF InformDataAndTriggerFails
  <2> QED BY <1>3, <2>1 DEF Keeps
<1>6. ASSUME NEW n \in 0 .. MaxBatch, TriggerFails(n) PROVE Keeps
  <2>1. /\ PersistSamples(n) /\ UNCHANGED config /\ n \in Nat /\ triggers' = Append(triggers, <<>>)
        /\ informed_until' = Append(informed_until, informed + n)
    BY <1>6, SelectorAssumption DEF TriggerFails
  <2>2. <<>> \in Seq(SUBSET (1 .. MaxSamples))
    OBVIOUS
  <2> QED BY <1>3, <2>1, <2>2 DEF Keeps
<1>7. ASSUME NEW n \in 0 .. MaxBatch, InformDataAndTrigger(n) PROVE Keeps
  <2>1. /\ PersistSamples(n) /\ n \in Nat
        /\ \E ps \in Seq(SUBSET (1 .. MaxSamples)) : triggers' = Append(triggers, ps)
        /\ informed_until' = Append(informed_until, informed')
    BY <1>7, Triggered
  <2>2. UNCHANGED config
    BY <1>7 DEF InformDataAndTrigger
  <2> QED BY <1>3, <2>1, <2>2 DEF Keeps
<1>8. ASSUME NEW p \in Processes, Answered(p) PROVE Keeps
  BY <1>2, <1>8 DEF Answered, Served
<1>9. CASE EndTraining \/ Reconnect \/ Restart \/ UNCHANGED vars
  BY <1>2, <1>9 DEF EndTraining, Reconnect, Restart, vars
<1> QED BY <1>4, <1>5, <1>6, <1>7, <1>8, <1>9, StepsOfNext

LEMMA HistoryStep ==
  ASSUME TypeOK, [Next]_vars, HistoryInv
  PROVE  HistoryInv'
<1>1. Keeps
  BY StepKeeps
<1>2. /\ informed_until \in Seq(0 .. MaxSamples) /\ triggers \in Seq(Seq(SUBSET (1 .. MaxSamples)))
      /\ MaxSamples \in Nat /\ informed \in Nat
  BY SelectorAssumption DEF TypeOK
<1>3. /\ Len(informed_until) = Len(triggers) /\ \A id \in 1 .. Len(triggers) : informed_until[id] <= informed
      /\ phase = "training" => triggers # <<>>
  BY DEF HistoryInv
<1>4. Len(informed_until') = Len(triggers')
      /\ \A id \in 1 .. Len(triggers') : informed_until'[id] <= informed'
  <2>1. CASE UNCHANGED <<triggers, informed_until>>
    BY <1>1, <1>2, <1>3, <2>1 DEF Keeps
  <2>2. ASSUME NEW ps \in Seq(SUBSET (1 .. MaxSamples)), triggers' = Append(triggers, ps),
               informed_until' = Append(informed_until, informed')
        PROVE  Len(informed_until') = Len(triggers')
               /\ \A id \in 1 .. Len(triggers') : informed_until'[id] <= informed'
    <3>1. informed' \in Nat /\ informed <= informed'
      BY <1>1 DEF Keeps
    <3>2. /\ Len(triggers') = Len(triggers) + 1 /\ Len(informed_until') = Len(triggers) + 1
          /\ Len(triggers) \in Nat
          /\ informed_until'[Len(triggers) + 1] = informed'
          /\ \A id \in 1 .. Len(triggers) : informed_until'[id] = informed_until[id]
                                            /\ informed_until[id] \in Nat
      BY <1>2, <1>3, <2>2, <3>1
    <3> DEFINE L == Len(triggers)
    <3>3. /\ L \in Nat /\ Len(triggers') = L + 1 /\ Len(informed_until') = L + 1
      BY <3>2
    <3>4. informed_until'[L + 1] <= informed'
      BY <3>1, <3>2
    <3>5. ASSUME NEW id \in 1 .. L PROVE informed_until'[id] <= informed'
      <4>1. /\ informed_until'[id] = informed_until[id] /\ informed_until[id] \in Nat
            /\ informed_until[id] <= informed
        BY <1>3, <3>2
      <4> QED BY <1>2, <3>1, <4>1
    <3> HIDE DEF L
    <3>6. \A id \in 1 .. L + 1 : id = L + 1 \/ id \in 1 .. L
      BY <3>3
    <3>7. \A id \in 1 .. L + 1 : informed_until'[id] <= informed'
      BY <3>4, <3>5, <3>6
    <3> QED BY <3>3, <3>7
  <2> QED BY <1>1, <2>1, <2>2 DEF Keeps
<1>5. phase' = "training" => triggers' # <<>>
  <2>1. CASE triggers # <<>>
    BY <1>1, <1>2, <2>1 DEF Keeps
  <2>2. CASE triggers = <<>>
    <3>1. phase # "training"
      BY <1>3, <2>2
    <3>2. ASSUME NEW n \in 0 .. MaxBatch, InformDataAndTrigger(n) PROVE triggers' # <<>>
      <4>1. \E ps \in Seq(SUBSET (1 .. MaxSamples)) : triggers' = Append(triggers, ps)
        BY <3>2, Triggered
      <4>2. PICK ps \in Seq(SUBSET (1 .. MaxSamples)) : triggers' = Append(triggers, ps)
        BY <4>1
      <4>3. Len(triggers') = Len(triggers) + 1 /\ Len(triggers) \in Nat
        BY <1>2, <4>2
      <4>4. Len(<<>>) = 0
        OBVIOUS
      <4> QED BY <4>3, <4>4
    <3>3. CASE \E n \in 1 .. MaxBatch : InformData(n)
      BY <3>1, <3>3 DEF InformData
    <3>4. CASE \E n \in 0 .. MaxBatch : InformDataAndTriggerFails(n) \/ TriggerFails(n)
      BY <3>4 DEF InformDataAndTriggerFails, TriggerFails
    <3>5. CASE (\E p \in Processes : Answered(p)) \/ EndTraining \/ Reconnect \/ Restart
      BY <3>1, <3>5 DEF Answered, EndTraining, Reconnect, Restart
    <3>6. CASE UNCHANGED vars
      BY <3>1, <3>6 DEF vars
    <3> QED BY <3>2, <3>3, <3>4, <3>5, <3>6, StepsOfNext
  <2> QED BY <2>1, <2>2
<1> QED BY <1>4, <1>5 DEF HistoryInv

LEMMA OldTriggers ==
  ASSUME TypeOK, HistoryInv, Keeps, NEW id \in 0 .. Len(triggers) - 1
  PROVE  /\ triggers'[id + 1] = triggers[id + 1] /\ Len(triggers) <= Len(triggers')
         /\ Drawn(id)' = Drawn(id) /\ Promised(id)' = Promised(id)
<1> DEFINE L == Len(triggers)
           before == IF tail = AllData THEN 0 ELSE id - tail
           low == IF before <= 0 THEN 1 ELSE informed_until[before] + 1
           high == informed_until[id + 1]
<1>1. /\ informed_until \in Seq(0 .. MaxSamples) /\ triggers \in Seq(Seq(SUBSET (1 .. MaxSamples)))
      /\ MaxSamples \in Nat /\ informed \in Nat
  BY SelectorAssumption DEF TypeOK
<1>2. /\ Len(informed_until) = L /\ L \in Nat
      /\ \A i \in 1 .. L : informed_until[i] <= informed /\ informed_until[i] \in Nat
  BY <1>1 DEF HistoryInv
<1>3. /\ \A i \in 1 .. L : triggers'[i] = triggers[i] /\ informed_until'[i] = informed_until[i]
      /\ L <= Len(triggers')
  <2>1. CASE UNCHANGED <<triggers, informed_until>>
    BY <1>2, <2>1
  <2>2. ASSUME NEW ps \in Seq(SUBSET (1 .. MaxSamples)), triggers' = Append(triggers, ps),
               informed_until' = Append(informed_until, informed')
        PROVE  /\ \A i \in 1 .. L : triggers'[i] = triggers[i] /\ informed_until'[i] = informed_until[i]
               /\ L <= Len(triggers')
    <3>1. informed' \in Nat
      BY DEF Keeps
    <3> QED BY <1>1, <1>2, <2>2, <3>1
  <2> QED BY <2>1, <2>2 DEF Keeps
<1>4. id + 1 \in 1 .. L /\ id \in Nat
  BY <1>2
<1>5. triggers'[id + 1] = triggers[id + 1] /\ informed_until'[id + 1] = informed_until[id + 1]
  BY <1>3, <1>4
<1>6. Drawn(id)' = Drawn(id)
  BY <1>5 DEF Drawn
<1>7. (tail \in Nat \/ tail = AllData) /\ tail' = tail
  BY Configured DEF Keeps, config
<1>8. before \in Int /\ (before <= 0 \/ before \in 1 .. L)
  BY <1>4, <1>7
<1>9. low \in Nat /\ high \in Nat /\ high <= informed
  BY <1>2, <1>4, <1>8
<1>10. Promised(id) = (low .. high) \ lost
  BY DEF Promised
<1>11. Promised(id)' = (low .. high) \ lost'
  <2>1. Promised(id)' = ((IF before <= 0 THEN 1 ELSE informed_until'[before] + 1) .. informed_until'[id + 1])
                          \ lost'
    BY <1>7 DEF Promised
  <2>2. before <= 0 \/ informed_until'[before] = informed_until[before]
    BY <1>3, <1>8
  <2> HIDE DEF before
  <2> QED BY <1>5, <2>1, <2>2
<1> HIDE DEF low, high
<1>12. lost \subseteq lost' /\ lost' \ lost \subseteq informed + 1 .. informed'
       /\ informed' \in Nat
  BY DEF Keeps
<1>13. \A k \in low .. high : k \in lost' => k \in lost
  BY <1>1, <1>9, <1>12
<1>14. (low .. high) \ lost' = (low .. high) \ lost
  BY <1>12, <1>13
<1> QED BY <1>3, <1>5, <1>6, <1>10, <1>11, <1>14
-----------------------------------------------------------------------------
(* A process that is not behind stays so until the connection changes.     *)
LEMMA BehindIs ==
  ASSUME TypeOK
  PROVE  /\ connection \in Processes /\ (Behind <=> NextTriggerId(connection) # Len(triggers))
         /\ Behind' <=> (IF connection' \in selectors' THEN next_trigger_id'[connection']
                         ELSE Len(triggers')) # Len(triggers')
BY DEF TypeOK, Behind, NextTriggerId

LEMMA BehindStays ==
  ASSUME TypeOK, NEW p \in Processes, Populate(p), UNCHANGED <<triggers, connection>>
  PROVE  Behind' <=> Behind
<1>1. (IF connection \in selectors' THEN next_trigger_id'[connection] ELSE Len(triggers))
        = NextTriggerId(connection)
  BY Populated, BehindIs
<1> QED BY <1>1, BehindIs

LEMMA LocalUnchanged ==
  ASSUME TypeOK, UNCHANGED <<local, triggers, connection>>
  PROVE  Behind' <=> Behind
<1>1. selectors' = selectors /\ next_trigger_id' = next_trigger_id
  BY DEF local
<1>2. (IF connection \in selectors' THEN next_trigger_id'[connection] ELSE Len(triggers))
        = NextTriggerId(connection)
  BY <1>1 DEF NextTriggerId
<1> QED BY <1>2, BehindIs

LEMMA TriggerLeavesNotBehind ==
  ASSUME TypeOK, NEW n \in 0 .. MaxBatch, InformDataAndTrigger(n)
  PROVE  ~Behind' /\ Len(triggers') = Len(triggers) + 1 /\ Len(triggers) \in Nat
<1>1. /\ NextTriggerId(connection) = Len(triggers)
      /\ \E outcome \in Outcomes(Candidates(rows', Len(triggers)), rows', connection, Len(triggers)) :
           /\ CreateTrigger(connection, outcome, n)
           /\ triggers' = Append(triggers, outcome.partitions)
           /\ outcome.partitions \in Seq(SUBSET (1 .. MaxSamples))
  BY Triggered
<1>2. PICK outcome : /\ CreateTrigger(connection, outcome, n)
                     /\ triggers' = Append(triggers, outcome.partitions)
                     /\ outcome.partitions \in Seq(SUBSET (1 .. MaxSamples))
  BY <1>1
<1>3. /\ selectors' = selectors \cup {connection}
      /\ next_trigger_id' = [next_trigger_id EXCEPT ![connection] = Len(triggers) + 1]
  BY <1>1, <1>2 DEF CreateTrigger
<1>4. connection' = connection
  BY DEF InformDataAndTrigger, link
<1>5. triggers \in Seq(Seq(SUBSET (1 .. MaxSamples))) /\ next_trigger_id \in [Processes -> 0 .. MaxTriggers]
  BY DEF TypeOK
<1>6. Len(triggers') = Len(triggers) + 1 /\ Len(triggers) \in Nat
  BY <1>2, <1>5
<1>7. connection \in Processes
  BY BehindIs
<1>8. connection' \in selectors' /\ next_trigger_id'[connection'] = Len(triggers) + 1
  BY <1>3, <1>4, <1>5, <1>7
<1> QED BY <1>6, <1>8, BehindIs

LEMMA ConnectionStep ==
  ASSUME TypeOK, [Next]_vars, ConnectionInv
  PROVE  ConnectionInv'
<1> DEFINE Rounds == \A p \in Processes :
                       last_complete_trigger[p] = 0 \/ last_complete_trigger[p] < Len(triggers)
           Kept0 == phase # "failed" /\ reconnects = 0 => ~Behind
<1>1. Kept0 /\ Rounds /\ connection \in Processes
  BY BehindIs DEF ConnectionInv
<1>2. last_complete_trigger \in [Processes -> 0 .. MaxTriggers - 1] /\ Len(triggers) \in Nat
      /\ reconnects \in Nat
  <2>1. last_complete_trigger \in [Processes -> 0 .. MaxTriggers - 1]
    BY DEF TypeOK
  <2>2. triggers \in Seq(Seq(SUBSET (1 .. MaxSamples)))
    BY DEF TypeOK
  <2>3. reconnects \in 0 .. MaxReconnects
    BY DEF TypeOK
  <2> QED BY <2>1, <2>2, <2>3, SelectorAssumption
<1>3. ASSUME NEW n \in 1 .. MaxBatch, InformData(n) PROVE Kept0' /\ Rounds'
  <2>1. Populate(connection) /\ UNCHANGED <<triggers, link, phase, rounds>>
    BY <1>3 DEF InformData
  <2>2. Behind' <=> Behind
    BY <1>1, <2>1, BehindStays DEF link
  <2> QED BY <1>1, <2>1, <2>2 DEF link, rounds
<1>4. ASSUME NEW n \in 0 .. MaxBatch, InformDataAndTriggerFails(n) PROVE Kept0' /\ Rounds'
  BY <1>1, <1>4 DEF InformDataAndTriggerFails, local, rounds
<1>5. ASSUME NEW n \in 0 .. MaxBatch, TriggerFails(n) PROVE Kept0' /\ Rounds'
  <2>1. phase' = "failed" /\ last_complete_trigger' = last_complete_trigger
        /\ triggers' = Append(triggers, <<>>)
    BY <1>5 DEF TriggerFails, rounds
  <2>2. Len(triggers') = Len(triggers) + 1
    <3>1. triggers \in Seq(Seq(SUBSET (1 .. MaxSamples)))
      BY DEF TypeOK
    <3>2. <<>> \in Seq(SUBSET (1 .. MaxSamples))
      OBVIOUS
    <3> QED BY <2>1, <3>1, <3>2
  <2> QED BY <1>1, <1>2, <2>1, <2>2
<1>6. ASSUME NEW n \in 0 .. MaxBatch, InformDataAndTrigger(n) PROVE Kept0' /\ Rounds'
  <2>1. ~Behind' /\ Len(triggers') = Len(triggers) + 1
    BY <1>6, TriggerLeavesNotBehind
  <2>2. \E c \in {0, last_complete_trigger[connection], Len(triggers)} :
          last_complete_trigger' = [last_complete_trigger EXCEPT ![connection] = c]
    <3>1. /\ Candidates(rows', Len(triggers)) \in SUBSET (1 .. MaxSamples)
          /\ \E outcome \in Outcomes(Candidates(rows', Len(triggers)), rows', connection, Len(triggers)) :
               CreateTrigger(connection, outcome, n)
      BY <1>6, Triggered
    <3>2. PICK outcome \in Outcomes(Candidates(rows', Len(triggers)), rows', connection, Len(triggers)) :
            CreateTrigger(connection, outcome, n)
      BY <3>1
    <3>3. outcome.complete \in {0, last_complete_trigger[connection], Len(triggers)}
      <4>1. Expected(outcome, Candidates(rows', Len(triggers)), connection, Len(triggers))
        BY <1>1, <3>1, OutcomeOfTrigger
      <4> QED BY <4>1 DEF Expected
    <3>4. last_complete_trigger' = [last_complete_trigger EXCEPT ![connection] = outcome.complete]
      BY <3>2 DEF CreateTrigger
    <3> QED BY <3>3, <3>4
  <2> QED BY <1>1, <1>2, <2>1, <2>2
<1>7. ASSUME NEW p \in Processes, Answered(p) PROVE Kept0' /\ Rounds'
  <2>1. Populate(p) /\ UNCHANGED <<triggers, link, phase, rounds>>
    BY <1>7 DEF Answered, Served
  <2>2. Behind' <=> Behind
    BY <2>1, BehindStays DEF link
  <2> QED BY <1>1, <2>1, <2>2 DEF link, rounds
<1>8. ASSUME EndTraining \/ UNCHANGED vars PROVE Kept0' /\ Rounds'
  <2>1. UNCHANGED <<local, triggers, link>> /\ ((phase' = "informing" /\ phase = "training") \/ phase' = phase)
    BY <1>8 DEF EndTraining, vars
  <2>2. Behind' <=> Behind
    BY <2>1, LocalUnchanged DEF link
  <2> QED BY <1>1, <2>1, <2>2 DEF link, local, rounds
<1>9. ASSUME Reconnect PROVE Kept0' /\ Rounds'
  BY <1>1, <1>2, <1>9 DEF Reconnect, local, rounds
<1>10. ASSUME Restart PROVE Kept0' /\ Rounds'
  BY <1>1, <1>2, <1>10 DEF Restart
<1>11. Kept0' /\ Rounds'
  BY <1>3, <1>4, <1>5, <1>6, <1>7, <1>8, <1>9, <1>10, StepsOfNext
<1> QED BY <1>11 DEF ConnectionInv

(* The rows say which trigger a sample came before, unless the process     *)
(* that stored some of them was behind.                                    *)
LEMMA NotBehindRows ==
  ASSUME RowsInv, phase # "failed", ~Behind \/ phase = "training" \/ reconnects # 1
  PROVE  RowsAre(rows, Kept, informed_until)
BY DEF RowsInv

LEMMA RowsOfTrigger ==
  ASSUME TypeOK, HistoryInv, RowsInv, NEW n \in 0 .. MaxBatch, InformDataAndTrigger(n)
  PROVE  /\ RowsAre(rows', Kept', informed_until) /\ RowsAre(rows', Kept', informed_until')
         /\ Len(informed_until) = Len(triggers) /\ Kept' = (1 .. informed') \ lost'
<1>1. /\ NextTriggerId(connection) = Len(triggers) /\ PersistSamples(n) /\ n \in Nat
      /\ phase = "informing" /\ informed_until' = Append(informed_until, informed')
  BY Triggered
<1>2. RowsAre(rows, Kept, informed_until)
  BY <1>1, BehindIs, NotBehindRows
<1>3. RowsAre(rows', (1 .. informed') \ lost', informed_until)
  BY <1>1, <1>2, RowsPersisted
<1>4. informed' \in 0 .. MaxSamples /\ MaxSamples \in Nat
  BY <1>1, Persisted, Configured
<1>5. informed_until \in Seq(Nat)
  <2>1. informed_until \in Seq(0 .. MaxSamples)
    BY DEF TypeOK
  <2> QED BY <1>4, <2>1
<1>6. Kept' = (1 .. informed') \ lost'
  BY DEF Kept
<1>7. RowsAre(rows', Kept', Append(informed_until, informed'))
  BY <1>3, <1>4, <1>5, <1>6, RowsTriggered
<1> QED BY <1>1, <1>3, <1>6, <1>7 DEF HistoryInv

LEMMA RowsStep ==
  ASSUME TypeOK, [Next]_vars, HistoryInv, ConnectionInv, RowsInv, reconnects' <= 1
  PROVE  RowsInv'
<1> DEFINE Good == RowsAre(rows, Kept, informed_until)
           Bad == Behind /\ phase = "informing" /\ reconnects = 1
<1>1. phase # "failed" => Good \/ Bad
  BY DEF RowsInv
<1>2. connection \in Processes /\ reconnects \in Nat
  <2>1. reconnects \in 0 .. MaxReconnects
    BY DEF TypeOK
  <2> QED BY <2>1, SelectorAssumption, BehindIs
<1>3. ASSUME UNCHANGED <<data, informed_until>>, Good PROVE Good'
  BY <1>3 DEF data, Kept, RowsAre
<1>4. ASSUME NEW n \in 1 .. MaxBatch, InformData(n) PROVE Good' \/ Bad'
  <2>1. /\ Populate(connection) /\ PersistSamples(n) /\ n \in Nat /\ phase = "informing"
        /\ UNCHANGED <<triggers, link, phase, informed_until>>
    BY <1>4, SelectorAssumption DEF InformData
  <2>2. Behind' <=> Behind
    BY <1>2, <2>1, BehindStays DEF link
  <2>3. CASE Bad
    BY <2>1, <2>2, <2>3 DEF link
  <2>4. CASE ~Bad /\ Behind
    BY <1>1, <1>2, <2>1, <2>4 DEF ConnectionInv, link
  <2>5. CASE ~Behind
    <3>1. NextTriggerId(connection) = Len(triggers) /\ Good
      BY <1>1, <2>1, <2>5, BehindIs
    <3>2. RowsAre(rows', (1 .. informed') \ lost', informed_until)
      BY <2>1, <3>1, RowsPersisted
    <3>3. Good'
      BY <2>1, <3>2 DEF Kept
    <3> QED BY <3>3
  <2> QED BY <2>3, <2>4, <2>5
<1>5. ASSUME NEW n \in 0 .. MaxBatch, InformDataAndTriggerFails(n) \/ TriggerFails(n)
      PROVE  phase' = "failed"
  BY <1>5 DEF InformDataAndTriggerFails, TriggerFails
<1>6. ASSUME NEW n \in 0 .. MaxBatch, InformDataAndTrigger(n) PROVE Good'
  <2>1. RowsAre(rows', Kept', informed_until')
    BY <1>6, RowsOfTrigger
  <2> QED BY <2>1
<1>7. ASSUME NEW p \in Processes, Answered(p) PROVE Good'
  BY <1>1, <1>3, <1>7 DEF Answered, Served
<1>8. ASSUME EndTraining PROVE Good'
  BY <1>1, <1>3, <1>8 DEF EndTraining
<1>9. ASSUME Reconnect \/ Restart PROVE Good'
  <2>1. reconnects = 0 /\ phase # "failed" /\ UNCHANGED <<data, informed_until>>
    BY <1>2, <1>9 DEF Reconnect, Restart
  <2> QED BY <1>1, <1>3, <2>1
<1>10. ASSUME UNCHANGED vars, phase # "failed" PROVE Good' \/ Bad'
  <2>1. Behind' <=> Behind
    BY <1>10, LocalUnchanged DEF vars, link
  <2> QED BY <1>1, <1>3, <1>10, <2>1 DEF vars, link
<1>11. phase' # "failed" => Good' \/ Bad'
  BY <1>4, <1>5, <1>6, <1>7, <1>8, <1>9, <1>10, StepsOfNext DEF vars
<1> QED BY <1>11 DEF RowsInv
-----------------------------------------------------------------------------
(* The next trigger: what the strategy may select from is what the policy  *)
(* promises of it.                                                         *)
LEMMA TriggerDraws ==
  ASSUME TypeOK, HistoryInv, RowsInv, NEW n \in 0 .. MaxBatch, InformDataAndTrigger(n)
  PROVE  \E id \in Nat :
           /\ id = Len(triggers) /\ Len(triggers') = id + 1
           /\ Promised(id)' \in SUBSET (1 .. MaxSamples)
           /\ tail = AllData => Promised(id)' = Kept'
           /\ \E outcome \in Outcomes(Promised(id)', rows', connection, id) :
                /\ CreateTrigger(connection, outcome, n)
                /\ triggers' = Append(triggers, outcome.partitions)
                /\ triggers'[id + 1] = outcome.partitions
                /\ outcome.partitions \in Seq(SUBSET (1 .. MaxSamples))
                /\ Drawn(id)' = Together(outcome.partitions)
<1> DEFINE S == Candidates(rows', Len(triggers))
<1>1. /\ informed_until' = Append(informed_until, informed') /\ PersistSamples(n) /\ n \in Nat
      /\ S \in SUBSET (1 .. MaxSamples)
      /\ \E outcome \in Outcomes(S, rows', connection, Len(triggers)) :
           /\ CreateTrigger(connection, outcome, n)
           /\ triggers' = Append(triggers, outcome.partitions)
           /\ outcome.partitions \in Seq(SUBSET (1 .. MaxSamples))
  BY Triggered
<1>2. /\ RowsAre(rows', Kept', informed_until) /\ Len(informed_until) = Len(triggers)
      /\ Kept' = (1 .. informed') \ lost'
  BY RowsOfTrigger
<1> HIDE DEF S
<1>3. PICK outcome \in Outcomes(S, rows', connection, Len(triggers)) :
           /\ CreateTrigger(connection, outcome, n)
           /\ triggers' = Append(triggers, outcome.partitions)
           /\ outcome.partitions \in Seq(SUBSET (1 .. MaxSamples))
  BY <1>1
<1>4. triggers \in Seq(Seq(SUBSET (1 .. MaxSamples))) /\ informed_until \in Seq(0 .. MaxSamples)
  BY DEF TypeOK
<1>5. MaxSamples \in Nat /\ informed' \in 0 .. MaxSamples
      /\ (tail = AllData \/ tail \in Nat) /\ AllData \notin Nat
  BY <1>1, Persisted, Configured
<1>6. tail' = tail
  BY DEF InformDataAndTrigger, config
<1>7. PICK id \in Nat : id = Len(triggers)
  <2>1. Len(triggers) \in Nat
    BY <1>4
  <2> QED BY <2>1
<1>8. Len(triggers') = id + 1 /\ triggers'[id + 1] = outcome.partitions
  BY <1>3, <1>4, <1>7
<1>9. Drawn(id)' = Together(outcome.partitions)
  BY <1>8 DEF Drawn, Together
<1> DEFINE before == IF tail = AllData THEN 0 ELSE id - tail
<1>10. S = ((IF before <= 0 THEN 1 ELSE informed_until[before] + 1) .. informed') \ lost'
  <2>1. informed_until \in Seq(Nat) /\ informed' \in Nat /\ Len(informed_until) = id
    BY <1>2, <1>4, <1>5, <1>7
  <2>2. RowsAre(rows', (1 .. informed') \ lost', informed_until)
    BY <1>2
  <2>3. Candidates(rows', Len(informed_until)) =
          ((IF (IF tail = AllData THEN 0 ELSE Len(informed_until) - tail) <= 0 THEN 1
            ELSE informed_until[IF tail = AllData THEN 0 ELSE Len(informed_until) - tail] + 1)
           .. informed') \ lost'
    BY <2>1, <2>2, CandidatesPromised
  <2> QED BY <1>7, <2>1, <2>3 DEF S
<1>11. Promised(id)' = ((IF before <= 0 THEN 1 ELSE informed_until'[before] + 1) .. informed_until'[id + 1])
                         \ lost'
  BY <1>6 DEF Promised
<1>12. informed_until'[id + 1] = informed' /\ \A i \in 1 .. id : informed_until'[i] = informed_until[i]
  BY <1>1, <1>2, <1>4, <1>5, <1>7
<1>13. before <= 0 \/ before \in 1 .. id
  BY <1>5
<1>14. tail = AllData => before <= 0
  OBVIOUS
<1> HIDE DEF before
<1>15. Promised(id)' = S
  BY <1>10, <1>11, <1>12, <1>13
<1>16. tail = AllData => Promised(id)' = Kept'
  BY <1>2, <1>11, <1>12, <1>14
<1>17. outcome \in Outcomes(Promised(id)', rows', connection, id)
  BY <1>3, <1>7, <1>15
<1>18. Promised(id)' \in SUBSET (1 .. MaxSamples)
  BY <1>1, <1>15
<1> QED BY <1>3, <1>7, <1>8, <1>9, <1>16, <1>17, <1>18

LEMMA FailedStays ==
  ASSUME phase = "failed", [Next]_vars
  PROVE  UNCHANGED vars
BY StepsOfNext DEF InformData, InformDataAndTrigger, InformDataAndTriggerFails, TriggerFails, Answered,
   EndTraining, Reconnect, Restart

(* A trigger that fails in its strategy is empty.                          *)
LEMMA FailedTrigger ==
  ASSUME TypeOK, HistoryInv, NEW n \in 0 .. MaxBatch, TriggerFails(n)
  PROVE  \E id \in Nat :
           /\ id = Len(triggers) /\ Len(triggers') = id + 1 /\ triggers'[id + 1] = <<>>
           /\ Drawn(id)' = {} /\ ~Completed(id)'
<1>1. triggers' = Append(triggers, <<>>) /\ phase' = "failed"
  BY DEF TriggerFails
<1>2. triggers \in Seq(Seq(SUBSET (1 .. MaxSamples)))
  BY DEF TypeOK
<1>3. PICK id \in Nat : id = Len(triggers)
  <2>1. Len(triggers) \in Nat
    BY <1>2
  <2> QED BY <2>1
<1>4. <<>> \in Seq(SUBSET (1 .. MaxSamples)) /\ DOMAIN <<>> = {}
  OBVIOUS
<1>5. Len(triggers') = id + 1 /\ triggers'[id + 1] = <<>>
  BY <1>1, <1>2, <1>3, <1>4
<1>6. Drawn(id)' = {}
  BY <1>4, <1>5 DEF Drawn
<1>7. ~Completed(id)'
  BY <1>1, <1>5 DEF Completed
<1> QED BY <1>3, <1>5, <1>6, <1>7

(* Steps that create no trigger, and those that do.                        *)
LEMMA TriggerOrNot ==
  ASSUME TypeOK, [Next]_vars
  PROVE  \/ UNCHANGED <<triggers, informed_until, marks>>
              /\ (phase' = phase \/ phase' = "failed" \/ phase # "failed")
         \/ \E n \in 0 .. MaxBatch : InformDataAndTrigger(n) \/ TriggerFails(n)
<1>1. ASSUME NEW n \in 1 .. MaxBatch, InformData(n) PROVE UNCHANGED <<triggers, informed_until, marks, phase>>
  BY <1>1 DEF InformData
<1>2. ASSUME NEW n \in 0 .. MaxBatch, InformDataAndTriggerFails(n)
      PROVE  UNCHANGED <<triggers, informed_until, marks>> /\ phase' = "failed"
  BY <1>2 DEF InformDataAndTriggerFails
<1>3. ASSUME NEW p \in Processes, Answered(p) PROVE UNCHANGED <<triggers, informed_until, marks, phase>>
  BY <1>3 DEF Answered, Served
<1>4. ASSUME EndTraining \/ Reconnect \/ Restart \/ UNCHANGED vars
      PROVE  UNCHANGED <<triggers, informed_until, marks>> /\ (phase' = phase \/ phase # "failed")
  BY <1>4 DEF EndTraining, Reconnect, Restart, vars
<1> QED BY <1>1, <1>2, <1>3, <1>4, StepsOfNext
-----------------------------------------------------------------------------
FollowsPolicy(id) ==
  LET ps == triggers[id + 1]
  IN /\ Drawn(id) \subseteq Promised(id)
     /\ (TakesAll /\ Completed(id)) => Drawn(id) = Promised(id)
     /\ \A i, j \in DOMAIN ps : i # j => ps[i] \cap ps[j] = {}
     /\ \A i \in DOMAIN ps : Cardinality(ps[i]) <= maximum_keys_in_memory

LEMMA OldTriggerFollows ==
  ASSUME TypeOK, HistoryInv, [Next]_vars, NEW id \in 0 .. Len(triggers) - 1, FollowsPolicy(id)
  PROVE  FollowsPolicy(id)'
<1>1. Keeps
  BY StepKeeps
<1>2. /\ triggers'[id + 1] = triggers[id + 1] /\ Drawn(id)' = Drawn(id) /\ Promised(id)' = Promised(id)
  BY <1>1, OldTriggers
<1>3. TakesAll' <=> TakesAll
  BY <1>1 DEF Keeps, config, TakesAll
<1>4. Completed(id)' => Completed(id)
  <2>1. CASE phase # "failed"
    BY <2>1 DEF Completed
  <2>2. CASE phase = "failed"
    <3>1. phase' = phase /\ triggers' = triggers
      BY <2>2, FailedStays DEF vars
    <3> QED BY <3>1 DEF Completed
  <2> QED BY <2>1, <2>2
<1> HIDE DEF Drawn, Promised
<1> QED BY <1>2, <1>3, <1>4 DEF FollowsPolicy

LEMMA PolicyStep ==
  ASSUME RoomForTwo, TypeOK, HistoryInv, RowsInv, UsedInv, TrainingSetFollowsPolicy, [Next]_vars,
         reconnects' <= 1
  PROVE  TrainingSetFollowsPolicy'
<1>1. \A id \in 0 .. Len(triggers) - 1 : FollowsPolicy(id)
  BY DEF TrainingSetFollowsPolicy, FollowsPolicy
<1>2. \A id \in 0 .. Len(triggers) - 1 : FollowsPolicy(id)'
  BY <1>1, OldTriggerFollows
<1>3. Len(triggers) \in Nat
  <2>1. triggers \in Seq(Seq(SUBSET (1 .. MaxSamples)))
    BY DEF TypeOK
  <2> QED BY <2>1
<1>4. ASSUME NEW n \in 0 .. MaxBatch, InformDataAndTrigger(n)
      PROVE  \E id \in Nat : id = Len(triggers) /\ Len(triggers') = id + 1 /\ FollowsPolicy(id)'
  <2>1. PICK id \in Nat :
           /\ id = Len(triggers) /\ Len(triggers') = id + 1
           /\ Promised(id)' \in SUBSET (1 .. MaxSamples)
           /\ tail = AllData => Promised(id)' = Kept'
           /\ \E outcome \in Outcomes(Promised(id)', rows', connection, id) :
                /\ triggers'[id + 1] = outcome.partitions
                /\ Drawn(id)' = Together(outcome.partitions)
    BY <1>4, TriggerDraws
  <2> DEFINE S == Promised(id)'
  <2>2. PICK outcome \in Outcomes(S, rows', connection, id) :
          triggers'[id + 1] = outcome.partitions /\ Drawn(id)' = Together(outcome.partitions)
    BY <2>1
  <2> DEFINE ps == outcome.partitions
  <2>3. S \in SUBSET (1 .. MaxSamples)
    BY <2>1
  <2> HIDE DEF S
  <2>4. /\ Splits(ps, S \cup used, Room)
        /\ strategy.name # "FreshnessSamplingStrategy" => Splits(ps, S, Room)
        /\ TakesAll => Together(ps) = S
    <3>1. connection \in Processes
      BY BehindIs
    <3>2. Expected(outcome, S, connection, id)
      BY <2>2, <2>3, <3>1, OutcomeOfTrigger
    <3> QED BY <3>2 DEF Expected
  <2>5. Splits(ps, S, Room)
    <3>1. CASE strategy.name = "FreshnessSamplingStrategy"
      <4>1. tail = AllData /\ used \subseteq Kept
        BY <3>1 DEF UsedInv
      <4>2. S = Kept'
        BY <2>1, <4>1 DEF S
      <4>3. Kept \subseteq Kept'
        <5>1. PersistSamples(n) /\ n \in Nat
          BY <1>4, Triggered
        <5>2. /\ informed' = informed + n /\ informed \in Nat
              /\ lost' \ lost \subseteq informed + 1 .. informed'
          BY <5>1, Persisted
        <5> QED BY <5>1, <5>2 DEF Kept
      <4>4. S \cup used = S
        BY <4>1, <4>2, <4>3
      <4> QED BY <2>4, <4>4
    <3> QED BY <2>4, <3>1
  <2>6. Room = maximum_keys_in_memory
    <3>1. strategy \in Strategies /\ maximum_keys_in_memory \in Nat
      BY SelectorAssumption DEF TypeOK
    <3> QED BY <3>1 DEF Room, RoomForTwo, Larger
  <2>7. Drawn(id)' \subseteq S
    BY <2>2, <2>5 DEF Splits, Together
  <2>8. TakesAll' <=> TakesAll
    BY <1>4 DEF InformDataAndTrigger, config, TakesAll
  <2>9. FollowsPolicy(id)'
    BY <2>2, <2>4, <2>5, <2>6, <2>7, <2>8 DEF FollowsPolicy, Splits, S
  <2> QED BY <2>1, <2>9
<1>5. ASSUME NEW n \in 0 .. MaxBatch, TriggerFails(n)
      PROVE  \E id \in Nat : id = Len(triggers) /\ Len(triggers') = id + 1 /\ FollowsPolicy(id)'
  <2>1. PICK id \in Nat :
           /\ id = Len(triggers) /\ Len(triggers') = id + 1 /\ triggers'[id + 1] = <<>>
           /\ Drawn(id)' = {} /\ ~Completed(id)'
    BY <1>5, FailedTrigger
  <2>2. DOMAIN triggers'[id + 1] = {}
    BY <2>1
  <2>3. FollowsPolicy(id)'
    BY <2>1, <2>2 DEF FollowsPolicy
  <2> QED BY <2>1, <2>3
<1>6. CASE \E n \in 0 .. MaxBatch : InformDataAndTrigger(n) \/ TriggerFails(n)
  <2>1. PICK id \in Nat : id = Len(triggers) /\ Len(triggers') = id + 1 /\ FollowsPolicy(id)'
    BY <1>4, <1>5, <1>6
  <2>2. \A i \in 0 .. Len(triggers') - 1 : i = id \/ i \in 0 .. Len(triggers) - 1
    BY <2>1
  <2>3. \A i \in 0 .. Len(triggers') - 1 : FollowsPolicy(i)'
    BY <1>2, <2>1, <2>2
  <2> QED BY <2>3 DEF TrainingSetFollowsPolicy, FollowsPolicy
<1>7. CASE UNCHANGED triggers
  <2>1. \A i \in 0 .. Len(triggers') - 1 : FollowsPolicy(i)'
    BY <1>2, <1>7
  <2> QED BY <2>1 DEF TrainingSetFollowsPolicy, FollowsPolicy
<1> QED BY <1>6, <1>7, TriggerOrNot
-----------------------------------------------------------------------------
(* What is configured for the presampling, trigger by trigger.             *)
Presampled(id) ==
  strategy.name = "CoresetStrategy" /\ Completed(id) =>
    AsConfigured(strategy, limit, Promised(id), Drawn(id))

LEMMA PresampledIs ==
  PresampledAsConfigured <=> \A id \in 0 .. Len(triggers) - 1 : Presampled(id)
<1>1. ASSUME NEW id
      PROVE  Presampled(id) <=>
               LET target == TargetSize(Cardinality(Promised(id)), strategy.ratio, limit)
                   OfLabel(c) == Cardinality({k \in Drawn(id) : Label[k] = c})
               IN (strategy.name = "CoresetStrategy" /\ Completed(id)) =>
                    /\ strategy.presampling \notin Balanced => Cardinality(Drawn(id)) = target
                    /\ strategy.presampling \in Balanced => Cardinality(Drawn(id)) <= target
                    /\ (strategy.presampling = "LabelBalanced" /\ strategy.force = "balancing") =>
                         \A j, k \in Promised(id) : OfLabel(Label[j]) = OfLabel(Label[k])
  BY DEF Presampled, AsConfigured, OfClass
<1> HIDE DEF Presampled
<1> QED BY <1>1 DEF PresampledAsConfigured

LEMMA PresampledNext ==
  (PresampledAsConfigured <=> \A id \in 0 .. Len(triggers) - 1 : Presampled(id))'
BY PresampledIs, PTL

LEMMA PresampledStep ==
  ASSUME TypeOK, HistoryInv, RowsInv, LastUsedInv, PresampledAsConfigured, [Next]_vars
  PROVE  PresampledAsConfigured'
<1>1. \A id \in 0 .. Len(triggers) - 1 : Presampled(id)
  BY PresampledIs
<1>2. Keeps
  BY StepKeeps
<1>3. strategy' = strategy /\ limit' = limit
  BY <1>2 DEF Keeps, config
<1>4. ASSUME NEW id \in 0 .. Len(triggers) - 1 PROVE Presampled(id)'
  <2>1. Drawn(id)' = Drawn(id) /\ Promised(id)' = Promised(id)
    BY <1>2, OldTriggers
  <2>2. Completed(id)' => Completed(id)
    <3>1. CASE phase # "failed"
      BY <3>1 DEF Completed
    <3>2. CASE phase = "failed"
      <4>1. phase' = phase /\ triggers' = triggers
        BY <3>2, FailedStays DEF vars
      <4> QED BY <4>1 DEF Completed
    <3> QED BY <3>1, <3>2
  <2> HIDE DEF Drawn, Promised
  <2> QED BY <1>1, <1>3, <2>1, <2>2 DEF Presampled
<1>5. ASSUME NEW n \in 0 .. MaxBatch, InformDataAndTrigger(n)
      PROVE  \E id \in Nat : id = Len(triggers) /\ Len(triggers') = id + 1 /\ Presampled(id)'
  <2>1. PICK id \in Nat :
           /\ id = Len(triggers) /\ Len(triggers') = id + 1
           /\ Promised(id)' \in SUBSET (1 .. MaxSamples)
           /\ \E outcome \in Outcomes(Promised(id)', rows', connection, id) :
                Drawn(id)' = Together(outcome.partitions)
    BY <1>5, TriggerDraws
  <2> DEFINE S == Promised(id)'
  <2>2. PICK outcome \in Outcomes(S, rows', connection, id) : Drawn(id)' = Together(outcome.partitions)
    BY <2>1
  <2>3. S \in SUBSET (1 .. MaxSamples)
    BY <2>1
  <2> HIDE DEF S
  <2>4. strategy.presampling = "RandomNoReplacement" => \A k \in S : last_used_in_trigger[k] < id
    <3> SUFFICES ASSUME strategy.presampling = "RandomNoReplacement", NEW k \in S
                 PROVE  last_used_in_trigger[k] < id
      OBVIOUS
    <3>1. \/ last_used_in_trigger[k] = -1
          \/ \E i \in 0 .. Len(triggers) - 1 : last_used_in_trigger[k] = i
      BY <2>3 DEF LastUsedInv
    <3> QED BY <2>1, <3>1
  <2>5. ASSUME strategy.name = "CoresetStrategy"
        PROVE  AsConfigured(strategy, limit, S, Together(outcome.partitions))
    BY <2>2, <2>3, <2>4, <2>5, OutcomeAsConfigured
  <2>6. Presampled(id)'
    BY <1>3, <2>2, <2>5 DEF Presampled, S
  <2> QED BY <2>1, <2>6
<1>6. ASSUME NEW n \in 0 .. MaxBatch, TriggerFails(n)
      PROVE  \E id \in Nat : id = Len(triggers) /\ Len(triggers') = id + 1 /\ Presampled(id)'
  <2>1. PICK id \in Nat : id = Len(triggers) /\ Len(triggers') = id + 1 /\ ~Completed(id)'
    BY <1>6, FailedTrigger
  <2>2. Presampled(id)'
    BY <2>1 DEF Presampled
  <2> QED BY <2>1, <2>2
<1>7. CASE \E n \in 0 .. MaxBatch : InformDataAndTrigger(n) \/ TriggerFails(n)
  <2>1. PICK id \in Nat : id = Len(triggers) /\ Len(triggers') = id + 1 /\ Presampled(id)'
    BY <1>5, <1>6, <1>7
  <2>2. \A i \in 0 .. Len(triggers') - 1 : i = id \/ i \in 0 .. Len(triggers) - 1
    BY <2>1
  <2>3. \A i \in 0 .. Len(triggers') - 1 : Presampled(i)'
    BY <1>4, <2>1, <2>2
  <2> QED BY <2>3, PresampledNext
<1>8. CASE UNCHANGED triggers
  <2>1. \A i \in 0 .. Len(triggers') - 1 : Presampled(i)'
    BY <1>4, <1>8
  <2> QED BY <2>1, PresampledNext
<1> QED BY <1>7, <1>8, TriggerOrNot
-----------------------------------------------------------------------------
(* The connections that were replaced, and what stays while none was.      *)
LEMMA FirstConnection ==
  ASSUME TypeOK, [Next]_vars
  PROVE  /\ reconnects <= reconnects' /\ reconnects \in Nat /\ reconnects' \in Nat
         /\ reconnects' = 0 =>
              /\ connection' = connection
              /\ (\E n \in 0 .. MaxBatch : InformDataAndTrigger(n))
                   \/ UNCHANGED <<is_first_trigger, downsampler_index>>
<1>1. reconnects \in Nat
  <2>1. reconnects \in 0 .. MaxReconnects
    BY DEF TypeOK
  <2> QED BY <2>1, SelectorAssumption
<1> DEFINE Here == UNCHANGED link /\ UNCHANGED <<is_first_trigger, downsampler_index>>
<1>2. ASSUME NEW n \in 1 .. MaxBatch, InformData(n) PROVE Here
  BY <1>2 DEF InformData, rounds
<1>3. ASSUME NEW n \in 0 .. MaxBatch, InformDataAndTriggerFails(n) \/ TriggerFails(n) PROVE Here
  BY <1>3 DEF InformDataAndTriggerFails, TriggerFails, local, rounds
<1>4. ASSUME NEW n \in 0 .. MaxBatch, InformDataAndTrigger(n) PROVE UNCHANGED link
  BY <1>4 DEF InformDataAndTrigger
<1>5. ASSUME NEW p \in Processes, Answered(p) PROVE Here
  BY <1>5 DEF Answered, Served, rounds
<1>6. ASSUME EndTraining \/ UNCHANGED vars PROVE Here
  BY <1>6 DEF EndTraining, vars, local, rounds
<1>7. ASSUME Reconnect \/ Restart PROVE reconnects' = reconnects + 1
  BY <1>7 DEF Reconnect, Restart
<1>8. \/ Here \/ reconnects' = reconnects + 1
      \/ UNCHANGED link /\ \E n \in 0 .. MaxBatch : InformDataAndTrigger(n)
  BY <1>2, <1>3, <1>4, <1>5, <1>6, <1>7, StepsOfNext
<1> QED BY <1>1, <1>8 DEF link

DrawnBefore(id) == UNION {Drawn(i) : i \in 0 .. id - 1}

LEMMA DrawnBeforeIs ==
  ASSUME TypeOK, HistoryInv, [Next]_vars
  PROVE  /\ Len(triggers) \in Nat
         /\ \A id \in 0 .. Len(triggers) : DrawnBefore(id)' = DrawnBefore(id)
         /\ \A id \in Nat : DrawnBefore(id + 1)' = DrawnBefore(id)' \cup Drawn(id)'
<1>1. Len(triggers) \in Nat
  <2>1. triggers \in Seq(Seq(SUBSET (1 .. MaxSamples)))
    BY DEF TypeOK
  <2> QED BY <2>1
<1>2. \A id \in 0 .. Len(triggers) - 1 : Drawn(id)' = Drawn(id)
  BY StepKeeps, OldTriggers
<1>3. ASSUME NEW id \in 0 .. Len(triggers) PROVE DrawnBefore(id)' = DrawnBefore(id)
  <2>1. \A i \in 0 .. id - 1 : i \in 0 .. Len(triggers) - 1
    BY <1>1
  <2>2. \A i \in 0 .. id - 1 : Drawn(i)' = Drawn(i)
    BY <1>2, <2>1
  <2>3. DrawnBefore(id)' = UNION {Drawn(i)' : i \in 0 .. id - 1}
    BY DEF DrawnBefore
  <2>4. DrawnBefore(id) = UNION {Drawn(i) : i \in 0 .. id - 1}
    BY DEF DrawnBefore
  <2> HIDE DEF Drawn
  <2> QED BY <2>2, <2>3, <2>4
<1>4. ASSUME NEW id \in Nat PROVE DrawnBefore(id + 1)' = DrawnBefore(id)' \cup Drawn(id)'
  <2>1. 0 .. (id + 1) - 1 = (0 .. id - 1) \cup {id}
    OBVIOUS
  <2>2. DrawnBefore(id + 1)' = UNION {Drawn(i)' : i \in 0 .. (id + 1) - 1}
        /\ DrawnBefore(id)' = UNION {Drawn(i)' : i \in 0 .. id - 1}
    BY DEF DrawnBefore
  <2> QED BY <2>1, <2>2
<1> QED BY <1>1, <1>3, <1>4

LEMMA UsedIs ==
  UsedInv <=>
    (strategy.name = "FreshnessSamplingStrategy" =>
       /\ tail = AllData /\ used \subseteq Kept
       /\ reconnects = 0 =>
            /\ \E id \in {Len(triggers)} : used = DrawnBefore(id)
            /\ phase # "failed" => (is_first_trigger[connection] <=> triggers = <<>>))
BY DEF UsedInv, DrawnBefore
LEMMA UsedStep ==
  ASSUME TypeOK, HistoryInv, RowsInv, UsedInv, [Next]_vars
  PROVE  UsedInv'
<1> DEFINE F == strategy.name = "FreshnessSamplingStrategy"
<1>1. Keeps /\ config' = config
  BY StepKeeps DEF Keeps
<1>2. F' <=> F
  BY <1>1 DEF config
<1>3. SUFFICES ASSUME F
      PROVE  /\ tail' = AllData /\ used' \subseteq Kept'
             /\ reconnects' = 0 =>
                  /\ \E id \in {Len(triggers')} : used' = DrawnBefore(id)'
                  /\ phase' # "failed" => (is_first_trigger'[connection'] <=> triggers' = <<>>)
  BY <1>2 DEF UsedInv, DrawnBefore
<1>4. /\ tail = AllData /\ used \subseteq Kept
      /\ reconnects = 0 =>
           /\ \E id \in {Len(triggers)} : used = DrawnBefore(id)
           /\ phase # "failed" => (is_first_trigger[connection] <=> triggers = <<>>)
  BY <1>3, UsedIs
<1>5. tail' = AllData
  BY <1>1, <1>4 DEF config
<1>6. informed \in Nat
  BY SelectorAssumption DEF TypeOK
<1>7. Kept \subseteq Kept'
  BY <1>1, <1>6 DEF Keeps, Kept
<1>8. PICK id \in Nat : id = Len(triggers)
  BY DrawnBeforeIs
<1>9. DrawnBefore(id)' = DrawnBefore(id) /\ DrawnBefore(id + 1)' = DrawnBefore(id)' \cup Drawn(id)'
  BY <1>8, DrawnBeforeIs
<1>10. /\ reconnects <= reconnects' /\ reconnects \in Nat /\ reconnects' \in Nat
       /\ reconnects' = 0 =>
            /\ connection' = connection
            /\ (\E n \in 0 .. MaxBatch : InformDataAndTrigger(n))
                 \/ UNCHANGED <<is_first_trigger, downsampler_index>>
  BY FirstConnection
<1>11. triggers \in Seq(Seq(SUBSET (1 .. MaxSamples)))
  BY DEF TypeOK
<1> HIDE DEF F, DrawnBefore, Drawn
<1>12. ASSUME NEW n \in 0 .. MaxBatch, InformDataAndTrigger(n)
       PROVE  /\ used' \subseteq Kept'
              /\ reconnects' = 0 =>
                   /\ \E i \in {Len(triggers')} : used' = DrawnBefore(i)'
                   /\ is_first_trigger'[connection'] <=> triggers' = <<>>
  <2>1. PICK next \in Nat :
           /\ next = Len(triggers) /\ Len(triggers') = next + 1
           /\ Promised(next)' \in SUBSET (1 .. MaxSamples)
           /\ tail = AllData => Promised(next)' = Kept'
           /\ \E outcome \in Outcomes(Promised(next)', rows', connection, next) :
                /\ CreateTrigger(connection, outcome, n)
                /\ Drawn(next)' = Together(outcome.partitions)
    BY <1>12, TriggerDraws
  <2>2. next = id
    BY <1>8, <2>1
  <2> DEFINE S == Promised(id)'
  <2>3. S = Kept' /\ S \in SUBSET (1 .. MaxSamples)
    BY <1>4, <2>1, <2>2
  <2>4. PICK outcome \in Outcomes(S, rows', connection, id) :
          CreateTrigger(connection, outcome, n) /\ Drawn(id)' = Together(outcome.partitions)
    BY <2>1, <2>2
  <2> HIDE DEF S
  <2>5. Splits(outcome.partitions, S \cup used, Room)
    <3>1. Expected(outcome, S, connection, id)
      BY <2>3, <2>4, BehindIs, OutcomeOfTrigger
    <3> QED BY <3>1 DEF Expected
  <2>6. Drawn(id)' \subseteq Kept'
    <3>1. Together(outcome.partitions) \subseteq S \cup used
      BY <2>5 DEF Splits, Together
    <3> QED BY <1>4, <1>7, <2>3, <2>4, <3>1
  <2>7. used' = used \cup Drawn(id)'
    BY <1>3, <2>4 DEF CreateTrigger, MarkUsed, Together, F
  <2>8. reconnects' = 0 => \E i \in {Len(triggers')} : used' = DrawnBefore(i)'
    <3>1. reconnects' = 0 => used = DrawnBefore(id)
      BY <1>4, <1>8, <1>10
    <3>2. Len(triggers') = id + 1
      BY <2>1, <2>2
    <3>3. reconnects' = 0 => used' = DrawnBefore(id + 1)'
      BY <1>9, <2>7, <3>1
    <3> QED BY <3>2, <3>3
  <2>9. ~is_first_trigger'[connection]
    <3>1. is_first_trigger' = [is_first_trigger EXCEPT
            ![connection] = is_first_trigger[connection] /\ strategy.name # "FreshnessSamplingStrategy"]
      BY <2>4 DEF CreateTrigger
    <3>2. is_first_trigger \in [Processes -> BOOLEAN] /\ connection \in Processes
      BY DEF TypeOK
    <3> QED BY <1>3, <3>1, <3>2 DEF F
  <2>10. triggers' # <<>>
    BY <2>1
  <2> QED BY <1>4, <1>7, <1>10, <2>6, <2>7, <2>8, <2>9, <2>10
<1>13. ASSUME NEW n \in 0 .. MaxBatch, TriggerFails(n)
       PROVE  /\ used' \subseteq Kept' /\ phase' = "failed"
              /\ reconnects' = 0 => \E i \in {Len(triggers')} : used' = DrawnBefore(i)'
  <2>1. used' = used /\ phase' = "failed"
    BY <1>13 DEF TriggerFails, marks
  <2>2. PICK next \in Nat :
           next = Len(triggers) /\ Len(triggers') = next + 1 /\ Drawn(next)' = {}
    BY <1>13, FailedTrigger
  <2>3. next = id
    BY <1>8, <2>2
  <2>4. DrawnBefore(id + 1)' = DrawnBefore(id) /\ Len(triggers') = id + 1
    BY <1>9, <2>2, <2>3
  <2>5. reconnects' = 0 => used = DrawnBefore(id)
    BY <1>4, <1>8, <1>10
  <2> QED BY <1>4, <1>7, <2>1, <2>4, <2>5
<1>14. ASSUME UNCHANGED <<triggers, informed_until, marks>>,
              phase' = phase \/ phase' = "failed" \/ phase # "failed",
              ~\E n \in 0 .. MaxBatch : InformDataAndTrigger(n)
       PROVE  /\ used' \subseteq Kept'
              /\ reconnects' = 0 =>
                   /\ \E i \in {Len(triggers')} : used' = DrawnBefore(i)'
                   /\ phase' # "failed" => (is_first_trigger'[connection'] <=> triggers' = <<>>)
  <2>1. used' = used /\ triggers' = triggers
    BY <1>14 DEF marks
  <2>2. reconnects' = 0 => used = DrawnBefore(id)
    BY <1>4, <1>8, <1>10
  <2>3. reconnects' = 0 => \E i \in {Len(triggers')} : used' = DrawnBefore(i)'
    BY <1>8, <1>9, <2>1, <2>2
  <2>4. reconnects' = 0 => is_first_trigger' = is_first_trigger /\ connection' = connection
    BY <1>10, <1>14
  <2>5. reconnects' = 0 /\ phase' # "failed" =>
          (is_first_trigger'[connection'] <=> triggers' = <<>>)
    BY <1>4, <1>10, <1>14, <2>1, <2>4
  <2> QED BY <1>4, <1>7, <2>1, <2>3, <2>5
<1> QED BY <1>5, <1>12, <1>13, <1>14, TriggerOrNot

(* The marks of the samples drawn without replacement.                     *)
LEMMA LastUsedStep ==
  ASSUME TypeOK, HistoryInv, RowsInv, LastUsedInv, [Next]_vars
  PROVE  LastUsedInv'
<1> DEFINE R == strategy.presampling = "RandomNoReplacement"
           Marked(k, L) ==
             /\ \/ last_used_in_trigger[k] = -1
                \/ \E id \in 0 .. L - 1 : last_used_in_trigger[k] = id /\ k \in Drawn(id)
             /\ \A id \in 0 .. L - 1 : id > last_used_in_trigger[k] => k \notin Drawn(id)
<1>1. Keeps /\ config' = config
  BY StepKeeps DEF Keeps
<1>2. R' <=> R
  BY <1>1 DEF config
<1>3. PICK L \in Nat : L = Len(triggers)
  BY DrawnBeforeIs
<1>4. \A id \in 0 .. L - 1 : Drawn(id)' = Drawn(id)
  BY <1>1, <1>3, OldTriggers
<1>5. last_used_in_trigger \in [1 .. MaxSamples -> -1 .. MaxTriggers - 1] /\ MaxTriggers \in Nat
  BY SelectorAssumption DEF TypeOK
<1> HIDE DEF Drawn
<1>6. ASSUME R PROVE \A k \in 1 .. MaxSamples : Marked(k, L)
  BY <1>3, <1>6 DEF LastUsedInv
<1>7. ASSUME R, NEW n \in 0 .. MaxBatch, InformDataAndTrigger(n), NEW k \in 1 .. MaxSamples
      PROVE  Marked(k, L + 1)' /\ Len(triggers') = L + 1
  <2>1. PICK next \in Nat :
           /\ next = Len(triggers) /\ Len(triggers') = next + 1
           /\ \E outcome \in Outcomes(Promised(next)', rows', connection, next) :
                /\ CreateTrigger(connection, outcome, n)
                /\ Drawn(next)' = Together(outcome.partitions)
    BY <1>7, TriggerDraws
  <2>2. next = L
    BY <1>3, <2>1
  <2>3. PICK outcome : CreateTrigger(connection, outcome, n) /\ Drawn(L)' = Together(outcome.partitions)
    BY <2>1, <2>2
  <2>4. NextTriggerId(connection) = L
    BY <1>3, <1>7, Triggered
  <2>5. last_used_in_trigger' =
          [j \in DOMAIN last_used_in_trigger |-> IF j \in Drawn(L)' THEN L ELSE last_used_in_trigger[j]]
    BY <1>7, <2>3, <2>4 DEF CreateTrigger, UpdateLastUsed, Together
  <2>6. last_used_in_trigger'[k] = IF k \in Drawn(L)' THEN L ELSE last_used_in_trigger[k]
    BY <1>5, <2>5
  <2>7. Marked(k, L) /\ last_used_in_trigger[k] \in Int
    BY <1>5, <1>6, <1>7
  <2>8. \A id \in 0 .. (L + 1) - 1 : id = L \/ id \in 0 .. L - 1
    OBVIOUS
  <2>9. CASE k \in Drawn(L)'
    <3>1. last_used_in_trigger'[k] = L /\ L \in 0 .. (L + 1) - 1
      BY <2>6, <2>9
    <3>2. \E id \in 0 .. (L + 1) - 1 : last_used_in_trigger'[k] = id /\ k \in Drawn(id)'
      BY <2>9, <3>1
    <3>3. \A id \in 0 .. (L + 1) - 1 : ~(id > last_used_in_trigger'[k])
      BY <3>1
    <3> QED BY <2>1, <2>2, <3>2, <3>3
  <2>10. CASE k \notin Drawn(L)'
    <3>1. last_used_in_trigger'[k] = last_used_in_trigger[k]
      BY <2>6, <2>10
    <3>2. \A id \in 0 .. (L + 1) - 1 : id > last_used_in_trigger'[k] => k \notin Drawn(id)'
      BY <1>4, <2>7, <2>8, <2>10, <3>1
    <3>3. last_used_in_trigger'[k] = -1
          \/ \E id \in 0 .. (L + 1) - 1 : last_used_in_trigger'[k] = id /\ k \in Drawn(id)'
      <4>1. \A id \in 0 .. L - 1 : id \in 0 .. (L + 1) - 1
        OBVIOUS
      <4> QED BY <1>4, <2>7, <3>1, <4>1
    <3> QED BY <2>1, <2>2, <3>2, <3>3
  <2> QED BY <2>9, <2>10
<1>8. ASSUME R, NEW n \in 0 .. MaxBatch, TriggerFails(n), NEW k \in 1 .. MaxSamples
      PROVE  Marked(k, L + 1)' /\ Len(triggers') = L + 1
  <2>1. last_used_in_trigger' = last_used_in_trigger
    BY <1>8 DEF TriggerFails, marks
  <2>2. PICK next \in Nat :
           next = Len(triggers) /\ Len(triggers') = next + 1 /\ Drawn(next)' = {}
    BY <1>8, FailedTrigger
  <2>3. next = L
    BY <1>3, <2>2
  <2>4. \A id \in 0 .. (L + 1) - 1 : id = L \/ id \in 0 .. L - 1
    OBVIOUS
  <2>5. \A id \in 0 .. L - 1 : id \in 0 .. (L + 1) - 1
    OBVIOUS
  <2>6. Marked(k, L)
    BY <1>6, <1>8
  <2> QED BY <1>4, <2>1, <2>2, <2>3, <2>4, <2>5, <2>6
<1>9. ASSUME R, UNCHANGED <<triggers, marks>>, NEW k \in 1 .. MaxSamples
      PROVE  Marked(k, L)' /\ Len(triggers') = L
  BY <1>3, <1>4, <1>6, <1>9 DEF marks
<1> SUFFICES ASSUME R
             PROVE  \E M \in Nat : Len(triggers') = M /\ \A k \in 1 .. MaxSamples : Marked(k, M)'
  BY <1>2 DEF LastUsedInv
<1> HIDE DEF R, Marked
<1>10. CASE \E n \in 0 .. MaxBatch : InformDataAndTrigger(n) \/ TriggerFails(n)
  <2>1. PICK n \in 0 .. MaxBatch : InformDataAndTrigger(n) \/ TriggerFails(n)
    BY <1>10
  <2>2. \A k \in 1 .. MaxSamples : Marked(k, L + 1)'
    BY <1>7, <1>8, <2>1
  <2>3. Len(triggers') = L + 1
    BY <1>3, <2>1, TriggerDraws, FailedTrigger
  <2> QED BY <2>2, <2>3
<1>11. CASE UNCHANGED <<triggers, informed_until, marks>>
  <2>1. \A k \in 1 .. MaxSamples : Marked(k, L)'
    BY <1>9, <1>11
  <2> QED BY <1>3, <1>11, <2>1
<1> QED BY <1>10, <1>11, TriggerOrNot
-----------------------------------------------------------------------------
(* The mixture of every trigger but the first.                             *)
FreshAt(id) ==
  LET fresh == Drawn(id) \ DrawnBefore(id)
      excess == 100 * Cardinality(fresh) - strategy.ratio * Cardinality(Drawn(id))
  IN id > 0 => -100 < excess /\ excess < 100

LEMMA FreshStep ==
  ASSUME TypeOK, HistoryInv, RowsInv, UsedInv, FreshShareKept, [Next]_vars
  PROVE  FreshShareKept'
<1> DEFINE F == strategy.name = "FreshnessSamplingStrategy"
<1>1. Keeps /\ config' = config
  BY StepKeeps DEF Keeps
<1>2. strategy' = strategy
  BY <1>1 DEF config
<1>3. /\ reconnects <= reconnects' /\ reconnects \in Nat /\ reconnects' \in Nat
  BY FirstConnection
<1>4. SUFFICES ASSUME F, reconnects' = 0
               PROVE  \E M \in Nat : Len(triggers') = M /\ \A id \in 0 .. M - 1 : FreshAt(id)'
  <2>1. ASSUME NEW M \in Nat, Len(triggers') = M, \A id \in 0 .. M - 1 : FreshAt(id)'
        PROVE  FreshShareKept'
    BY <2>1 DEF FreshShareKept, FreshAt, DrawnBefore
  <2>2. ~(F /\ reconnects' = 0) => FreshShareKept'
    BY <1>2 DEF FreshShareKept
  <2> QED BY <2>1, <2>2
<1>5. reconnects = 0
  BY <1>3, <1>4
<1>6. PICK L \in Nat : L = Len(triggers)
  BY DrawnBeforeIs
<1>7. \A id \in 0 .. L - 1 : FreshAt(id)
  BY <1>4, <1>5, <1>6 DEF FreshShareKept, FreshAt, DrawnBefore
<1>8. \A id \in 0 .. L - 1 : Drawn(id)' = Drawn(id)
  BY <1>1, <1>6, OldTriggers
<1>9. \A id \in 0 .. L : DrawnBefore(id)' = DrawnBefore(id)
  BY <1>6, DrawnBeforeIs
<1>10. ASSUME NEW id \in 0 .. L - 1 PROVE FreshAt(id)'
  <2>1. FreshAt(id) /\ id \in 0 .. L
    BY <1>7
  <2>2. Drawn(id)' = Drawn(id) /\ DrawnBefore(id)' = DrawnBefore(id)
    BY <1>8, <1>9, <2>1
  <2> HIDE DEF Drawn, DrawnBefore
  <2> QED BY <1>2, <2>1, <2>2 DEF FreshAt
<1> HIDE DEF Drawn, DrawnBefore
<1>11. ASSUME NEW n \in 0 .. MaxBatch, InformDataAndTrigger(n)
       PROVE  Len(triggers') = L + 1 /\ FreshAt(L)'
  <2>1. PICK next \in Nat :
           /\ next = Len(triggers) /\ Len(triggers') = next + 1
           /\ Promised(next)' \in SUBSET (1 .. MaxSamples)
           /\ \E outcome \in Outcomes(Promised(next)', rows', connection, next) :
                Drawn(next)' = Together(outcome.partitions)
    BY <1>11, TriggerDraws
  <2>2. next = L
    BY <1>6, <2>1
  <2> DEFINE S == Promised(L)'
             D == Drawn(L)'
  <2>3. PICK outcome \in Outcomes(S, rows', connection, L) : D = Together(outcome.partitions)
    BY <2>1, <2>2
  <2>4. S \in SUBSET (1 .. MaxSamples)
    BY <2>1, <2>2
  <2>5. CASE L = 0
    BY <2>1, <2>2, <2>5 DEF FreshAt
  <2>6. CASE L # 0
    <3>1. phase = "informing"
      BY <1>11, Triggered
    <3>2. used = DrawnBefore(L) /\ (is_first_trigger[connection] <=> triggers = <<>>)
      BY <1>4, <1>5, <1>6, <3>1, UsedIs
    <3>3. triggers # <<>>
      BY <1>6, <2>6
    <3> HIDE DEF S
    <3>4. Mixture(D, S)
      <4> HIDE DEF D
      <4>1. is_first_trigger[connection] = FALSE /\ connection \in Processes
        <5>1. is_first_trigger \in [Processes -> BOOLEAN] /\ connection \in Processes
          BY DEF TypeOK
        <5>2. is_first_trigger[connection] \in BOOLEAN
          BY <5>1
        <5> QED BY <3>2, <3>3, <5>1, <5>2
      <4>2. Mixture(Together(outcome.partitions), S)
        <5>1. Expected(outcome, S, connection, L)
          BY <2>4, <4>1, OutcomeOfTrigger
        <5> QED BY <1>4, <4>1, <5>1 DEF Expected
      <4> QED BY <2>3, <4>2
    <3>5. PICK A \in SUBSET (S \ used), B \in SUBSET used : D = A \cup B /\ MixtureKept(A, B)
      BY <3>4 DEF Mixture
    <3>6. used \in SUBSET (1 .. MaxSamples) /\ MaxSamples \in Nat
      BY Configured DEF TypeOK
    <3>7. A \in SUBSET (1 .. MaxSamples) /\ B \in SUBSET (1 .. MaxSamples)
      BY <2>4, <3>6
    <3>8. IsFiniteSet(A) /\ IsFiniteSet(B)
      BY <3>6, <3>7, NaturalsFinite
    <3>9. A \cap B = {} /\ D \ used = A
      BY <3>5
    <3>10. Cardinality(D) = Cardinality(A) + Cardinality(B)
      <4> HIDE DEF D
      <4>1. Cardinality(A \cup B) = Cardinality(A) + Cardinality(B)
        BY <3>8, <3>9, UnionFinite
      <4> QED BY <3>5, <4>1
    <3>11. DrawnBefore(L)' = used
      BY <1>9, <3>2
    <3>12. FreshAt(L)' <=>
             (LET excess == 100 * Cardinality(D \ DrawnBefore(L)') - strategy'.ratio * Cardinality(D)
              IN L > 0 => -100 < excess /\ excess < 100)
      BY DEF FreshAt
    <3> HIDE DEF D
    <3>13. FreshAt(L)'
      BY <1>2, <3>5, <3>9, <3>10, <3>11, <3>12 DEF MixtureKept
    <3> QED BY <2>1, <2>2, <3>13
  <2> QED BY <2>5, <2>6
<1>12. ASSUME NEW n \in 0 .. MaxBatch, TriggerFails(n)
       PROVE  Len(triggers') = L + 1 /\ FreshAt(L)'
  <2>1. PICK next \in Nat :
           next = Len(triggers) /\ Len(triggers') = next + 1 /\ Drawn(next)' = {}
    BY <1>12, FailedTrigger
  <2>2. next = L
    BY <1>6, <2>1
  <2>3. strategy.ratio \in Nat /\ Cardinality({}) = 0
    BY Configured, FS_EmptySet
  <2>4. 100 * Cardinality({}) - strategy.ratio * Cardinality({}) = 0
    BY <2>3
  <2>5. {} \ DrawnBefore(L)' = {}
    OBVIOUS
  <2> DEFINE D == Drawn(L)'
             before == DrawnBefore(L)'
  <2>6. FreshAt(L)' <=>
          (LET excess == 100 * Cardinality(D \ before) - strategy'.ratio * Cardinality(D)
           IN L > 0 => -100 < excess /\ excess < 100)
    BY DEF FreshAt
  <2>7. D = {} /\ D \ before = {}
    BY <2>1, <2>2, <2>5
  <2> HIDE DEF D, before
  <2>8. FreshAt(L)'
    BY <1>2, <2>4, <2>6, <2>7
  <2> QED BY <2>1, <2>2, <2>8
<1> HIDE DEF FreshAt
<1>13. CASE \E n \in 0 .. MaxBatch : InformDataAndTrigger(n) \/ TriggerFails(n)
  <2>1. Len(triggers') = L + 1 /\ FreshAt(L)'
    BY <1>11, <1>12, <1>13
  <2>2. \A id \in 0 .. (L + 1) - 1 : id = L \/ id \in 0 .. L - 1
    OBVIOUS
  <2> QED BY <1>10, <2>1, <2>2
<1>14. CASE UNCHANGED <<triggers, informed_until, marks>>
  BY <1>6, <1>10, <1>14
<1> QED BY <1>13, <1>14, TriggerOrNot
-----------------------------------------------------------------------------
(* The downsampler of the process that computed all triggers.              *)
LEMMA ThresholdsIncrease ==
  ASSUME NEW i \in 1 .. Len(Thresholds), NEW j \in 1 .. Len(Thresholds), i < j
  PROVE  Thresholds[i] < Thresholds[j]
<1> DEFINE T == {d \in Nat : i + d + 1 <= Len(Thresholds) => Thresholds[i] < Thresholds[i + d + 1]}
<1>1. /\ \A h \in 1 .. Len(Thresholds) : Thresholds[h] \in Nat
      /\ \A h \in 1 .. Len(Thresholds) - 1 : Thresholds[h] < Thresholds[h + 1]
      /\ Len(Thresholds) \in Nat
  BY SelectorAssumption
<1>2. 0 \in T
  BY <1>1
<1>3. ASSUME NEW d \in Nat, d \in T PROVE d + 1 \in T
  <2> SUFFICES ASSUME i + (d + 1) + 1 <= Len(Thresholds)
               PROVE  Thresholds[i] < Thresholds[i + (d + 1) + 1]
    OBVIOUS
  <2>1. Thresholds[i] < Thresholds[i + d + 1]
    BY <1>1, <1>3
  <2> DEFINE h == i + d + 1
  <2>2. h \in 1 .. Len(Thresholds) - 1 /\ i + (d + 1) + 1 = h + 1 /\ h + 1 \in 1 .. Len(Thresholds)
    BY <1>1
  <2> HIDE DEF h
  <2>3. Thresholds[h] < Thresholds[h + 1] /\ Thresholds[h] \in Nat /\ Thresholds[h + 1] \in Nat
    BY <1>1, <2>2
  <2>4. Thresholds[i] < Thresholds[h] /\ Thresholds[i] \in Nat
    BY <1>1, <2>1 DEF h
  <2> QED BY <2>2, <2>3, <2>4
<1>4. Nat \subseteq T
  <2> HIDE DEF T
  <2> QED BY <1>2, <1>3, NatSetInduction
<1>5. j - i - 1 \in Nat /\ i + (j - i - 1) + 1 = j
  BY <1>1
<1>6. j - i - 1 \in T
  BY <1>4, <1>5
<1> QED BY <1>1, <1>5, <1>6

LEMMA DownsamplerStep ==
  ASSUME TypeOK, HistoryInv, DownsamplerInv, [Next]_vars
  PROVE  DownsamplerInv'
<1> DEFINE Reached(d, L) ==
             /\ \A i \in 1 .. d : Thresholds[i] <= L
             /\ \A i \in d + 1 .. Len(Thresholds) : Thresholds[i] > L
<1>1. /\ reconnects <= reconnects' /\ reconnects \in Nat /\ reconnects' \in Nat
      /\ reconnects' = 0 =>
           /\ connection' = connection
           /\ (\E n \in 0 .. MaxBatch : InformDataAndTrigger(n))
                \/ UNCHANGED <<is_first_trigger, downsampler_index>>
  BY FirstConnection
<1> SUFFICES ASSUME reconnects' = 0, phase' # "failed"
             PROVE  Reached(downsampler_index'[connection'], Len(triggers'))
  BY DEF DownsamplerInv
<1>2. phase # "failed"
  <2>1. SUFFICES ASSUME phase = "failed" PROVE FALSE
    OBVIOUS
  <2>2. phase' = phase
    BY <2>1, FailedStays DEF vars
  <2> QED BY <2>1, <2>2
<1>3. reconnects = 0 /\ connection' = connection /\ connection \in Processes
  BY <1>1, BehindIs
<1>4. PICK L \in Nat : L = Len(triggers)
  BY DrawnBeforeIs
<1>5. PICK d \in 0 .. Len(Thresholds) : d = downsampler_index[connection]
  BY <1>3 DEF TypeOK
<1>6. Reached(d, L)
  BY <1>2, <1>3, <1>4, <1>5 DEF DownsamplerInv
<1>7. CASE \E n \in 0 .. MaxBatch : InformDataAndTrigger(n)
  <2>1. PICK n \in 0 .. MaxBatch : InformDataAndTrigger(n)
    BY <1>7
  <2>2. Len(triggers') = L + 1 /\ NextTriggerId(connection) = L
    BY <1>4, <2>1, TriggerLeavesNotBehind, Triggered
  <2>3. PICK outcome : CreateTrigger(connection, outcome, n)
    BY <2>1, Triggered
  <2>4. downsampler_index' = [downsampler_index EXCEPT
                                ![connection] = InformNextTrigger(downsampler_index[connection], L + 1)]
    BY <2>2, <2>3 DEF CreateTrigger
  <2>5. downsampler_index \in [Processes -> 0 .. Len(Thresholds)]
    BY DEF TypeOK
  <2>6. downsampler_index'[connection'] = InformNextTrigger(d, L + 1)
    BY <1>3, <1>5, <2>4, <2>5
  <2>7. /\ \A h \in 1 .. Len(Thresholds) : Thresholds[h] \in Nat
        /\ Len(Thresholds) \in Nat
    BY SelectorAssumption
  <2>8. CASE d < Len(Thresholds) /\ L + 1 >= Thresholds[d + 1]
    <3>1. InformNextTrigger(d, L + 1) = d + 1
      BY <2>8 DEF InformNextTrigger
    <3>2. d + 1 \in 1 .. Len(Thresholds) /\ Thresholds[d + 1] > L /\ Thresholds[d + 1] \in Nat
      BY <1>6, <2>7, <2>8
    <3>3. \A i \in 1 .. d + 1 : Thresholds[i] <= L + 1
      BY <1>6, <2>7, <2>8
    <3>4. ASSUME NEW i \in d + 2 .. Len(Thresholds) PROVE Thresholds[i] > L + 1
      <4>1. i \in 1 .. Len(Thresholds) /\ d + 1 < i
        BY <2>7
      <4>2. Thresholds[d + 1] < Thresholds[i]
        BY <3>2, <4>1, ThresholdsIncrease
      <4> QED BY <2>7, <3>2, <4>1, <4>2
    <3> QED BY <2>2, <2>6, <2>7, <3>1, <3>3, <3>4
  <2>9. CASE ~(d < Len(Thresholds) /\ L + 1 >= Thresholds[d + 1])
    <3>1. InformNextTrigger(d, L + 1) = d
      BY <2>9 DEF InformNextTrigger
    <3>2. \A i \in 1 .. d : Thresholds[i] <= L + 1
      BY <1>6, <2>7
    <3>3. ASSUME NEW i \in d + 1 .. Len(Thresholds) PROVE Thresholds[i] > L + 1
      <4>1. d + 1 \in 1 .. Len(Thresholds) /\ i \in 1 .. Len(Thresholds) /\ (i = d + 1 \/ d + 1 < i)
        BY <2>7
      <4>2. Thresholds[d + 1] > L + 1
        BY <2>7, <2>9, <4>1
      <4>3. d + 1 < i => Thresholds[d + 1] < Thresholds[i]
        BY <4>1, ThresholdsIncrease
      <4> QED BY <2>7, <4>1, <4>2, <4>3
    <3> QED BY <2>2, <2>6, <3>1, <3>2, <3>3
  <2> QED BY <2>8, <2>9
<1>8. CASE ~\E n \in 0 .. MaxBatch : InformDataAndTrigger(n)
  <2>1. downsampler_index' = downsampler_index
    BY <1>1, <1>8
  <2>2. ASSUME NEW n \in 0 .. MaxBatch, TriggerFails(n) PROVE FALSE
    BY <2>2 DEF TriggerFails
  <2>3. triggers' = triggers
    BY <1>8, <2>2, TriggerOrNot
  <2> QED BY <1>3, <1>4, <1>5, <1>6, <2>1, <2>3
<1> QED BY <1>7, <1>8
-----------------------------------------------------------------------------
(* The answer to a training is that of the process for what it knows.      *)
LEMMA ResponseStep ==
  ASSUME TypeOK, ResponseInv, [Next]_vars
  PROVE  ResponseInv'
<1>1. phase # "training" => response.kind = "none"
  BY DEF ResponseInv
<1>2. ASSUME phase # "training", response' = response PROVE ResponseInv'
  BY <1>1, <1>2 DEF ResponseInv
<1>3. ASSUME NEW n \in 1 .. MaxBatch, InformData(n) PROVE ResponseInv'
  BY <1>2, <1>3 DEF InformData
<1>4. ASSUME NEW n \in 0 .. MaxBatch,
             InformDataAndTrigger(n) \/ InformDataAndTriggerFails(n) \/ TriggerFails(n)
      PROVE  ResponseInv'
  BY <1>2, <1>4 DEF InformDataAndTrigger, InformDataAndTriggerFails, TriggerFails
<1>5. ASSUME NEW p \in Processes, Answered(p) PROVE ResponseInv'
  <2>1. /\ phase' = "training" /\ UNCHANGED <<triggers, tail, rows, downsampler_index>>
        /\ next_trigger_id'[p] = NextTriggerId(p)
    BY <1>5, Populated DEF Answered, Served, config, data
  <2>2. PICK id : id = Len(triggers) - 1
    OBVIOUS
  <2>3. PICK next : next = NextTriggerId(p)
    OBVIOUS
  <2>4. response' \in {SizesAnswer(p, id), SamplesAnswer(p, id), StrategyAnswer(p),
                       [kind |-> "labels", process |-> p, labels |-> AvailableLabels(next)]}
    BY <1>5, <2>2, <2>3 DEF Answered, LabelsAnswer
  <2>5. /\ SizesAnswer(p, id)' = SizesAnswer(p, id) /\ SamplesAnswer(p, id)' = SamplesAnswer(p, id)
        /\ StrategyAnswer(p)' = StrategyAnswer(p) /\ AvailableLabels(next)' = AvailableLabels(next)
    BY <2>1 DEF SizesAnswer, SamplesAnswer, StrategyAnswer, AvailableLabels, NumberOfSamples,
       NumberOfPartitions, TriggerRow, TriggerPartitionKeys
  <2>6. id \in {Len(triggers') - 1} /\ next \in {next_trigger_id'[p]}
    BY <2>1, <2>2, <2>3
  <2>7. response' \in {SizesAnswer(p, id)', SamplesAnswer(p, id)', StrategyAnswer(p)',
                       [kind |-> "labels", process |-> p, labels |-> AvailableLabels(next)']}
    BY <2>4, <2>5
  <2> HIDE DEF SizesAnswer, SamplesAnswer, StrategyAnswer, AvailableLabels
  <2> QED BY <2>1, <2>6, <2>7 DEF ResponseInv
<1>6. ASSUME EndTraining PROVE ResponseInv'
  BY <1>6 DEF EndTraining, NoResponse, ResponseInv
<1>7. ASSUME Restart PROVE ResponseInv'
  BY <1>2, <1>7 DEF Restart
<1>8. ASSUME Reconnect \/ UNCHANGED vars PROVE ResponseInv'
  <2>1. UNCHANGED <<phase, response, triggers, tail, rows, downsampler_index, next_trigger_id>>
    BY <1>8 DEF Reconnect, vars, local, config, data
  <2>2. CASE response.kind = "none"
    BY <2>1, <2>2 DEF ResponseInv
  <2>3. CASE response.kind # "none"
    <3>1. PICK p \in Processes : \E id \in {Len(triggers) - 1}, next \in {next_trigger_id[p]} :
            phase = "training" /\
            response \in {SizesAnswer(p, id), SamplesAnswer(p, id), StrategyAnswer(p),
                          [kind |-> "labels", process |-> p, labels |-> AvailableLabels(next)]}
      BY <2>3 DEF ResponseInv
    <3>2. PICK id \in {Len(triggers) - 1}, next \in {next_trigger_id[p]} :
            phase = "training" /\
            response \in {SizesAnswer(p, id), SamplesAnswer(p, id), StrategyAnswer(p),
                          [kind |-> "labels", process |-> p, labels |-> AvailableLabels(next)]}
      BY <3>1
    <3>3. /\ SizesAnswer(p, id)' = SizesAnswer(p, id) /\ SamplesAnswer(p, id)' = SamplesAnswer(p, id)
          /\ StrategyAnswer(p)' = StrategyAnswer(p) /\ AvailableLabels(next)' = AvailableLabels(next)
      BY <2>1 DEF SizesAnswer, SamplesAnswer, StrategyAnswer, AvailableLabels, NumberOfSamples,
         NumberOfPartitions, TriggerRow, TriggerPartitionKeys
    <3>4. id \in {Len(triggers') - 1} /\ next \in {next_trigger_id'[p]} /\ phase' = "training"
      BY <2>1, <3>2
    <3>5. response' \in {SizesAnswer(p, id)', SamplesAnswer(p, id)', StrategyAnswer(p)',
                         [kind |-> "labels", process |-> p, labels |-> AvailableLabels(next)']}
      BY <2>1, <3>2, <3>3
    <3> HIDE DEF SizesAnswer, SamplesAnswer, StrategyAnswer, AvailableLabels
    <3> QED BY <3>4, <3>5 DEF ResponseInv
  <2> QED BY <2>2, <2>3
<1> QED BY <1>3, <1>4, <1>5, <1>6, <1>7, <1>8, StepsOfNext
-----------------------------------------------------------------------------
LEMMA InitHolds ==
  ASSUME Init
  PROVE  IInv
<1>1. TypeOK
  <2>1. /\ strategy \in Strategies /\ tail \in Tails \cup {AllData} /\ limit \in Limits
        /\ connection \in Processes
    BY DEF Init, TailsOf
  <2>2. /\ MaxSamples \in Nat /\ MaxTriggers \in Nat \ {0} /\ MaxReconnects \in Nat
        /\ MaxFailedInsertions \in Nat /\ keys_in_selector_cache \in Nat /\ Len(Thresholds) \in Nat
    BY SelectorAssumption
  <2>3. triggers \in Seq(Seq(SUBSET (1 .. MaxSamples))) /\ Len(triggers) = 0
        /\ informed_until \in Seq(0 .. MaxSamples)
    BY DEF Init
  <2>4. /\ next_trigger_id \in [Processes -> 0 .. MaxTriggers]
        /\ trigger_cache \in [Processes -> SUBSET (0 .. MaxTriggers - 1)]
        /\ current_keys_in_cache \in [Processes -> 0 .. keys_in_selector_cache]
        /\ downsampler_index \in [Processes -> 0 .. Len(Thresholds)]
        /\ is_first_trigger \in [Processes -> BOOLEAN]
        /\ last_complete_trigger \in [Processes -> 0 .. MaxTriggers - 1]
        /\ last_used_in_trigger \in [1 .. MaxSamples -> -1 .. MaxTriggers - 1]
    BY <2>2 DEF Init
  <2>5. /\ informed = 0 /\ lost = {} /\ failed_insertions = 0 /\ rows = {} /\ used = {}
        /\ reconnects = 0 /\ phase = "informing" /\ selectors = {} /\ response.kind = "none"
    BY DEF Init, NoResponse
  <2>6. /\ informed \in 0 .. MaxSamples /\ failed_insertions \in 0 .. MaxFailedInsertions
        /\ reconnects \in 0 .. MaxReconnects /\ Len(triggers) <= MaxTriggers
    BY <2>2, <2>3, <2>5
  <2>7. /\ lost \subseteq 1 .. informed /\ rows \subseteq (1 .. MaxSamples) \X (0 .. MaxTriggers)
        /\ used \subseteq 1 .. MaxSamples /\ selectors \subseteq Processes
        /\ phase \in {"informing", "training", "failed"}
        /\ response.kind \in {"none", "sizes", "samples", "labels", "strategy"}
    BY <2>5
  <2> QED BY <2>1, <2>3, <2>4, <2>6, <2>7 DEF TypeOK
<1>2. triggers = <<>> /\ informed_until = <<>> /\ Len(triggers) = 0 /\ phase = "informing"
      /\ reconnects = 0 /\ rows = {} /\ informed = 0 /\ lost = {} /\ used = {} /\ selectors = {}
      /\ connection \in Processes /\ response.kind = "none"
  BY DEF Init, NoResponse
<1>3. ~Behind
  BY <1>2 DEF Behind, NextTriggerId
<1>4. RowsInv
  <2>1. Kept = {}
    BY <1>2 DEF Kept
  <2> QED BY <1>2, <2>1 DEF RowsInv, RowsAre
<1>5. ConnectionInv
  BY <1>3 DEF ConnectionInv, Init
<1>6. HistoryInv
  BY <1>2 DEF HistoryInv
<1>7. UsedInv
  <2>1. \A id \in {Len(triggers)} : DrawnBefore(id) = {}
    BY <1>2 DEF DrawnBefore
  <2>2. strategy.name = "FreshnessSamplingStrategy" => tail = AllData
    BY DEF Init, TailsOf
  <2>3. is_first_trigger[connection]
    BY <1>2 DEF Init
  <2> QED BY <1>2, <2>1, <2>2, <2>3, UsedIs
<1>8. LastUsedInv
  BY <1>2 DEF LastUsedInv, Init
<1>9. ResponseInv
  BY <1>2 DEF ResponseInv
<1>10. DownsamplerInv
  <2>1. downsampler_index[connection] = 0
    BY <1>2 DEF Init
  <2>2. \A i \in 1 .. Len(Thresholds) : Thresholds[i] \in Nat \ {0}
    BY SelectorAssumption
  <2> QED BY <1>2, <2>1, <2>2 DEF DownsamplerInv
<1>11. TrainingSetFollowsPolicy /\ PresampledAsConfigured /\ FreshShareKept
  BY <1>2 DEF TrainingSetFollowsPolicy, PresampledAsConfigured, FreshShareKept
<1> QED BY <1>1, <1>4, <1>5, <1>6, <1>7, <1>8, <1>9, <1>10, <1>11 DEF IInv, OnceReconnected

LEMMA StepHolds ==
  ASSUME IInv, [Next]_vars
  PROVE  IInv'
<1>1. TypeOK /\ (reconnects <= 1 => OnceReconnected)
  BY DEF IInv
<1>2. TypeOK'
  BY <1>1, TypeStep
<1>3. ASSUME reconnects' <= 1 PROVE OnceReconnected'
  <2>1. reconnects <= 1
    BY <1>1, <1>3, FirstConnection
  <2>2. /\ RowsInv /\ ConnectionInv /\ HistoryInv /\ UsedInv /\ LastUsedInv /\ ResponseInv
        /\ DownsamplerInv /\ (RoomForTwo => TrainingSetFollowsPolicy)
        /\ PresampledAsConfigured /\ FreshShareKept
    BY <1>1, <2>1 DEF OnceReconnected
  <2>3. RowsInv'
    BY <1>1, <1>3, <2>2, RowsStep
  <2>4. ConnectionInv'
    BY <1>1, <2>2, ConnectionStep
  <2>5. HistoryInv'
    BY <1>1, <2>2, HistoryStep
  <2>6. UsedInv'
    BY <1>1, <2>2, UsedStep
  <2>7. LastUsedInv'
    BY <1>1, <2>2, LastUsedStep
  <2>8. ResponseInv'
    BY <1>1, <2>2, ResponseStep
  <2>9. DownsamplerInv'
    BY <1>1, <2>2, DownsamplerStep
  <2>10. RoomForTwo => TrainingSetFollowsPolicy'
    BY <1>1, <1>3, <2>2, PolicyStep
  <2>11. FreshShareKept'
    BY <1>1, <2>2, FreshStep
  <2>12. PresampledAsConfigured'
    BY <1>1, <2>2, PresampledStep
  <2> QED BY <2>3, <2>4, <2>5, <2>6, <2>7, <2>8, <2>9, <2>10, <2>11, <2>12 DEF OnceReconnected, RoomForTwo
<1> QED BY <1>2, <1>3 DEF IInv
-----------------------------------------------------------------------------
(* The answers to a training.                                              *)
LEMMA LabelsOfTrigger ==
  ASSUME TypeOK, HistoryInv, RowsAre(rows, Kept, informed_until),
         NEW id \in Nat, id + 1 = Len(triggers)
  PROVE  AvailableLabels(id + 1) = {Label[k] : k \in Promised(id)}
<1> DEFINE L == id + 1
           before == IF tail = AllData THEN 0 ELSE id - tail
           low == IF before <= 0 THEN 1 ELSE informed_until[before] + 1
           P == Promised(id)
           Q == {q \in rows : q[2] < L /\ (tail = AllData \/ q[2] >= L - tail - 1)}
<1>1. L \in Nat /\ (tail = AllData \/ tail \in Nat) /\ AllData \notin Nat /\ informed \in Nat
      /\ MaxSamples \in Nat
  BY Configured, SelectorAssumption DEF TypeOK
<1>2. /\ \A i \in 1 .. L : informed_until[i] \in Nat /\ informed_until[i] <= informed
      /\ Len(informed_until) = L
  <2>1. informed_until \in Seq(0 .. MaxSamples)
    BY DEF TypeOK
  <2> QED BY <1>1, <2>1 DEF HistoryInv
<1>3. /\ {r[1] : r \in rows} = Kept
      /\ \A r \in rows : /\ r[2] \in 0 .. L
                         /\ \A i \in 1 .. r[2] : informed_until[i] < r[1]
                         /\ \A i \in r[2] + 1 .. L : r[1] <= informed_until[i]
  BY <1>2 DEF RowsAre
<1>4. P = (low .. informed_until[L]) \ lost
  BY DEF Promised
<1>5. /\ before \in Int /\ (tail = AllData => before = 0) /\ (tail # AllData => before = L - tail - 1)
      /\ before <= 0 \/ before \in 1 .. L
  BY <1>1
<1> HIDE DEF before
<1>6. low \in Nat \ {0} /\ (before <= 0 => low = 1) /\ (before > 0 => low = informed_until[before] + 1)
  BY <1>2, <1>5
<1> HIDE DEF low, P
<1>7. ASSUME NEW r \in rows PROVE r \in Q <=> r[1] \in P
  <2>1. r[1] \in (1 .. informed) \ lost /\ r[2] \in 0 .. L /\ r[1] \in Nat
    BY <1>1, <1>3 DEF Kept
  <2>2. r[2] < L <=> r[1] <= informed_until[L]
    <3>1. r[2] < L => r[1] <= informed_until[L]
      BY <1>1, <1>3, <2>1
    <3>2. r[2] = L => informed_until[L] < r[1]
      BY <1>1, <1>3, <2>1
    <3>3. L \in 1 .. L
      BY <1>1
    <3> QED BY <1>1, <1>2, <2>1, <3>1, <3>2, <3>3
  <2>3. (tail = AllData \/ r[2] >= L - tail - 1) <=> r[1] >= low
    <3>1. (tail = AllData \/ r[2] >= L - tail - 1) <=> r[2] >= before
      BY <1>1, <1>5, <2>1
    <3>2. CASE before <= 0
      BY <1>5, <1>6, <2>1, <3>1, <3>2
    <3>3. CASE before > 0
      <4>1. before \in 1 .. L
        BY <1>5, <3>3
      <4>2. r[2] >= before => informed_until[before] < r[1]
        BY <1>3, <2>1, <4>1
      <4>3. r[2] < before => r[1] <= informed_until[before]
        BY <1>3, <2>1, <4>1
      <4> QED BY <1>2, <1>6, <2>1, <3>1, <3>3, <4>1, <4>2, <4>3
    <3> QED BY <1>5, <3>2, <3>3
  <2>4. r[1] \in P <=> r[1] >= low /\ r[1] <= informed_until[L]
    <3>1. informed_until[L] \in Nat
      BY <1>1, <1>2
    <3> QED BY <1>4, <1>6, <2>1, <3>1
  <2> QED BY <2>2, <2>3, <2>4
<1>8. P \subseteq {r[1] : r \in rows}
  <2>1. informed_until[L] \in Nat /\ informed_until[L] <= informed
    BY <1>1, <1>2
  <2>2. P \subseteq Kept
    BY <1>1, <1>4, <1>6, <2>1 DEF Kept
  <2> QED BY <1>3, <2>2
<1>9. AvailableLabels(L) = {Label[r[1]] : r \in Q}
  BY DEF AvailableLabels
<1> HIDE DEF Q
<1>10. Q \subseteq rows
  BY DEF Q
<1>11. {Label[r[1]] : r \in Q} = {Label[k] : k \in P}
  BY <1>7, <1>8, <1>10
<1> QED BY <1>9, <1>11 DEF P

LEMMA Answers ==
  ASSUME IInv, RoomForTwo, reconnects <= 1
  PROVE  AnswersExact
<1>1. /\ TypeOK /\ RowsInv /\ HistoryInv /\ ResponseInv /\ DownsamplerInv /\ TrainingSetFollowsPolicy
  BY DEF IInv, OnceReconnected
<1>2. CASE response.kind = "none"
  BY <1>2 DEF AnswersExact
<1>3. CASE response.kind # "none"
  <2>1. phase = "training" /\ triggers # <<>>
    BY <1>1, <1>3 DEF ResponseInv, HistoryInv
  <2>2. triggers \in Seq(Seq(SUBSET (1 .. MaxSamples))) /\ MaxSamples \in Nat
        /\ maximum_keys_in_memory \in Nat
    BY <1>1, Configured DEF TypeOK
  <2>3. PICK id \in Nat : id + 1 = Len(triggers) /\ id = Len(triggers) - 1
    <3>1. Len(triggers) \in Nat /\ Len(triggers) # 0
      BY <2>1, <2>2
    <3>2. Len(triggers) - 1 \in Nat /\ (Len(triggers) - 1) + 1 = Len(triggers)
      BY <3>1
    <3> DEFINE last == Len(triggers) - 1
    <3>3. last \in Nat /\ last + 1 = Len(triggers) /\ last = Len(triggers) - 1
      BY <3>2
    <3> QED BY <3>3
  <2> DEFINE ps == triggers[id + 1]
  <2>4. id \in 0 .. Len(triggers) - 1
    BY <2>3
  <2>5. /\ Drawn(id) \subseteq Promised(id)
        /\ \A i, j \in DOMAIN ps : i # j => ps[i] \cap ps[j] = {}
        /\ \A i \in DOMAIN ps : Cardinality(ps[i]) <= maximum_keys_in_memory
    BY <1>1, <2>4 DEF TrainingSetFollowsPolicy
  <2>6. ps \in Seq(SUBSET (1 .. MaxSamples))
    <3>1. id + 1 \in 1 .. Len(triggers)
      BY <2>3
    <3> QED BY <2>2, <3>1
  <2>7. Splits(ps, 1 .. MaxSamples, maximum_keys_in_memory)
    BY <2>5, <2>6 DEF Splits
  <2>8. Drawn(id) = Together(ps)
    BY DEF Drawn, Together
  <2>9. \E p \in Processes : \E i \in {Len(triggers) - 1}, next \in {next_trigger_id[p]} :
          response \in {SizesAnswer(p, i), SamplesAnswer(p, i), StrategyAnswer(p),
                        [kind |-> "labels", process |-> p, labels |-> AvailableLabels(next)]}
    BY <1>1, <1>3 DEF ResponseInv
  <2>10. PICK p \in Processes :
          response \in {SizesAnswer(p, id), SamplesAnswer(p, id), StrategyAnswer(p),
                        [kind |-> "labels", process |-> p, labels |-> AvailableLabels(next_trigger_id[p])]}
    BY <2>3, <2>9
  <2> HIDE DEF ps
  <2>11. response.kind = "sizes" =>
           /\ response.num_samples = Cardinality(Drawn(id))
           /\ response.num_samples <= response.num_partitions * maximum_keys_in_memory
    <3>1. SUFFICES ASSUME response.kind = "sizes"
                   PROVE  /\ response.num_samples = Cardinality(Drawn(id))
                          /\ response.num_samples <= response.num_partitions * maximum_keys_in_memory
      OBVIOUS
    <3>2. response = SizesAnswer(p, id)
      BY <2>10, <3>1 DEF SizesAnswer, SamplesAnswer, StrategyAnswer
    <3>3. response.num_samples = NumKeys(ps) /\ response.num_partitions = Len(ps)
      BY <3>2 DEF SizesAnswer, NumberOfSamples, NumberOfPartitions, TriggerRow, ps
    <3>4. NumKeys(ps) = Cardinality(Together(ps))
      BY <2>2, <2>6, NumKeysIs
    <3>5. IsFiniteSet(1 .. MaxSamples)
      BY <2>2, FS_Interval
    <3>6. Cardinality(Together(ps)) <= Len(ps) * maximum_keys_in_memory
      BY <2>2, <2>7, <3>5, TogetherBound
    <3> QED BY <2>8, <3>3, <3>4, <3>6
  <2>12. response.kind = "samples" => response.samples \subseteq Promised(id)
    <3>1. SUFFICES ASSUME response.kind = "samples" PROVE response.samples \subseteq Promised(id)
      OBVIOUS
    <3>2. response = SamplesAnswer(p, id)
      BY <2>10, <3>1 DEF SizesAnswer, SamplesAnswer, StrategyAnswer
    <3>3. response.samples = UNION {ps[i] : i \in 1 .. Len(ps)}
      BY <3>2 DEF SamplesAnswer, NumberOfPartitions, TriggerPartitionKeys, TriggerRow, ps
    <3>4. DOMAIN ps = 1 .. Len(ps)
      BY <2>6
    <3> QED BY <2>5, <2>8, <3>3, <3>4 DEF Together
  <2>13. (response.kind = "labels" /\ next_trigger_id[response.process] = Len(triggers)) =>
            response.labels = {Label[k] : k \in Promised(id)}
    <3>1. SUFFICES ASSUME response.kind = "labels", next_trigger_id[response.process] = Len(triggers)
                   PROVE  response.labels = {Label[k] : k \in Promised(id)}
      OBVIOUS
    <3>2. response.process = p /\ response.labels = AvailableLabels(next_trigger_id[p])
      BY <2>10, <3>1 DEF SizesAnswer, SamplesAnswer, StrategyAnswer
    <3>3. RowsAre(rows, Kept, informed_until)
      BY <1>1, <2>1, NotBehindRows
    <3>4. AvailableLabels(id + 1) = {Label[k] : k \in Promised(id)}
      BY <1>1, <2>3, <3>3, LabelsOfTrigger
    <3> QED BY <2>3, <3>1, <3>2, <3>4
  <2>14. (response.kind = "strategy" /\ reconnects = 0 /\ response.process = connection) =>
            response.downsampler = Cardinality({i \in DOMAIN Thresholds : Thresholds[i] <= Len(triggers)})
    <3>1. SUFFICES ASSUME response.kind = "strategy", reconnects = 0, response.process = connection
                   PROVE  response.downsampler
                            = Cardinality({i \in DOMAIN Thresholds : Thresholds[i] <= Len(triggers)})
      OBVIOUS
    <3>2. response.process = p /\ response.downsampler = downsampler_index[p]
      BY <2>10, <3>1 DEF SizesAnswer, SamplesAnswer, StrategyAnswer
    <3>3. PICK d \in 0 .. Len(Thresholds) : d = downsampler_index[connection]
      BY <1>1, BehindIs DEF TypeOK
    <3>4. /\ \A i \in 1 .. d : Thresholds[i] <= Len(triggers)
          /\ \A i \in d + 1 .. Len(Thresholds) : Thresholds[i] > Len(triggers)
      BY <1>1, <2>1, <3>1, <3>3 DEF DownsamplerInv
    <3>5. /\ DOMAIN Thresholds = 1 .. Len(Thresholds) /\ Len(Thresholds) \in Nat
          /\ \A i \in 1 .. Len(Thresholds) : Thresholds[i] \in Nat
      BY SelectorAssumption
    <3>6. {i \in DOMAIN Thresholds : Thresholds[i] <= Len(triggers)} = 1 .. d
      BY <2>3, <3>4, <3>5
    <3>7. Cardinality(1 .. d) = d
      <4>1. d \in Nat
        BY <3>5
      <4>2. 1 \in Int /\ d \in Int /\ (d = 0 \/ ~(1 > d))
        BY <4>1
      <4>3. Cardinality(1 .. d) = IF 1 > d THEN 0 ELSE d - 1 + 1
        BY <4>2, FS_Interval
      <4> QED BY <4>1, <4>3
    <3> QED BY <3>1, <3>2, <3>3, <3>6, <3>7
  <2> QED BY <2>3, <2>11, <2>12, <2>13, <2>14 DEF AnswersExact
<1> QED BY <1>2, <1>3
-----------------------------------------------------------------------------
(* The rounds of sampling without replacement.                             *)
RoundKept(id) ==
  LET round == RoundOf(connection, id)
  IN IF last_complete_trigger'[connection] = last_complete_trigger[connection]
       THEN Drawn(id)' \cap round = {}
       ELSE Promised(id)' \subseteq round \cup Drawn(id)'

LEMMA DrawnKeepsRound ==
  ASSUME TypeOK, HistoryInv, RowsInv, ConnectionInv, LastUsedInv,
         strategy.presampling = "RandomNoReplacement",
         NEW n \in 0 .. MaxBatch, InformDataAndTrigger(n)
  PROVE  \A id \in {Len(triggers)} : RoundKept(id)
<1> DEFINE complete == last_complete_trigger[connection]
<1>1. PICK id \in Nat :
           /\ id = Len(triggers)
           /\ Promised(id)' \in SUBSET (1 .. MaxSamples)
           /\ \E outcome \in Outcomes(Promised(id)', rows', connection, id) :
                /\ CreateTrigger(connection, outcome, n)
                /\ Drawn(id)' = Together(outcome.partitions)
  BY TriggerDraws
<1> DEFINE S == Promised(id)'
           D == Drawn(id)'
           left == NotDrawnSince(S, last_used_in_trigger, complete)
<1>2. PICK outcome \in Outcomes(S, rows', connection, id) :
        CreateTrigger(connection, outcome, n) /\ D = Together(outcome.partitions)
  BY <1>1
<1>3. connection \in Processes /\ S \in SUBSET (1 .. MaxSamples)
  BY <1>1, BehindIs
<1>4. last_complete_trigger'[connection] = outcome.complete
  <2>1. last_complete_trigger' = [last_complete_trigger EXCEPT ![connection] = outcome.complete]
    BY <1>2 DEF CreateTrigger
  <2>2. last_complete_trigger \in [Processes -> 0 .. MaxTriggers - 1]
    BY DEF TypeOK
  <2> QED BY <1>3, <2>1, <2>2
<1> HIDE DEF S, D
<1>5. \/ outcome.complete = complete /\ D \subseteq left
      \/ outcome.complete = id /\ left \subseteq D
  <2>1. Expected(outcome, S, connection, id)
    BY <1>2, <1>3, OutcomeOfTrigger
  <2> QED BY <1>2, <2>1 DEF Expected
<1>6. complete \in Nat /\ (complete = 0 \/ complete < id)
  <2>1. last_complete_trigger \in [Processes -> 0 .. MaxTriggers - 1]
    BY DEF TypeOK
  <2> QED BY <1>1, <1>3, <2>1 DEF ConnectionInv
<1>7. \A k \in 1 .. MaxSamples :
        /\ last_used_in_trigger[k] \in Int
        /\ \/ last_used_in_trigger[k] = -1
           \/ last_used_in_trigger[k] \in 0 .. id - 1 /\ k \in Drawn(last_used_in_trigger[k])
        /\ \A i \in 0 .. id - 1 : i > last_used_in_trigger[k] => k \notin Drawn(i)
  <2>1. last_used_in_trigger \in [1 .. MaxSamples -> -1 .. MaxTriggers - 1] /\ MaxTriggers \in Nat
    BY SelectorAssumption DEF TypeOK
  <2> QED BY <1>1, <2>1 DEF LastUsedInv
<1> DEFINE round == UNION {Drawn(i) : i \in complete .. id - 1}
<1>8. RoundKept(id) <=> IF outcome.complete = complete THEN D \cap round = {} ELSE S \subseteq round \cup D
  BY <1>4 DEF RoundKept, RoundOf, S, D
<1> HIDE DEF complete, Drawn
<1>9. CASE outcome.complete = complete /\ D \subseteq left
  <2>1. ASSUME NEW k \in D, NEW i \in complete .. id - 1 PROVE k \notin Drawn(i)
    <3>1. k \in S /\ last_used_in_trigger[k] < complete
      BY <1>9 DEF NotDrawnSince
    <3> QED BY <1>1, <1>3, <1>6, <1>7, <3>1
  <2> QED BY <1>1, <1>8, <1>9, <2>1
<1>10. CASE outcome.complete = id /\ left \subseteq D
  <2>1. CASE outcome.complete = complete
    <3>1. complete .. id - 1 = {}
      BY <1>6, <1>10, <2>1
    <3>2. round = {}
      BY <3>1
    <3> QED BY <1>1, <1>8, <2>1, <3>2
  <2>2. CASE outcome.complete # complete
    <3>1. ASSUME NEW k \in S, k \notin D PROVE k \in round
      <4>1. k \in 1 .. MaxSamples /\ ~(last_used_in_trigger[k] < complete)
        BY <1>3, <1>10, <3>1 DEF NotDrawnSince
      <4>2. last_used_in_trigger[k] \in complete .. id - 1 /\ k \in Drawn(last_used_in_trigger[k])
        BY <1>1, <1>6, <1>7, <4>1
      <4> QED BY <4>2
    <3> QED BY <1>1, <1>8, <2>2, <3>1
  <2> QED BY <2>1, <2>2
<1> QED BY <1>5, <1>9, <1>10

LEMMA RoundStep ==
  ASSUME IInv, [Next]_vars, reconnects <= 1, strategy.presampling = "RandomNoReplacement",
         Len(triggers') > Len(triggers), phase' # "failed"
  PROVE  \A id \in {Len(triggers)} : RoundKept(id)
<1>1. /\ TypeOK /\ HistoryInv /\ RowsInv /\ ConnectionInv /\ LastUsedInv
  BY DEF IInv, OnceReconnected
<1>2. ASSUME UNCHANGED triggers PROVE FALSE
  <2>1. Len(triggers) \in Nat
    BY <1>1, DrawnBeforeIs
  <2> QED BY <1>2, <2>1
<1>3. ASSUME NEW n \in 0 .. MaxBatch, TriggerFails(n) PROVE FALSE
  BY <1>3 DEF TriggerFails
<1>4. PICK n \in 0 .. MaxBatch : InformDataAndTrigger(n)
  BY <1>1, <1>2, <1>3, TriggerOrNot
<1> QED BY <1>1, <1>4, DrawnKeepsRound
-----------------------------------------------------------------------------
LEMMA InvariantHolds == Spec => []IInv
<1>1. Init => IInv
  BY InitHolds
<1>2. IInv /\ [Next]_vars => IInv'
  BY StepHolds
<1> QED BY <1>1, <1>2, PTL DEF Spec

(* Whatever is lost, reconnected or restarted, and however often: the      *)
(* selector's state stays within the types TypeOK gives it.                *)
THEOREM TypeCorrect == Spec => []TypeOK
<1>1. IInv => TypeOK
  BY DEF IInv
<1> QED BY <1>1, InvariantHolds, PTL

(* As long as the connection was replaced or the service restarted at most *)
(* once: every trigger's training set is what the policy promises of it.   *)
(* A memory of one key would not hold the two windows that a freshness     *)
(* strategy joins.                                                         *)
THEOREM TrainingSets ==
  ASSUME RoomForTwo
  PROVE  Spec => [](reconnects <= 1 => TrainingSetFollowsPolicy)
<1>1. IInv => (reconnects <= 1 => TrainingSetFollowsPolicy)
  BY DEF IInv, OnceReconnected
<1> QED BY <1>1, InvariantHolds, PTL

(* A CoresetStrategy draws the configured share of what it may draw from,  *)
(* never more when it balances classes, and equally many of each label     *)
(* when balancing is forced: for every trigger that completes, as long as  *)
(* the connection was replaced or the service restarted at most once.      *)
THEOREM Presamplings == Spec => [](reconnects <= 1 => PresampledAsConfigured)
<1>1. IInv => (reconnects <= 1 => PresampledAsConfigured)
  BY DEF IInv, OnceReconnected
<1> QED BY <1>1, InvariantHolds, PTL

(* While one process serves the pipeline, all triggers of a freshness      *)
(* strategy after the first hold the configured share of fresh samples, to *)
(* within one sample.                                                      *)
THEOREM FreshShares == Spec => []FreshShareKept
<1>1. IInv => FreshShareKept
  <2>1. ASSUME IInv, reconnects = 0 PROVE FreshShareKept
    BY <2>1 DEF IInv, OnceReconnected
  <2>2. reconnects # 0 => FreshShareKept
    BY DEF FreshShareKept
  <2> QED BY <2>1, <2>2
<1> QED BY <1>1, InvariantHolds, PTL

(* What a training is told of its trigger is right whichever process it    *)
(* asks, under the same conditions as TrainingSets.                        *)
THEOREM AnswersAreExact ==
  ASSUME RoomForTwo
  PROVE  Spec => [](reconnects <= 1 => AnswersExact)
<1>1. IInv => (reconnects <= 1 => AnswersExact)
  BY Answers
<1> QED BY <1>1, InvariantHolds, PTL

(* Sampling without replacement draws no sample twice in a round, and      *)
(* completes a round only when all of what it may draw was drawn in it,    *)
(* when at most one replacement of the connection or restart is possible.  *)
THEOREM RoundsKept ==
  ASSUME MaxReconnects <= 1
  PROVE  Spec => RoundsWithoutReplacement
<1> DEFINE Drawing ==
      (strategy.presampling = "RandomNoReplacement" /\ Len(triggers') > Len(triggers)
         /\ phase' # "failed") =>
        \A id \in {Len(triggers)} :
          LET round == RoundOf(connection, id)
          IN IF last_complete_trigger'[connection] = last_complete_trigger[connection]
               THEN Drawn(id)' \cap round = {}
               ELSE Promised(id)' \subseteq round \cup Drawn(id)'
<1>1. IInv => reconnects <= 1
  BY SelectorAssumption DEF IInv, TypeOK
<1>2. IInv /\ [Next]_vars => [Drawing]_vars
  BY <1>1, RoundStep DEF RoundKept
<1>3. RoundsWithoutReplacement <=> [][Drawing]_vars
  BY DEF RoundsWithoutReplacement
<1> HIDE DEF Drawing
<1>4. Spec => [][Drawing]_vars
  BY <1>2, InvariantHolds, PTL DEF Spec
<1> QED BY <1>3, <1>4
-----------------------------------------------------------------------------
(* Where the selector keeps a trigger's partitions, and what the workers   *)
(* of the training get of them (TriggerSamples), for every number of       *)
(* samples, insertion threads and workers.  The files one after the        *)
(* other, in whatever order their names sort, number the samples from 0; a *)
(* worker's share is a range of these numbers, and the loop over the files *)
(* collects it.                                                            *)

(* A set of files that comes first in the order of the names.              *)
Leading(F) == /\ F \subseteq Files
              /\ \A f \in F, g \in Files : NameKey(g) < NameKey(f) => g \in F

(* The samples at the positions from a up to, but not including, b.        *)
InRange(a, b) == {s \in Samples : a <= Position(s) /\ Position(s) < b}

Least(a, b) == IF a <= b THEN a ELSE b

(* What worker w was given (tk), how many it is told that they are (n), and *)
(* which files its loop has passed (fr, with ci samples) in its state st.  *)
WorkerOk(w, st, fr, ci, tk, n) ==
  /\ st \in {"waiting", "reading", "done"}
  /\ Leading(fr) /\ ci = SamplesIn(fr)
  /\ source = "local" => st # "reading"
  /\ st = "waiting" => fr = {} /\ tk = {}
  /\ st = "reading" => tk = InRange(StartIndex(w), Least(EndIndex(w), ci))
  /\ st = "done" =>
       tk = IF source = "local" THEN ParseFile(w) ELSE InRange(StartIndex(w), EndIndex(w))
  /\ n = Cardinality(tk)

WorkerInv(w) ==
  WorkerOk(w, state[w], files_read[w], current_index[w], taken[w], samples[w])

PartitionInv ==
  /\ TSTypeOK
  /\ source = "local" => threads = workers
  /\ \A w \in Workers : WorkerInv(w)
-----------------------------------------------------------------------------
(* The files.                                                              *)
LEMMA Numbers ==
  ASSUME TSTypeOK
  PROVE  num_samples \in Nat \ {0} /\ workers \in Nat \ {0} /\ threads \in Int
BY SamplesAssumption DEF TSTypeOK

LEMMA FilesAre ==
  ASSUME TSTypeOK
  PROVE  /\ SamplesPerProc \in Nat /\ NumFiles \in Nat \ {0} /\ Files = 0 .. NumFiles - 1
         /\ LastFile \in Nat \ {0} /\ SamplesPerProc <= LastFile
         /\ (NumFiles - 1) * SamplesPerProc \in Nat
         /\ (NumFiles - 1) * SamplesPerProc + LastFile = num_samples
         /\ NumFiles > 1 => SamplesPerProc # 0
         /\ NumFiles = 1 \/ NumFiles = threads
<1> DEFINE S == SamplesPerProc
           N == NumFiles
           n == num_samples
<1>1. n \in Nat \ {0} /\ threads \in Int
  BY Numbers
<1>2. CASE S = 0
  <2>1. N = 1
    BY <1>2 DEF NumFiles
  <2>2. (N - 1) * S = 0 /\ LastFile = n
    BY <1>1, <1>2, <2>1 DEF LastFile
  <2> QED BY <1>1, <1>2, <2>1, <2>2 DEF Files
<1>3. CASE S # 0
  <2>1. threads \in Nat \ {0} /\ S = n \div threads /\ N = threads
    BY <1>1, <1>3 DEF SamplesPerProc, NumFiles
  <2> DEFINE r == n % threads
             m == threads - 1
  <2>2. S \in Nat \ {0} /\ r \in Nat /\ n = S * threads + r
    BY <1>1, <1>3, <2>1, DivMod
  <2>3. m \in Nat /\ threads = m + 1
    BY <2>1
  <2>4. N - 1 = m
    BY <2>1
  <2> HIDE DEF S, n, r, m
  <2>5. (m + 1) * S = m * S + 1 * S /\ m * S \in Nat
    BY <2>2, <2>3, Distribute
  <2>6. n = m * S + S + r
    BY <2>2, <2>3, <2>5
  <2>7. LastFile = n - m * S
    BY <2>4 DEF LastFile, n, S
  <2>8. LastFile = S + r
    BY <2>2, <2>5, <2>6, <2>7
  <2>9. SamplesPerProc = S /\ num_samples = n /\ NumFiles = threads
    BY <2>1 DEF S, n
  <2>10. LastFile \in Nat \ {0} /\ S <= LastFile /\ m * S + LastFile = n
    BY <2>2, <2>5, <2>6, <2>8
  <2> QED BY <1>1, <2>1, <2>2, <2>4, <2>5, <2>9, <2>10 DEF Files
<1> QED BY <1>2, <1>3

LEMMA Lengths ==
  ASSUME TSTypeOK, NEW f \in Files
  PROVE  /\ Length(f) \in Nat \ {0} /\ f \in Nat /\ f <= NumFiles - 1
         /\ Length(f) = SamplesPerProc + (IF f = NumFiles - 1 THEN LastFile - SamplesPerProc ELSE 0)
<1>1. f \in 0 .. NumFiles - 1 /\ NumFiles \in Nat \ {0}
  BY FilesAre
<1>2. f \in Nat /\ f <= NumFiles - 1 /\ (f < NumFiles - 1 <=> f # NumFiles - 1)
      /\ (f < NumFiles - 1 => NumFiles > 1)
  BY <1>1
<1>3. Length(f) = IF f # NumFiles - 1 THEN SamplesPerProc ELSE LastFile
  BY <1>2 DEF Length
<1>4. SamplesPerProc \in Nat /\ LastFile \in Nat \ {0} /\ (f # NumFiles - 1 => SamplesPerProc # 0)
  BY <1>2, FilesAre
<1> QED BY <1>2, <1>3, <1>4

(* The names of two files differ.                                          *)
LEMMA NamesDiffer ==
  ASSUME NEW f \in Nat, NEW g \in Nat, NameKey(f) = NameKey(g)
  PROVE  f = g
<1> DEFINE a == f \div 10
           b == f % 10
           c == g \div 10
           d == g % 10
<1>1. /\ a \in Nat /\ b \in 0 .. 9 /\ f = a * 10 + b
      /\ c \in Nat /\ d \in 0 .. 9 /\ g = c * 10 + d
  OBVIOUS
<1>2. NameKey(f) = (IF f < 10 THEN 11 * f ELSE 11 * a + b + 1)
      /\ NameKey(g) = (IF g < 10 THEN 11 * g ELSE 11 * c + d + 1)
  BY DEF NameKey
<1> HIDE DEF a, b, c, d
<1> QED BY <1>1, <1>2

LEMMA NameKeyType == ASSUME NEW f \in Nat PROVE NameKey(f) \in Nat /\ NameKey(f) <= 11 * f
<1> DEFINE a == f \div 10
           b == f % 10
<1>1. a \in Nat /\ b \in 0 .. 9 /\ f = a * 10 + b
  OBVIOUS
<1>2. NameKey(f) = IF f < 10 THEN 11 * f ELSE 11 * a + b + 1
  BY DEF NameKey
<1> HIDE DEF a, b
<1> QED BY <1>1, <1>2

(* How many samples a set of files has.                                    *)
LEMMA FilesFinite ==
  ASSUME TSTypeOK, NEW F, F \subseteq Files
  PROVE  IsFiniteSet(F) /\ Cardinality(F) \in 0 .. NumFiles /\ (F = Files => Cardinality(F) = NumFiles)
<1>1. PICK n \in Nat \ {0} : n = NumFiles /\ Files = 0 .. n - 1
  BY FilesAre
<1>2. n - 1 \in Int
  BY <1>1
<1>3. IsFiniteSet(0 .. n - 1) /\ Cardinality(0 .. n - 1) = IF 0 > n - 1 THEN 0 ELSE n - 1 - 0 + 1
  BY <1>2, FS_Interval
<1>4. IsFiniteSet(Files) /\ Cardinality(Files) = n
  BY <1>1, <1>3
<1>5. IsFiniteSet(F) /\ Cardinality(F) <= Cardinality(Files)
  BY <1>4, FS_Subset
<1>6. Cardinality(F) \in Nat
  BY <1>5, FS_CardinalityType
<1> QED BY <1>1, <1>4, <1>5, <1>6

LEMMA SamplesInAdds ==
  ASSUME TSTypeOK, NEW F, F \subseteq Files
  PROVE  /\ SamplesIn(F) \in Nat
         /\ \A f \in Files \ F : SamplesIn(F \cup {f}) = SamplesIn(F) + Length(f)
         /\ SamplesIn({}) = 0 /\ SamplesIn(Files) = num_samples
<1> DEFINE S == SamplesPerProc
           N == NumFiles
           c == Cardinality(F)
           d == LastFile - S
<1>1. /\ S \in Nat /\ N \in Nat \ {0} /\ d \in Nat /\ (N - 1) * S \in Nat
      /\ (N - 1) * S + S + d = num_samples /\ Files = 0 .. N - 1
  <2> DEFINE l == LastFile
             p == (N - 1) * S
  <2>1. /\ S \in Nat /\ N \in Nat \ {0} /\ l \in Nat /\ S <= l /\ p \in Nat
        /\ p + l = num_samples /\ Files = 0 .. N - 1
    BY FilesAre
  <2>2. d = l - S
    OBVIOUS
  <2> HIDE DEF l, p, d, S, N
  <2>3. d \in Nat /\ p + S + d = num_samples
    BY <2>1, <2>2
  <2> QED BY <2>1, <2>3 DEF p
<1>2. IsFiniteSet(F) /\ c \in Nat
  <2>1. IsFiniteSet(F)
    BY FilesFinite
  <2> QED BY <2>1, FS_CardinalityType
<1>3. SamplesIn(F) = c * S + (IF N - 1 \in F THEN d ELSE 0)
  BY DEF SamplesIn
<1> HIDE DEF S, c, d, N
<1>4. c * S \in Nat
  BY <1>1, <1>2
<1>5. SamplesIn(F) \in Nat
  BY <1>1, <1>3, <1>4
<1>6. ASSUME NEW f \in Files \ F PROVE SamplesIn(F \cup {f}) = SamplesIn(F) + Length(f)
  <2>1. Cardinality(F \cup {f}) = c + 1
    BY <1>2, FS_AddElement DEF c
  <2>2. SamplesIn(F \cup {f}) = (c + 1) * S + (IF N - 1 \in F \cup {f} THEN d ELSE 0)
    BY <2>1 DEF SamplesIn, S, N, d
  <2>3. (c + 1) * S = c * S + 1 * S
    BY <1>1, <1>2, Distribute
  <2>4. (c + 1) * S = c * S + S
    BY <1>1, <2>3
  <2>5. Length(f) = S + (IF f = N - 1 THEN d ELSE 0)
    BY Lengths DEF S, N, d
  <2>6. CASE f = N - 1
    BY <1>1, <1>3, <1>4, <2>2, <2>4, <2>5, <2>6
  <2>7. CASE f # N - 1
    BY <1>1, <1>3, <1>4, <2>2, <2>4, <2>5, <2>7
  <2> QED BY <2>6, <2>7
<1>7. SamplesIn({}) = 0
  <2>1. Cardinality({}) = 0
    BY FS_EmptySet
  <2>2. SamplesIn({}) = 0 * S + 0
    BY <2>1 DEF SamplesIn, S
  <2> QED BY <1>1, <2>2
<1>8. SamplesIn(Files) = num_samples
  <2>1. Cardinality(Files) = N /\ N - 1 \in Files
    BY <1>1, FilesFinite DEF N
  <2>2. SamplesIn(Files) = N * S + d
    BY <2>1 DEF SamplesIn, S, N, d
  <2> DEFINE m == N - 1
  <2>3. m \in Nat /\ N = m + 1 /\ m * S \in Nat /\ m * S + S + d = num_samples
    BY <1>1
  <2> HIDE DEF m
  <2>4. (m + 1) * S = m * S + 1 * S
    BY <1>1, <2>3, Distribute
  <2> QED BY <1>1, <2>2, <2>3, <2>4
<1> QED BY <1>5, <1>6, <1>7, <1>8

LEMMA SamplesInGrows ==
  ASSUME TSTypeOK, NEW F, NEW G, F \subseteq G, G \subseteq Files
  PROVE  SamplesIn(F) <= SamplesIn(G) /\ SamplesIn(G) <= num_samples
<1>1. ASSUME NEW A, NEW B, A \subseteq B, B \subseteq Files PROVE SamplesIn(A) <= SamplesIn(B)
  <2> DEFINE S == SamplesPerProc
             a == Cardinality(A)
             k == Cardinality(B) - a
             d == LastFile - S
  <2>1. IsFiniteSet(B) /\ IsFiniteSet(A) /\ a \in Nat /\ Cardinality(B) \in Nat /\ S \in Nat /\ d \in Nat
    <3>1. IsFiniteSet(B) /\ IsFiniteSet(A)
      BY <1>1, FilesFinite
    <3>2. a \in Nat /\ Cardinality(B) \in Nat
      BY <3>1, FS_CardinalityType
    <3>3. S \in Nat /\ LastFile \in Nat /\ S <= LastFile
      BY FilesAre
    <3> QED BY <3>1, <3>2, <3>3
  <2>2. a <= Cardinality(B)
    BY <1>1, <2>1, FS_Subset
  <2>3. k \in Nat /\ Cardinality(B) = a + k
    BY <2>1, <2>2
  <2>4. /\ SamplesIn(A) = a * S + (IF NumFiles - 1 \in A THEN d ELSE 0)
        /\ SamplesIn(B) = (a + k) * S + (IF NumFiles - 1 \in B THEN d ELSE 0)
    BY <2>3 DEF SamplesIn
  <2> HIDE DEF S, a, k, d
  <2>5. (a + k) * S = a * S + k * S /\ k * S \in Nat /\ a * S \in Nat
    BY <2>1, <2>3, Distribute
  <2>6. (IF NumFiles - 1 \in A THEN d ELSE 0) <= (IF NumFiles - 1 \in B THEN d ELSE 0)
    BY <1>1, <2>1
  <2> QED BY <2>1, <2>4, <2>5, <2>6
<1>2. SamplesIn(Files) = num_samples
  BY SamplesInAdds
<1> QED BY <1>1, <1>2
-----------------------------------------------------------------------------
(* The positions of the samples.                                           *)
LEMMA FilesOrdered ==
  ASSUME TSTypeOK, NEW f \in Files
  PROVE  /\ FilesBefore(f) \subseteq Files /\ f \notin FilesBefore(f) /\ NameKey(f) \in Nat
         /\ \A g \in Files : NameKey(f) < NameKey(g) => FilesBefore(f) \cup {f} \subseteq FilesBefore(g)
         /\ \A g \in Files : f = g \/ NameKey(f) < NameKey(g) \/ NameKey(g) < NameKey(f)
<1>1. Files \subseteq Nat
  BY FilesAre
<1>2. \A g \in Files : NameKey(g) \in Nat
  BY <1>1, NameKeyType
<1>3. \A g \in Files : NameKey(f) = NameKey(g) => f = g
  BY <1>1, NamesDiffer
<1>4. FilesBefore(f) \subseteq Files /\ f \notin FilesBefore(f)
  BY <1>2 DEF FilesBefore
<1>5. ASSUME NEW g \in Files, NameKey(f) < NameKey(g)
      PROVE  FilesBefore(f) \cup {f} \subseteq FilesBefore(g)
  BY <1>2, <1>5 DEF FilesBefore
<1> QED BY <1>2, <1>3, <1>4, <1>5

(* The file the loop reads next comes after exactly those it has passed.   *)
LEMMA NextOf ==
  ASSUME TSTypeOK, NEW F, Leading(F), NEW f \in Files \ F,
         \A g \in Files \ F : NameKey(f) <= NameKey(g)
  PROVE  FilesBefore(f) = F /\ Leading(F \cup {f})
<1>1. \A g \in Files : f = g \/ NameKey(f) < NameKey(g) \/ NameKey(g) < NameKey(f)
  BY FilesOrdered
<1>2. F \subseteq Files
  BY DEF Leading
<1>3. ASSUME NEW g \in F PROVE NameKey(g) < NameKey(f)
  <2>1. ~(NameKey(f) < NameKey(g))
    BY DEF Leading
  <2> QED BY <1>1, <1>2, <2>1
<1>4. ASSUME NEW g \in Files, NameKey(g) < NameKey(f) PROVE g \in F
  <2> SUFFICES ASSUME g \in Files \ F PROVE FALSE
    OBVIOUS
  <2>1. NameKey(f) <= NameKey(g)
    OBVIOUS
  <2>2. NameKey(f) \in Nat /\ NameKey(g) \in Nat
    BY FilesOrdered
  <2> QED BY <1>4, <2>1, <2>2
<1>5. FilesBefore(f) = F
  BY <1>2, <1>3, <1>4 DEF FilesBefore
<1>6. Leading(F \cup {f})
  BY <1>2, <1>4 DEF Leading
<1> QED BY <1>5, <1>6

LEMMA HasNext ==
  ASSUME TSTypeOK, NEW F, Leading(F), F # Files
  PROVE  \E f \in Files \ F : \A g \in Files \ F : NameKey(f) <= NameKey(g)
<1> DEFINE T == {NameKey(g) : g \in Files \ F}
<1>1. T \subseteq Nat /\ T # {}
  <2>1. \A g \in Files : NameKey(g) \in Nat
    BY FilesOrdered
  <2> QED BY <2>1 DEF Leading
<1>2. PICK x \in T : \A y \in T : x <= y
  <2> HIDE DEF T
  <2> QED BY <1>1, LeastNatural
<1>3. PICK f \in Files \ F : x = NameKey(f)
  OBVIOUS
<1> QED BY <1>2, <1>3

LEMMA SampleIs ==
  /\ \A s \in Samples : /\ s[1] \in Files /\ s[2] \in 0 .. Length(s[1]) - 1
                         /\ s = <<s[1], s[2]>> /\ s \in FileData(s[1])
  /\ \A f \in Files : \A i \in 0 .. Length(f) - 1 : <<f, i>> \in Samples
  /\ \A f \in Files : FileData(f) \subseteq Samples
  /\ \A f : \A s \in FileData(f) : s[1] = f
BY DEF Samples, FileData

LEMMA PositionType ==
  ASSUME TSTypeOK, NEW s \in Samples
  PROVE  /\ SamplesIn(FilesBefore(s[1])) \in Nat /\ SamplesIn(FilesBefore(s[1]) \cup {s[1]}) \in Nat
         /\ SamplesIn(FilesBefore(s[1])) <= Position(s)
         /\ Position(s) < SamplesIn(FilesBefore(s[1]) \cup {s[1]})
         /\ Position(s) \in 0 .. num_samples - 1 /\ Position(s) \in Nat
<1> DEFINE f == s[1]
           a == SamplesIn(FilesBefore(f))
           c == SamplesIn(FilesBefore(f) \cup {f})
<1>1. f \in Files /\ s[2] \in 0 .. Length(f) - 1
  BY SampleIs
<1>2. FilesBefore(f) \subseteq Files /\ f \notin FilesBefore(f) /\ FilesBefore(f) \cup {f} \subseteq Files
  BY <1>1, FilesOrdered
<1>3. a \in Nat /\ c = a + Length(f)
  BY <1>1, <1>2, SamplesInAdds
<1>4. c <= num_samples
  BY <1>2, SamplesInGrows
<1>5. Position(s) = a + s[2]
  BY DEF Position
<1>6. Length(f) \in Nat \ {0} /\ num_samples \in Nat
  BY <1>1, Lengths, Numbers
<1> HIDE DEF f, a, c
<1> QED BY <1>1, <1>3, <1>4, <1>5, <1>6 DEF f, a, c

LEMMA PositionsDiffer ==
  ASSUME TSTypeOK, NEW s \in Samples, NEW t \in Samples, Position(s) = Position(t)
  PROVE  s = t
<1> DEFINE f == s[1]
           g == t[1]
<1>1. /\ f \in Files /\ g \in Files /\ s = <<f, s[2]>> /\ t = <<g, t[2]>>
      /\ s[2] \in 0 .. Length(f) - 1 /\ t[2] \in 0 .. Length(g) - 1
  BY SampleIs
<1>2. ASSUME NEW u \in Samples, NEW v \in Samples, NameKey(u[1]) < NameKey(v[1])
      PROVE  Position(u) < Position(v)
  <2>1. FilesBefore(u[1]) \cup {u[1]} \subseteq FilesBefore(v[1]) /\ FilesBefore(v[1]) \subseteq Files
    BY <1>2, SampleIs, FilesOrdered
  <2>2. SamplesIn(FilesBefore(u[1]) \cup {u[1]}) <= SamplesIn(FilesBefore(v[1]))
    BY <2>1, SamplesInGrows
  <2>3. /\ Position(u) \in Nat /\ Position(v) \in Nat
        /\ SamplesIn(FilesBefore(v[1])) \in Nat /\ SamplesIn(FilesBefore(u[1]) \cup {u[1]}) \in Nat
        /\ Position(u) < SamplesIn(FilesBefore(u[1]) \cup {u[1]})
        /\ SamplesIn(FilesBefore(v[1])) <= Position(v)
    BY PositionType
  <2> QED BY <2>2, <2>3
<1>3. Position(s) \in Nat
  BY PositionType
<1>4. ~(NameKey(f) < NameKey(g)) /\ ~(NameKey(g) < NameKey(f))
  BY <1>2, <1>3
<1>5. f = g
  BY <1>1, <1>4, FilesOrdered
<1>6. s[2] = t[2]
  <2>1. Position(s) = SamplesIn(FilesBefore(f)) + s[2] /\ Position(t) = SamplesIn(FilesBefore(f)) + t[2]
    BY <1>5 DEF Position
  <2>2. SamplesIn(FilesBefore(f)) \in Nat
    BY PositionType
  <2>3. s[2] \in Int /\ t[2] \in Int
    BY <1>1
  <2> DEFINE a == SamplesIn(FilesBefore(f))
             i == s[2]
             j == t[2]
  <2>4. a + i = a + j /\ a \in Nat /\ i \in Int /\ j \in Int
    BY <2>1, <2>2, <2>3
  <2> HIDE DEF a, i, j
  <2>5. i = j
    BY <2>4
  <2> QED BY <2>5 DEF i, j
<1> QED BY <1>1, <1>5, <1>6

LEMMA EveryPosition ==
  ASSUME TSTypeOK, NEW p \in 0 .. num_samples - 1
  PROVE  \E s \in Samples : Position(s) = p
<1> DEFINE G == {f \in Files : SamplesIn(FilesBefore(f)) <= p}
           K == {NameKey(f) : f \in G}
<1>1. \A f \in Files : /\ FilesBefore(f) \subseteq Files /\ SamplesIn(FilesBefore(f)) \in Nat
                       /\ f \notin FilesBefore(f) /\ NameKey(f) \in Nat /\ f \in Nat /\ f <= NumFiles - 1
                       /\ Length(f) \in Nat \ {0}
                       /\ SamplesIn(FilesBefore(f) \cup {f}) = SamplesIn(FilesBefore(f)) + Length(f)
  BY FilesOrdered, SamplesInAdds, Lengths
<1>2. p \in Nat /\ p < num_samples /\ num_samples \in Nat /\ NumFiles \in Nat \ {0}
  BY Numbers, FilesAre
<1>3. ASSUME NEW F, Leading(F), SamplesIn(F) <= p
      PROVE  \E f \in G : FilesBefore(f) = F
  <2>1. F # Files
    BY <1>2, <1>3, SamplesInAdds
  <2>2. PICK f \in Files \ F : \A g \in Files \ F : NameKey(f) <= NameKey(g)
    BY <1>3, <2>1, HasNext
  <2>3. FilesBefore(f) = F
    BY <1>3, <2>2, NextOf
  <2> QED BY <1>3, <2>3
<1>4. K # {}
  <2>1. Leading({}) /\ SamplesIn({}) = 0
    BY SamplesInAdds DEF Leading
  <2> QED BY <1>2, <1>3, <2>1
<1>5. K \subseteq 0 .. 11 * NumFiles
  <2> SUFFICES ASSUME NEW f \in Files PROVE NameKey(f) \in 0 .. 11 * NumFiles
    OBVIOUS
  <2>1. NameKey(f) <= 11 * f /\ NameKey(f) \in Nat /\ f \in Nat /\ f <= NumFiles - 1
    BY <1>1, NameKeyType
  <2> QED BY <1>2, <2>1
<1>6. PICK f \in G : \A g \in G : NameKey(g) <= NameKey(f)
  <2>1. 11 * NumFiles \in Int /\ 0 \in Int
    BY <1>2
  <2> HIDE DEF K
  <2>2. Max(K) \in K /\ \A x \in K : x <= Max(K)
    BY <1>4, <1>5, <2>1, MaxBounded
  <2> QED BY <2>2 DEF K
<1> DEFINE a == SamplesIn(FilesBefore(f))
<1>7. f \in Files /\ a \in Nat /\ a <= p /\ Length(f) \in Nat
  BY <1>1, <1>6
<1>8. p < a + Length(f)
  <2> SUFFICES ASSUME ~(p < a + Length(f)) PROVE FALSE
    OBVIOUS
  <2>1. SamplesIn(FilesBefore(f) \cup {f}) <= p
    BY <1>1, <1>2, <1>7
  <2>2. Leading(FilesBefore(f) \cup {f})
    <3>1. \A g \in Files : NameKey(g) \in Nat
      BY <1>1
    <3> QED BY <1>7, <3>1 DEF Leading, FilesBefore
  <2>3. PICK g \in G : FilesBefore(g) = FilesBefore(f) \cup {f}
    BY <1>3, <2>1, <2>2
  <2>4. NameKey(f) < NameKey(g)
    BY <2>3 DEF FilesBefore
  <2>5. NameKey(f) \in Nat /\ NameKey(g) \in Nat
    BY <1>1, <1>7
  <2> QED BY <1>6, <2>4, <2>5
<1> DEFINE s == <<f, p - a>>
<1>9. p - a \in 0 .. Length(f) - 1 /\ a + (p - a) = p
  BY <1>2, <1>7, <1>8
<1>10. s \in Samples
  BY <1>7, <1>9, SampleIs
<1>11. Position(s) = a + (p - a)
  BY DEF Position
<1> QED BY <1>9, <1>10, <1>11

LEMMA RangeCount ==
  ASSUME TSTypeOK, NEW a \in Nat, NEW b \in Nat, a <= b, b <= num_samples
  PROVE  IsFiniteSet(InRange(a, b)) /\ Cardinality(InRange(a, b)) = b - a
<1> DEFINE S == InRange(a, b)
           T == a .. b - 1
           f == [s \in S |-> Position(s)]
<1>1. \A s \in S : s \in Samples /\ Position(s) \in Nat /\ a <= Position(s) /\ Position(s) < b
  <2>1. \A s \in Samples : Position(s) \in 0 .. num_samples - 1
    BY PositionType
  <2> QED BY <2>1, Numbers DEF InRange
<1>2. \A p \in T : \E s \in S : Position(s) = p
  <2> SUFFICES ASSUME NEW p \in T PROVE \E s \in S : Position(s) = p
    OBVIOUS
  <2>1. p \in 0 .. num_samples - 1 /\ a <= p /\ p < b
    BY Numbers
  <2>2. PICK s \in Samples : Position(s) = p
    BY <2>1, EveryPosition
  <2> QED BY <2>1, <2>2 DEF InRange
<1>3. \A s, t \in S : Position(s) = Position(t) => s = t
  BY <1>1, PositionsDiffer
<1> HIDE DEF S
<1>4. f \in Bijection(S, T)
  <2>1. f \in [S -> T]
    BY <1>1
  <2>2. f \in Surjection(S, T)
    BY <1>2, <2>1 DEF Surjection
  <2>3. f \in Injection(S, T)
    BY <1>3, <2>1 DEF Injection, IsInjective
  <2> QED BY <2>2, <2>3 DEF Bijection
<1>5. IsFiniteSet(T) /\ Cardinality(T) = IF a > b - 1 THEN 0 ELSE b - 1 - a + 1
  <2>1. a \in Int /\ b - 1 \in Int
    OBVIOUS
  <2> HIDE DEF T
  <2> QED BY <2>1, FS_Interval DEF T
<1>6. Cardinality(T) = b - a
  BY <1>5
<1>7. f \in Injection(S, T) /\ f \in Surjection(S, T)
  BY <1>4 DEF Bijection
<1> HIDE DEF T, f
<1>8. IsFiniteSet(S) /\ Cardinality(S) = Cardinality(T)
  BY <1>5, <1>7, FS_Injection
<1> QED BY <1>6, <1>8 DEF S

(* Exactly the samples of a file are at the positions of that file.        *)
LEMMA FileRange ==
  ASSUME TSTypeOK, NEW f \in Files
  PROVE  /\ FileData(f) = InRange(SamplesIn(FilesBefore(f)), SamplesIn(FilesBefore(f)) + Length(f))
         /\ SamplesIn(FilesBefore(f)) \in Nat
         /\ SamplesIn(FilesBefore(f)) + Length(f) <= num_samples
         /\ \A s \in FileData(f) : Position(s) = SamplesIn(FilesBefore(f)) + s[2]
<1> DEFINE c == SamplesIn(FilesBefore(f))
<1>1. FilesBefore(f) \cup {f} \subseteq Files /\ FilesBefore(f) \subseteq Files /\ f \notin FilesBefore(f)
  BY FilesOrdered
<1>2. c \in Nat /\ SamplesIn(FilesBefore(f) \cup {f}) = c + Length(f) /\ Length(f) \in Nat
  BY <1>1, SamplesInAdds, Lengths
<1>3. c + Length(f) <= num_samples
  BY <1>1, <1>2, SamplesInGrows
<1>4. \A s \in FileData(f) : Position(s) = c + s[2]
  BY SampleIs DEF Position
<1>5. ASSUME NEW s \in FileData(f) PROVE s \in InRange(c, c + Length(f))
  <2>1. s \in Samples /\ s[1] = f
    BY SampleIs
  <2>2. s[2] \in 0 .. Length(f) - 1
    BY <2>1, SampleIs
  <2>3. Position(s) = c + s[2]
    BY <1>4
  <2>4. c <= Position(s) /\ Position(s) < c + Length(f)
    BY <1>2, <2>2, <2>3
  <2> QED BY <2>1, <2>4 DEF InRange
<1>6. ASSUME NEW s \in InRange(c, c + Length(f)) PROVE s \in FileData(f)
  <2>1. s \in Samples /\ c <= Position(s) /\ Position(s) < c + Length(f)
    BY DEF InRange
  <2>2. Position(s) \in Nat
    BY <2>1, PositionType
  <2> DEFINE i == Position(s) - c
             t == <<f, i>>
  <2>3. i \in 0 .. Length(f) - 1 /\ c + i = Position(s)
    BY <1>2, <2>1, <2>2
  <2>4. t \in Samples /\ t[1] = f /\ t[2] = i
    BY <2>3, SampleIs
  <2>5. t \in FileData(f)
    BY <2>4, SampleIs
  <2>6. Position(t) = Position(s)
    BY <1>4, <2>3, <2>4, <2>5
  <2> HIDE DEF t
  <2> QED BY <2>1, <2>4, <2>5, <2>6, PositionsDiffer
<1> QED BY <1>2, <1>3, <1>4, <1>5, <1>6

LEMMA SamplesFinite ==
  ASSUME TSTypeOK, NEW S, S \subseteq Samples
  PROVE  IsFiniteSet(S) /\ Cardinality(S) \in Nat
<1>1. num_samples \in Nat
  BY Numbers
<1>2. IsFiniteSet(InRange(0, num_samples))
  BY <1>1, RangeCount
<1>3. S \subseteq InRange(0, num_samples)
  <2>1. ASSUME NEW s \in Samples
        PROVE  Position(s) \in Nat /\ 0 <= Position(s) /\ Position(s) < num_samples
    <3>1. Position(s) \in 0 .. num_samples - 1
      BY PositionType
    <3> QED BY <1>1, <3>1
  <2> QED BY <2>1 DEF InRange
<1>4. IsFiniteSet(S)
  BY <1>2, <1>3, FS_Subset
<1> QED BY <1>4, FS_CardinalityType
-----------------------------------------------------------------------------
(* The workers' shares.                                                    *)
Bound(x) == x * (num_samples \div workers) + Least(x, num_samples % workers)

LEMMA BoundGrows ==
  ASSUME TSTypeOK, NEW x \in Nat, NEW y \in Nat, x <= y
  PROVE  Bound(x) \in Nat /\ Bound(y) \in Nat /\ Bound(x) <= Bound(y)
<1> DEFINE q == num_samples \div workers
           t == num_samples % workers
           k == y - x
<1>1. q \in Nat /\ t \in Nat
  <2>1. num_samples \in Nat /\ workers \in Nat \ {0}
    BY Numbers
  <2>2. q \in Nat /\ t \in 0 .. workers - 1
    BY <2>1, DivMod
  <2> QED BY <2>1, <2>2
<1>2. k \in Nat /\ y = x + k
  OBVIOUS
<1> HIDE DEF q, t, k
<1>3. (x + k) * q = x * q + k * q /\ x * q \in Nat /\ k * q \in Nat
  BY <1>1, <1>2, Distribute
<1>4. Bound(x) = x * q + Least(x, t) /\ Bound(y) = x * q + k * q + Least(y, t)
  BY <1>2, <1>3 DEF Bound, q, t
<1>5. Least(x, t) \in Nat /\ Least(y, t) \in Nat /\ Least(x, t) <= Least(y, t)
  BY <1>1 DEF Least
<1> QED BY <1>3, <1>4, <1>5

LEMMA SharesAre ==
  ASSUME TSTypeOK, NEW w \in Workers
  PROVE  /\ w \in Nat /\ w + 1 <= workers
         /\ FirstOf(w) = Bound(w) /\ Bound(w) + SubsetSize(w) = Bound(w + 1)
         /\ SubsetSize(w) \in Nat
         /\ SubsetSize(w) = num_samples \div workers \/ SubsetSize(w) = num_samples \div workers + 1
         /\ Bound(0) = 0 /\ Bound(workers) = num_samples
<1> DEFINE q == num_samples \div workers
           t == num_samples % workers
           W == workers
<1>1. /\ q \in Nat /\ t \in 0 .. W - 1 /\ W \in Nat \ {0} /\ num_samples \in Nat
      /\ num_samples = q * W + t /\ w \in 0 .. W - 1
  BY Numbers, DivMod DEF Workers
<1>2. /\ FirstOf(w) = IF w < t THEN w * (q + 1) ELSE t * (q + 1) + (w - t) * q
      /\ SubsetSize(w) = q + (IF w < t THEN 1 ELSE 0)
      /\ \A x \in Nat : Bound(x) = x * q + Least(x, t)
  BY DEF FirstOf, SubsetSize, Bound
<1> HIDE DEF q, t, W
<1>3. w \in Nat /\ t \in Nat /\ w * q \in Nat /\ w < W /\ w + 1 <= W
  BY <1>1
<1>4. FirstOf(w) = Bound(w)
  <2>1. CASE w < t
    <3>1. w * (q + 1) = w * q + w
      BY <1>1, <1>3
    <3> QED BY <1>2, <1>3, <2>1, <3>1 DEF Least
  <2>2. CASE ~(w < t)
    <3> DEFINE k == w - t
    <3>1. k \in Nat /\ w = t + k
      BY <1>3, <2>2
    <3>2. FirstOf(w) = t * (q + 1) + k * q
      BY <1>2, <2>2
    <3> HIDE DEF k
    <3>3. (t + k) * q = t * q + k * q /\ t * q \in Nat /\ k * q \in Nat
      BY <1>1, <1>3, <3>1, Distribute
    <3>4. t * (q + 1) = t * q + t
      BY <1>1, <1>3
    <3>5. FirstOf(w) = w * q + t
      BY <1>3, <3>1, <3>2, <3>3, <3>4
    <3>6. Least(w, t) = t
      BY <1>3, <2>2 DEF Least
    <3> QED BY <1>2, <1>3, <3>5, <3>6
  <2> QED BY <2>1, <2>2
<1>5. Bound(w) + SubsetSize(w) = Bound(w + 1)
  <2>1. (w + 1) * q = w * q + q
    BY <1>1, <1>3
  <2>2. Least(w + 1, t) = Least(w, t) + (IF w < t THEN 1 ELSE 0) /\ Least(w, t) \in Nat
    BY <1>3 DEF Least
  <2> QED BY <1>1, <1>2, <1>3, <2>1, <2>2
<1>6. Bound(0) = 0
  BY <1>1, <1>2, <1>3 DEF Least
<1>7. Bound(W) = num_samples
  <2>1. W * q = q * W /\ Least(W, t) = t
    BY <1>1, <1>3 DEF Least
  <2> QED BY <1>1, <1>2, <2>1
<1>8. SubsetSize(w) \in Nat /\ (SubsetSize(w) = q \/ SubsetSize(w) = q + 1)
  BY <1>1, <1>2
<1> QED BY <1>3, <1>4, <1>5, <1>6, <1>7, <1>8 DEF q, W

LEMMA IndicesAre ==
  ASSUME TSTypeOK, NEW w \in Workers
  PROVE  /\ StartIndex(w) \in Nat /\ EndIndex(w) \in Nat
         /\ StartIndex(w) <= EndIndex(w) /\ EndIndex(w) <= num_samples
         /\ EndIndex(w) - StartIndex(w) = SubsetSize(w)
         /\ StartIndex(w) # EndIndex(w) => StartIndex(w) = Bound(w) /\ EndIndex(w) = Bound(w + 1)
<1>1. /\ FirstOf(w) = Bound(w) /\ Bound(w) + SubsetSize(w) = Bound(w + 1) /\ SubsetSize(w) \in Nat
      /\ Bound(workers) = num_samples /\ w \in Nat /\ w + 1 <= workers
  BY SharesAre
<1>2. num_samples \in Nat /\ workers \in Nat /\ w + 1 \in Nat
  BY <1>1, Numbers
<1>3. Bound(w) \in Nat /\ Bound(w + 1) \in Nat /\ Bound(w + 1) <= num_samples
  <2>1. Bound(w + 1) \in Nat /\ Bound(w + 1) <= Bound(workers)
    BY <1>1, <1>2, BoundGrows
  <2>2. Bound(w) \in Nat
    BY <1>1, BoundGrows
  <2> QED BY <1>1, <2>1, <2>2
<1>4. CASE Bound(w) >= num_samples
  <2>1. SubsetSize(w) = 0
    BY <1>1, <1>2, <1>3, <1>4
  <2>2. StartIndex(w) = 0 /\ EndIndex(w) = 0
    BY <1>1, <1>4, <2>1 DEF StartIndex, EndIndex
  <2> QED BY <1>2, <2>1, <2>2
<1>5. CASE ~(Bound(w) >= num_samples)
  <2>1. StartIndex(w) = Bound(w) /\ EndIndex(w) = Bound(w + 1)
    BY <1>1, <1>5 DEF StartIndex, EndIndex
  <2> QED BY <1>1, <1>2, <1>3, <2>1
<1> QED BY <1>4, <1>5

LEMMA ShareRangesApart ==
  ASSUME TSTypeOK, NEW v \in Workers, NEW w \in Workers, v # w
  PROVE  InRange(StartIndex(v), EndIndex(v)) \cap InRange(StartIndex(w), EndIndex(w)) = {}
<1>1. ASSUME NEW x \in Workers, NEW y \in Workers, x < y, NEW s \in Samples,
             StartIndex(x) <= Position(s), Position(s) < EndIndex(x),
             StartIndex(y) <= Position(s), Position(s) < EndIndex(y)
      PROVE  FALSE
  <2>1. Position(s) \in Nat
    BY PositionType
  <2>2. /\ StartIndex(x) \in Nat /\ EndIndex(x) \in Nat /\ StartIndex(y) \in Nat /\ EndIndex(y) \in Nat
    BY IndicesAre
  <2>3. StartIndex(x) # EndIndex(x) /\ StartIndex(y) # EndIndex(y)
    BY <1>1, <2>1, <2>2
  <2>4. EndIndex(x) = Bound(x + 1) /\ StartIndex(y) = Bound(y)
    BY <2>3, IndicesAre
  <2>5. x + 1 \in Nat /\ y \in Nat /\ x + 1 <= y
    BY <1>1, SharesAre
  <2>6. Bound(x + 1) <= Bound(y)
    BY <2>5, BoundGrows
  <2> QED BY <1>1, <2>1, <2>2, <2>4, <2>6
<1>2. v < w \/ w < v
  <2>1. v \in Nat /\ w \in Nat
    BY SharesAre
  <2> QED BY <2>1
<1> QED BY <1>1, <1>2 DEF InRange

LEMMA SharesCover ==
  ASSUME TSTypeOK, NEW s \in Samples
  PROVE  \E w \in Workers : s \in InRange(StartIndex(w), EndIndex(w))
<1> DEFINE p == Position(s)
           T == {w \in Workers : p < Bound(w + 1)}
<1>1. p \in Nat /\ p < num_samples /\ num_samples \in Nat /\ workers \in Nat \ {0} /\ workers - 1 \in Workers
  <2>1. num_samples \in Nat /\ workers \in Nat \ {0}
    BY Numbers
  <2>2. p \in 0 .. num_samples - 1
    BY PositionType
  <2> QED BY <2>1, <2>2 DEF Workers
<1>2. T \subseteq Nat /\ T # {}
  <2>1. workers - 1 + 1 = workers /\ Bound(workers) = num_samples
    BY <1>1, SharesAre
  <2> QED BY <1>1, <2>1, SharesAre
<1>3. PICK w \in T : \A v \in T : w <= v
  <2> HIDE DEF T
  <2> QED BY <1>2, LeastNatural
<1>4. w \in Workers /\ w \in Nat /\ p < Bound(w + 1)
  BY SharesAre
<1>5. Bound(w) <= p
  <2>1. CASE w = 0
    BY <1>1, <1>4, <2>1, SharesAre
  <2>2. CASE w # 0
    <3> DEFINE v == w - 1
    <3>1. v \in Workers /\ v + 1 = w /\ ~(w <= v)
      BY <1>1, <1>4, <2>2 DEF Workers
    <3>2. ~(p < Bound(v + 1))
      BY <1>3, <3>1
    <3>3. Bound(w) \in Nat
      BY <1>4, BoundGrows
    <3> QED BY <1>1, <3>1, <3>2, <3>3
  <2> QED BY <2>1, <2>2
<1>6. StartIndex(w) # EndIndex(w)
  <2>1. /\ EndIndex(w) - StartIndex(w) = SubsetSize(w) /\ StartIndex(w) \in Nat /\ EndIndex(w) \in Nat
        /\ Bound(w) + SubsetSize(w) = Bound(w + 1) /\ SubsetSize(w) \in Nat
    BY <1>4, IndicesAre, SharesAre
  <2>2. Bound(w) \in Nat
    BY <1>4, BoundGrows
  <2> QED BY <1>1, <1>4, <1>5, <2>1, <2>2
<1>7. StartIndex(w) = Bound(w) /\ EndIndex(w) = Bound(w + 1)
  BY <1>4, <1>6, IndicesAre
<1> QED BY <1>4, <1>5, <1>7 DEF InRange

(* What the cache cuts out for a worker is the range of its share.         *)
LEMMA ShareIs ==
  ASSUME TSTypeOK, NEW w \in Workers
  PROVE  Share(w) = InRange(StartIndex(w), EndIndex(w))
<1> DEFINE all == GetAllSamples
           a == StartIndex(w)
           b == EndIndex(w)
<1>1. num_samples \in Nat /\ a \in Nat /\ b \in Nat /\ b <= num_samples
  BY IndicesAre, Numbers
<1>2. DOMAIN all = 0 .. num_samples - 1
  BY DEF GetAllSamples
<1>3. \A p \in 0 .. num_samples - 1 : all[p] \in Samples /\ Position(all[p]) = p
  <2> SUFFICES ASSUME NEW p \in 0 .. num_samples - 1 PROVE all[p] \in Samples /\ Position(all[p]) = p
    OBVIOUS
  <2>1. all[p] = CHOOSE s \in Samples : Position(s) = p
    BY DEF GetAllSamples
  <2>2. \E s \in Samples : Position(s) = p
    BY EveryPosition
  <2> QED BY <2>1, <2>2
<1>4. Share(w) = {all[p] : p \in (a .. b - 1) \cap (0 .. num_samples - 1)}
  BY <1>2 DEF Share
<1>5. (a .. b - 1) \cap (0 .. num_samples - 1) = a .. b - 1
  BY <1>1
<1> HIDE DEF all, a, b
<1>6. ASSUME NEW p \in a .. b - 1 PROVE all[p] \in InRange(a, b)
  <2>1. p \in 0 .. num_samples - 1 /\ a <= p /\ p < b
    BY <1>1
  <2> QED BY <1>3, <2>1 DEF InRange
<1>7. ASSUME NEW s \in InRange(a, b) PROVE \E p \in a .. b - 1 : s = all[p]
  <2>1. s \in Samples /\ a <= Position(s) /\ Position(s) < b
    BY DEF InRange
  <2>2. Position(s) \in 0 .. num_samples - 1 /\ Position(s) \in Nat
    BY <2>1, PositionType
  <2>3. Position(s) \in a .. b - 1
    BY <1>1, <2>1, <2>2
  <2>4. s = all[Position(s)]
    BY <1>3, <2>1, <2>2, PositionsDiffer
  <2> QED BY <2>3, <2>4
<1> QED BY <1>4, <1>5, <1>6, <1>7 DEF a, b
-----------------------------------------------------------------------------
(* A step replaces what there is of one worker; the partition, the files   *)
(* and the shares stay.                                                    *)
LEMMA PartitionKept ==
  ASSUME UNCHANGED configVars
  PROVE  /\ source' = source /\ num_samples' = num_samples /\ threads' = threads /\ workers' = workers
         /\ Files' = Files /\ Workers' = Workers /\ Samples' = Samples /\ NumFiles' = NumFiles
         /\ SamplesPerProc' = SamplesPerProc /\ LastFile' = LastFile
         /\ \A w : StartIndex(w)' = StartIndex(w) /\ EndIndex(w)' = EndIndex(w)
                   /\ ParseFile(w)' = ParseFile(w)
         /\ \A s : Position(s)' = Position(s)
<1>1. source' = source /\ num_samples' = num_samples /\ threads' = threads /\ workers' = workers
  BY DEF configVars
<1>2. SamplesPerProc' = SamplesPerProc
  BY <1>1 DEF SamplesPerProc
<1>3. NumFiles' = NumFiles
  BY <1>1, <1>2 DEF NumFiles
<1>4. Files' = Files /\ LastFile' = LastFile /\ Workers' = Workers
  BY <1>1, <1>2, <1>3 DEF Files, LastFile, Workers
<1>5. \A f : Length(f)' = Length(f)
  BY <1>2, <1>3, <1>4 DEF Length
<1>6. \A f : FileData(f)' = FileData(f)
  BY <1>5 DEF FileData
<1>7. Samples' = Samples /\ \A w : ParseFile(w)' = ParseFile(w)
  BY <1>4, <1>6 DEF Samples, ParseFile
<1>8. \A f : FilesBefore(f)' = FilesBefore(f)
  BY <1>4 DEF FilesBefore
<1>9. \A s : Position(s)' = Position(s)
  <2> SUFFICES ASSUME NEW s PROVE Position(s)' = Position(s)
    OBVIOUS
  <2>1. FilesBefore(s[1])' = FilesBefore(s[1])
    BY <1>8
  <2> QED BY <1>2, <1>3, <1>4, <2>1 DEF Position, SamplesIn
<1>10. \A w : StartIndex(w)' = StartIndex(w) /\ EndIndex(w)' = EndIndex(w)
  BY <1>1 DEF StartIndex, EndIndex, FirstOf, SubsetSize
<1> QED BY <1>1, <1>2, <1>3, <1>4, <1>7, <1>9, <1>10

LEMMA WorkerTypes ==
  ASSUME TSTypeOK, NEW w \in Workers, NEW st, NEW fr, NEW ci, NEW tk, NEW n,
         WorkerOk(w, st, fr, ci, tk, n)
  PROVE  /\ st \in {"waiting", "reading", "done"} /\ fr \in SUBSET Files
         /\ ci \in 0 .. num_samples /\ tk \in SUBSET Samples /\ n \in Nat
<1>1. st \in {"waiting", "reading", "done"} /\ fr \in SUBSET Files
  BY DEF WorkerOk, Leading
<1>2. ci \in 0 .. num_samples
  <2>1. ci = SamplesIn(fr) /\ SamplesIn(fr) \in Nat
    BY <1>1, SamplesInAdds DEF WorkerOk
  <2>2. SamplesIn(fr) <= num_samples
    BY <1>1, SamplesInGrows
  <2> QED BY <2>1, <2>2, Numbers
<1>3. tk \in SUBSET Samples
  <2>1. ParseFile(w) \subseteq Samples
    BY SampleIs DEF ParseFile
  <2>2. \A a, b : InRange(a, b) \subseteq Samples
    BY DEF InRange
  <2> QED BY <2>1, <2>2 DEF WorkerOk
<1>4. n \in Nat
  BY <1>3, SamplesFinite DEF WorkerOk
<1> QED BY <1>1, <1>2, <1>3, <1>4

LEMMA WorkerStep ==
  ASSUME PartitionInv, UNCHANGED configVars, written' \subseteq Files, NEW w \in Workers,
         NEW st, NEW fr, NEW ci, NEW tk, NEW n, WorkerOk(w, st, fr, ci, tk, n),
         state' = [state EXCEPT ![w] = st], files_read' = [files_read EXCEPT ![w] = fr],
         current_index' = [current_index EXCEPT ![w] = ci], taken' = [taken EXCEPT ![w] = tk],
         samples' = [samples EXCEPT ![w] = n]
  PROVE  PartitionInv'
<1>1. TSTypeOK /\ \A v \in Workers : WorkerInv(v)
  BY DEF PartitionInv
<1>2. /\ st \in {"waiting", "reading", "done"} /\ fr \in SUBSET Files
      /\ ci \in 0 .. num_samples /\ tk \in SUBSET Samples /\ n \in Nat
  BY <1>1, WorkerTypes
<1>3. /\ source' = source /\ num_samples' = num_samples /\ threads' = threads /\ workers' = workers
      /\ Files' = Files /\ Workers' = Workers /\ Samples' = Samples
  BY PartitionKept
<1>4. TSTypeOK'
  BY <1>1, <1>2, <1>3 DEF TSTypeOK
<1>5. ASSUME NEW v \in Workers PROVE WorkerInv(v)'
  <2>1. WorkerOk(v, state'[v], files_read'[v], current_index'[v], taken'[v], samples'[v])
    <3>1. CASE v = w
      BY <1>1, <3>1 DEF TSTypeOK
    <3>2. CASE v # w
      BY <1>1, <3>2 DEF TSTypeOK, WorkerInv
    <3> QED BY <3>1, <3>2
  <2>2. /\ NumFiles' = NumFiles /\ SamplesPerProc' = SamplesPerProc /\ LastFile' = LastFile
        /\ StartIndex(v)' = StartIndex(v) /\ EndIndex(v)' = EndIndex(v) /\ ParseFile(v)' = ParseFile(v)
        /\ \A s : Position(s)' = Position(s)
    BY PartitionKept
  <2> QED BY <1>3, <2>1, <2>2 DEF WorkerInv, WorkerOk, Leading, SamplesIn, InRange, Least
<1>6. source' = "local" => threads' = workers'
  BY <1>3 DEF PartitionInv
<1> QED BY <1>3, <1>4, <1>5, <1>6 DEF PartitionInv
-----------------------------------------------------------------------------
LEMMA PartitionInit == TSInit => PartitionInv
<1> SUFFICES ASSUME TSInit PROVE PartitionInv
  OBVIOUS
<1>1. TSTypeOK
  <2>1. /\ num_samples \in Nat \ {0} /\ workers \in WorkerCounts
        /\ threads \in InsertionThreads \cup WorkerCounts
    BY SamplesAssumption DEF TSInit
  <2> QED BY <2>1 DEF TSInit, TSTypeOK
<1>2. Leading({}) /\ SamplesIn({}) = 0 /\ Cardinality({}) = 0
  BY <1>1, SamplesInAdds, FS_EmptySet DEF Leading
<1>3. \A w \in Workers : WorkerInv(w)
  BY <1>2 DEF TSInit, WorkerInv, WorkerOk
<1>4. source = "local" => threads = workers
  BY DEF TSInit
<1> QED BY <1>1, <1>3, <1>4 DEF PartitionInv

(* What a worker that reads the files knows: its next file comes after     *)
(* those it has passed, and its samples are the next ones.                 *)
LEMMA ReadingIs ==
  ASSUME PartitionInv, NEW w \in Workers, state[w] = "reading", files_read[w] # Files
  PROVE  /\ NextFile(w) \in Files \ files_read[w] /\ Leading(files_read[w] \cup {NextFile(w)})
         /\ FileData(NextFile(w)) =
              InRange(current_index[w], current_index[w] + Length(NextFile(w)))
         /\ \A s \in FileData(NextFile(w)) : Position(s) = current_index[w] + s[2]
         /\ SamplesIn(files_read[w] \cup {NextFile(w)}) = current_index[w] + Length(NextFile(w))
         /\ Length(NextFile(w)) \in Nat /\ current_index[w] \in Nat
         /\ current_index[w] + Length(NextFile(w)) <= num_samples
<1> DEFINE f == NextFile(w)
           F == files_read[w]
<1>1. TSTypeOK /\ Leading(F) /\ current_index[w] = SamplesIn(F) /\ F \subseteq Files
  BY DEF PartitionInv, WorkerInv, WorkerOk, Leading
<1>2. \E g \in Files \ F : \A h \in Files \ F : NameKey(g) <= NameKey(h)
  BY <1>1, HasNext
<1>3. f \in Files \ F /\ \A g \in Files \ F : NameKey(f) <= NameKey(g)
  BY <1>2 DEF NextFile
<1> HIDE DEF f, F
<1>4. FilesBefore(f) = F /\ Leading(F \cup {f})
  BY <1>1, <1>3, NextOf
<1>5. Length(f) \in Nat
  BY <1>1, <1>3, Lengths
<1>6. SamplesIn(F) \in Nat /\ SamplesIn(F \cup {f}) = SamplesIn(F) + Length(f)
  BY <1>1, <1>3, SamplesInAdds
<1>7. /\ FileData(f) = InRange(SamplesIn(F), SamplesIn(F) + Length(f))
      /\ SamplesIn(F) + Length(f) <= num_samples
      /\ \A s \in FileData(f) : Position(s) = SamplesIn(F) + s[2]
  BY <1>1, <1>3, <1>4, FileRange
<1> QED BY <1>1, <1>3, <1>4, <1>5, <1>6, <1>7 DEF f, F

LEMMA WorkerNow ==
  ASSUME PartitionInv, NEW w \in Workers
  PROVE  /\ WorkerOk(w, state[w], files_read[w], current_index[w], taken[w], samples[w])
         /\ state = [state EXCEPT ![w] = state[w]]
         /\ files_read = [files_read EXCEPT ![w] = files_read[w]]
         /\ current_index = [current_index EXCEPT ![w] = current_index[w]]
         /\ taken = [taken EXCEPT ![w] = taken[w]] /\ samples = [samples EXCEPT ![w] = samples[w]]
         /\ written \subseteq Files
BY DEF PartitionInv, TSTypeOK, WorkerInv

LEMMA RequestSteps ==
  ASSUME PartitionInv, NEW w \in Workers, RequestFromFiles(w) \/ RequestFromCache(w) \/ ReadOwnFile(w)
  PROVE  PartitionInv'
<1> DEFINE fr == files_read[w]
           ci == current_index[w]
           a == StartIndex(w)
           b == EndIndex(w)
<1>1. TSTypeOK /\ fr = {} /\ ci = 0 /\ Leading({}) /\ SamplesIn({}) = 0 /\ taken[w] = {} /\ samples[w] = 0
  <2>1. WorkerOk(w, state[w], fr, ci, taken[w], samples[w]) /\ state[w] = "waiting" /\ TSTypeOK
    BY WorkerNow DEF PartitionInv, RequestFromFiles, RequestFromCache, ReadOwnFile
  <2>2. SamplesIn({}) = 0 /\ Cardinality({}) = 0
    BY <2>1, SamplesInAdds, FS_EmptySet
  <2> QED BY <2>1, <2>2 DEF WorkerOk
<1>2. a \in Nat /\ b \in Nat /\ a <= b /\ b <= num_samples /\ b - a = SubsetSize(w)
  BY <1>1, IndicesAre
<1>3. CASE RequestFromFiles(w)
  <2>1. Least(b, 0) = 0
    BY <1>2 DEF Least
  <2>2. InRange(a, 0) = {}
    <3>1. \A s \in Samples : Position(s) \in Nat
      BY <1>1, PositionType
    <3> QED BY <3>1 DEF InRange
  <2>3. WorkerOk(w, "reading", {}, 0, {}, 0)
    BY <1>1, <1>3, <2>1, <2>2, FS_EmptySet DEF WorkerOk, RequestFromFiles
  <2>4. /\ UNCHANGED <<configVars, written>> /\ state' = [state EXCEPT ![w] = "reading"]
        /\ files_read' = [files_read EXCEPT ![w] = {}] /\ current_index' = [current_index EXCEPT ![w] = 0]
        /\ taken' = [taken EXCEPT ![w] = {}] /\ samples' = [samples EXCEPT ![w] = 0]
    BY <1>1, <1>3, WorkerNow DEF RequestFromFiles
  <2> QED BY <2>3, <2>4, WorkerNow, WorkerStep
<1>4. CASE RequestFromCache(w)
  <2>1. Share(w) = InRange(a, b)
    BY <1>1, ShareIs
  <2>2. Cardinality(Share(w)) = SubsetSize(w)
    BY <1>1, <1>2, <2>1, RangeCount
  <2>3. WorkerOk(w, "done", {}, 0, Share(w), SubsetSize(w))
    BY <1>1, <1>4, <2>1, <2>2 DEF WorkerOk, RequestFromCache
  <2>4. /\ UNCHANGED <<configVars, written>> /\ state' = [state EXCEPT ![w] = "done"]
        /\ files_read' = [files_read EXCEPT ![w] = {}] /\ current_index' = [current_index EXCEPT ![w] = 0]
        /\ taken' = [taken EXCEPT ![w] = Share(w)] /\ samples' = [samples EXCEPT ![w] = SubsetSize(w)]
    BY <1>1, <1>4, WorkerNow DEF RequestFromCache
  <2> QED BY <2>3, <2>4, WorkerNow, WorkerStep
<1>5. CASE ReadOwnFile(w)
  <2> DEFINE n == IF w \in Files THEN Length(w) ELSE 0
  <2>1. n = Cardinality(ParseFile(w))
    <3>1. CASE w \in Files
      <4> DEFINE c == SamplesIn(FilesBefore(w))
                 d == c + Length(w)
      <4>1. FileData(w) = InRange(c, d) /\ c \in Nat /\ d <= num_samples
        BY <1>1, <3>1, FileRange
      <4>2. Length(w) \in Nat
        BY <1>1, <3>1, Lengths
      <4>3. d \in Nat /\ c <= d /\ d - c = Length(w)
        BY <4>1, <4>2
      <4> HIDE DEF c, d
      <4>4. Cardinality(InRange(c, d)) = d - c
        BY <1>1, <4>1, <4>3, RangeCount
      <4> QED BY <3>1, <4>1, <4>3, <4>4 DEF ParseFile
    <3>2. CASE w \notin Files
      BY <3>2, FS_EmptySet DEF ParseFile
    <3> QED BY <3>1, <3>2
  <2> HIDE DEF n
  <2>2. WorkerOk(w, "done", {}, 0, ParseFile(w), n)
    BY <1>1, <1>5, <2>1 DEF WorkerOk, ReadOwnFile
  <2>3. /\ UNCHANGED <<configVars, written>> /\ state' = [state EXCEPT ![w] = "done"]
        /\ files_read' = [files_read EXCEPT ![w] = {}] /\ current_index' = [current_index EXCEPT ![w] = 0]
        /\ taken' = [taken EXCEPT ![w] = ParseFile(w)] /\ samples' = [samples EXCEPT ![w] = n]
    BY <1>1, <1>5, WorkerNow DEF ReadOwnFile, n
  <2> QED BY <2>2, <2>3, WorkerNow, WorkerStep
<1> QED BY <1>3, <1>4, <1>5
LEMMA LoopSteps ==
  ASSUME PartitionInv, NEW w \in Workers, SkipFile(w) \/ ReadFile(w) \/ NothingLeft(w)
  PROVE  PartitionInv'
<1> DEFINE fr == files_read[w]
           ci == current_index[w]
           tk == taken[w]
           n == samples[w]
           a == StartIndex(w)
           b == EndIndex(w)
           f == NextFile(w)
           l == Length(f)
<1>1. /\ TSTypeOK /\ state[w] = "reading" /\ Leading(fr) /\ ci = SamplesIn(fr) /\ source # "local"
      /\ tk = InRange(a, Least(b, ci)) /\ n = Cardinality(tk) /\ num_samples \in Nat
  <2>1. TSTypeOK /\ state[w] = "reading" /\ WorkerOk(w, state[w], fr, ci, tk, n)
    BY WorkerNow DEF PartitionInv, SkipFile, ReadFile, NothingLeft
  <2> QED BY <2>1, Numbers DEF WorkerOk
<1>2. a \in Nat /\ b \in Nat /\ a <= b /\ b <= num_samples
  BY <1>1, IndicesAre
<1>3. ci \in Nat /\ (fr = Files => ci = num_samples)
  <2>1. fr \subseteq Files
    BY <1>1 DEF Leading
  <2> QED BY <1>1, <2>1, SamplesInAdds
<1>4. \A s \in Samples : Position(s) \in Nat
  BY <1>1, PositionType
<1>5. \A x, y \in Nat : y <= x => InRange(x, y) = {}
  BY <1>4 DEF InRange
<1>6. CASE NothingLeft(w)
  <2>1. Least(b, ci) = b
    BY <1>2, <1>3, <1>6 DEF Least, NothingLeft
  <2>2. WorkerOk(w, "done", fr, ci, tk, n)
    BY <1>1, <2>1 DEF WorkerOk
  <2>3. /\ UNCHANGED <<configVars, written>> /\ state' = [state EXCEPT ![w] = "done"]
        /\ files_read' = [files_read EXCEPT ![w] = fr] /\ current_index' = [current_index EXCEPT ![w] = ci]
        /\ taken' = [taken EXCEPT ![w] = tk] /\ samples' = [samples EXCEPT ![w] = n]
    BY <1>6, WorkerNow DEF NothingLeft
  <2> QED BY <2>2, <2>3, WorkerNow, WorkerStep
<1>7. ASSUME SkipFile(w) \/ ReadFile(w)
      PROVE  /\ f \in Files \ fr /\ Leading(fr \cup {f}) /\ l \in Nat /\ ci + l <= num_samples
             /\ FileData(f) = InRange(ci, ci + l) /\ \A s \in FileData(f) : Position(s) = ci + s[2]
             /\ SamplesIn(fr \cup {f}) = ci + l
             /\ ci < b /\ Least(b, ci) = ci
  <2>1. state[w] = "reading" /\ fr # Files /\ ci < b
    BY <1>7 DEF SkipFile, ReadFile
  <2>2. Least(b, ci) = ci
    BY <1>2, <1>3, <2>1 DEF Least
  <2> QED BY <2>1, <2>2, ReadingIs
<1>8. CASE SkipFile(w)
  <2>1. f \in Files \ fr /\ Leading(fr \cup {f}) /\ l \in Nat /\ SamplesIn(fr \cup {f}) = ci + l /\ ci < b
        /\ Least(b, ci) = ci
    BY <1>7, <1>8
  <2>2. ci + l <= a
    BY <1>8 DEF SkipFile
  <2>3. Least(b, ci + l) <= a /\ Least(b, ci + l) \in Nat
    BY <1>2, <1>3, <2>1, <2>2 DEF Least
  <2>4. ci <= a
    BY <1>2, <1>3, <2>1, <2>2
  <2>5. tk = {} /\ InRange(a, Least(b, ci + l)) = {}
    BY <1>1, <1>2, <1>3, <1>5, <2>1, <2>3, <2>4
  <2>6. WorkerOk(w, "reading", fr \cup {f}, ci + l, tk, n)
    BY <1>1, <2>1, <2>5 DEF WorkerOk
  <2>7. /\ UNCHANGED <<configVars, written>> /\ state' = [state EXCEPT ![w] = "reading"]
        /\ files_read' = [files_read EXCEPT ![w] = fr \cup {f}]
        /\ current_index' = [current_index EXCEPT ![w] = ci + l]
        /\ taken' = [taken EXCEPT ![w] = tk] /\ samples' = [samples EXCEPT ![w] = n]
    BY <1>1, <1>8, WorkerNow DEF SkipFile
  <2> QED BY <2>6, <2>7, WorkerNow, WorkerStep
<1>9. CASE ReadFile(w)
  <2> DEFINE sf == StartInFile(w)
             ef == EndInFile(w, f)
             c == Least(b, ci + l)
             read == FileSubset(f, sf, ef)
  <2>1. /\ f \in Files \ fr /\ Leading(fr \cup {f}) /\ l \in Nat /\ SamplesIn(fr \cup {f}) = ci + l
        /\ ci < b /\ tk = InRange(a, ci) /\ ci + l <= num_samples
        /\ FileData(f) = InRange(ci, ci + l) /\ \A s \in FileData(f) : Position(s) = ci + s[2]
    BY <1>1, <1>7, <1>9
  <2>2. ci + l > a
    BY <1>9 DEF ReadFile
  <2>3. sf = IF a >= ci THEN a - ci ELSE 0
    BY DEF StartInFile
  <2>4. ef = IF ci + l < b THEN l ELSE b - ci
    BY DEF EndInFile
  <2>5. read = IF ef > l THEN {} ELSE {<<f, i>> : i \in sf .. ef - 1}
    BY DEF FileSubset
  <2> HIDE DEF a, b, l, f, sf, ef, read
  <2>6. /\ ef \in Nat /\ ef <= l /\ ci + ef = c /\ sf \in Nat /\ sf <= ef
        /\ c \in Nat /\ a <= c /\ ci <= c /\ c <= num_samples
        /\ ci + sf = IF a >= ci THEN a ELSE ci
    BY <1>2, <1>3, <2>1, <2>2, <2>3, <2>4 DEF Least
  <2>7. read = {<<f, i>> : i \in sf .. ef - 1}
    BY <2>1, <2>5, <2>6
  <2> HIDE DEF c
  <2>8. \A i \in 0 .. l - 1 : <<f, i>> \in FileData(f) /\ Position(<<f, i>>) = ci + i /\ <<f, i>> \in Samples
    <3> SUFFICES ASSUME NEW i \in 0 .. l - 1
                 PROVE  <<f, i>> \in FileData(f) /\ Position(<<f, i>>) = ci + i /\ <<f, i>> \in Samples
      OBVIOUS
    <3>1. <<f, i>> \in FileData(f)
      BY DEF FileData, l
    <3> QED BY <2>1, <3>1, SampleIs
  <2>9. ASSUME NEW s \in tk \cup read PROVE s \in InRange(a, c)
    <3>1. CASE s \in tk
      <4>1. s \in Samples /\ a <= Position(s) /\ Position(s) < ci
        BY <2>1, <3>1 DEF InRange
      <4>2. Position(s) \in Nat
        BY <1>4, <4>1
      <4> QED BY <1>3, <2>6, <4>1, <4>2 DEF InRange
    <3>2. CASE s \in read
      <4>1. PICK i \in sf .. ef - 1 : s = <<f, i>>
        BY <2>7, <3>2
      <4>2. i \in 0 .. l - 1 /\ i < ef /\ sf <= i
        BY <2>1, <2>6
      <4>3. s \in Samples /\ Position(s) = ci + i
        BY <2>8, <4>1, <4>2
      <4>4. a <= ci + i /\ ci + i < c
        BY <1>2, <1>3, <2>6, <4>2
      <4> QED BY <4>3, <4>4 DEF InRange
    <3> QED BY <2>9, <3>1, <3>2
  <2>10. ASSUME NEW s \in InRange(a, c) PROVE s \in tk \cup read
    <3>1. s \in Samples /\ a <= Position(s) /\ Position(s) < c /\ Position(s) \in Nat
      BY <1>4 DEF InRange
    <3>2. CASE Position(s) < ci
      BY <2>1, <3>1, <3>2 DEF InRange
    <3>3. CASE ~(Position(s) < ci)
      <4> DEFINE i == Position(s) - ci
      <4>1. i \in sf .. ef - 1 /\ i \in 0 .. l - 1 /\ ci + i = Position(s)
        BY <1>2, <1>3, <2>1, <2>6, <3>1, <3>3
      <4>2. <<f, i>> \in Samples /\ Position(<<f, i>>) = Position(s)
        BY <2>8, <4>1
      <4> HIDE DEF i
      <4>3. s = <<f, i>>
        BY <1>1, <3>1, <4>2, PositionsDiffer
      <4> QED BY <2>7, <4>1, <4>3
    <3> QED BY <3>2, <3>3
  <2>11. tk \cup read = InRange(a, c)
    BY <2>9, <2>10
  <2>12. n + ef - sf = Cardinality(tk \cup read)
    <3> HIDE DEF ci, n
    <3>1. Cardinality(InRange(a, c)) = c - a
      BY <1>1, <1>2, <2>6, RangeCount
    <3>2. ASSUME a <= ci PROVE n + ef - sf = c - a
      <4>1. n = ci - a
        <5>1. ci <= num_samples
          BY <1>2, <1>3, <2>1, <1>1
        <5> QED BY <1>1, <1>2, <1>3, <2>1, <3>2, <5>1, RangeCount
      <4> QED BY <1>2, <1>3, <2>6, <3>2, <4>1
    <3>3. ASSUME ~(a <= ci) PROVE n + ef - sf = c - a
      <4>1. tk = {}
        BY <1>2, <1>3, <1>5, <2>1, <3>3
      <4>2. n = 0
        BY <1>1, <4>1, FS_EmptySet
      <4> QED BY <1>2, <1>3, <2>6, <3>3, <4>2
    <3>4. n + ef - sf = c - a
      BY <3>2, <3>3
    <3> QED BY <2>11, <3>1, <3>4
  <2>13. CASE ci + l >= b
    <3>1. c = b
      BY <1>2, <1>3, <2>1, <2>13 DEF Least, c
    <3>2. WorkerOk(w, "done", fr, ci, tk \cup read, n + ef - sf)
      BY <1>1, <2>11, <2>12, <3>1 DEF WorkerOk, b, a
    <3>3. LastOfWorker(w, f)
      BY <2>13 DEF LastOfWorker, l, b
    <3>4. /\ UNCHANGED <<configVars, written>> /\ state' = [state EXCEPT ![w] = "done"]
          /\ files_read' = [files_read EXCEPT ![w] = fr] /\ current_index' = [current_index EXCEPT ![w] = ci]
          /\ taken' = [taken EXCEPT ![w] = tk \cup read]
          /\ samples' = [samples EXCEPT ![w] = n + ef - sf]
      BY <1>9, <3>3, WorkerNow DEF ReadFile, f, sf, ef, read
    <3> HIDE DEF fr, ci, tk, n
    <3> QED BY <3>2, <3>4, WorkerNow, WorkerStep
  <2>14. CASE ~(ci + l >= b)
    <3>1. WorkerOk(w, "reading", fr \cup {f}, ci + l, tk \cup read, n + ef - sf)
      BY <1>1, <2>1, <2>11, <2>12 DEF WorkerOk, b, a, c
    <3>2. ~LastOfWorker(w, f)
      BY <2>14 DEF LastOfWorker, l, b
    <3>3. /\ UNCHANGED <<configVars, written>> /\ state' = [state EXCEPT ![w] = "reading"]
          /\ files_read' = [files_read EXCEPT ![w] = fr \cup {f}]
          /\ current_index' = [current_index EXCEPT ![w] = ci + l]
          /\ taken' = [taken EXCEPT ![w] = tk \cup read]
          /\ samples' = [samples EXCEPT ![w] = n + ef - sf]
      BY <1>1, <1>9, <3>2, WorkerNow DEF ReadFile, f, l, sf, ef, read
    <3> HIDE DEF fr, ci, tk, n
    <3> QED BY <3>1, <3>3, WorkerNow, WorkerStep
  <2> QED BY <2>13, <2>14
<1> QED BY <1>6, <1>8, <1>9

LEMMA NextStep == PartitionInv /\ [TSNext]_tsVars => PartitionInv'
<1> SUFFICES ASSUME PartitionInv, [TSNext]_tsVars PROVE PartitionInv'
  OBVIOUS
<1>1. workers - 1 \in Workers /\ TSTypeOK
  BY Numbers DEF PartitionInv, Workers
<1>2. ASSUME UNCHANGED <<configVars, readVars>>, written' \subseteq Files PROVE PartitionInv'
  <2> DEFINE w == workers - 1
  <2>1. /\ UNCHANGED configVars /\ w \in Workers
        /\ WorkerOk(w, state[w], files_read[w], current_index[w], taken[w], samples[w])
        /\ state' = [state EXCEPT ![w] = state[w]]
        /\ files_read' = [files_read EXCEPT ![w] = files_read[w]]
        /\ current_index' = [current_index EXCEPT ![w] = current_index[w]]
        /\ taken' = [taken EXCEPT ![w] = taken[w]] /\ samples' = [samples EXCEPT ![w] = samples[w]]
    BY <1>1, <1>2, WorkerNow DEF readVars
  <2> HIDE DEF w
  <2> QED BY <1>2, <2>1, WorkerStep
<1>3. ASSUME NEW f \in Files, WriteFile(f) PROVE PartitionInv'
  BY <1>1, <1>2, <1>3, WorkerNow DEF WriteFile
<1>4. CASE UNCHANGED tsVars
  BY <1>1, <1>2, <1>4, WorkerNow DEF tsVars
<1> QED BY <1>3, <1>4, RequestSteps, LoopSteps DEF TSNext

THEOREM PartitionInvariant == TSSpec => []PartitionInv
BY PartitionInit, NextStep, PTL DEF TSSpec

(* The type invariant.                                                     *)
THEOREM PartitionsTyped == TSSpec => []TSTypeOK
<1>1. PartitionInv => TSTypeOK
  BY DEF PartitionInv
<1> QED BY <1>1, PartitionInvariant, PTL

(* No two workers are given the same sample and, once all are served, no   *)
(* sample is left out, whatever numbers of samples, files and workers.     *)
THEOREM SampleOnce == TSSpec => []EachSampleOnce
<1>1. ASSUME PartitionInv PROVE EachSampleOnce
  <2>1. TSTypeOK /\ source \in {"selector", "local"}
    BY <1>1 DEF PartitionInv, TSTypeOK
  <2>2. ASSUME NEW w \in Workers
        PROVE  taken[w] \subseteq IF source = "local" THEN ParseFile(w)
                                  ELSE InRange(StartIndex(w), EndIndex(w))
    <3>1. WorkerOk(w, state[w], files_read[w], current_index[w], taken[w], samples[w])
      BY <1>1, WorkerNow
    <3>2. current_index[w] \in Nat /\ EndIndex(w) \in Nat
      BY <2>1, IndicesAre, Numbers DEF TSTypeOK
    <3>3. Least(EndIndex(w), current_index[w]) \in Nat /\ Least(EndIndex(w), current_index[w]) <= EndIndex(w)
      BY <3>2 DEF Least
    <3>4. ASSUME NEW x \in Nat, x <= EndIndex(w)
          PROVE  InRange(StartIndex(w), x) \subseteq InRange(StartIndex(w), EndIndex(w))
      <4>1. \A s \in Samples : Position(s) \in Nat
        BY <2>1, PositionType
      <4> QED BY <3>2, <3>4, <4>1 DEF InRange
    <3>5. InRange(StartIndex(w), Least(EndIndex(w), current_index[w]))
            \subseteq InRange(StartIndex(w), EndIndex(w))
      BY <3>3, <3>4
    <3> QED BY <3>1, <3>5 DEF WorkerOk
  <2>3. ASSUME NEW v \in Workers, NEW w \in Workers, v # w PROVE taken[v] \cap taken[w] = {}
    <3>1. CASE source = "local"
      <4>1. ParseFile(v) \cap ParseFile(w) = {}
        BY <2>3, SampleIs DEF ParseFile
      <4> QED BY <2>2, <3>1, <4>1
    <3>2. CASE source # "local"
      <4>1. InRange(StartIndex(v), EndIndex(v)) \cap InRange(StartIndex(w), EndIndex(w)) = {}
        BY <2>1, <2>3, ShareRangesApart
      <4> QED BY <2>2, <3>2, <4>1
    <3> QED BY <3>1, <3>2
  <2>4. ASSUME AllServed, NEW s \in Samples PROVE \E w \in Workers : s \in taken[w]
    <3>1. ASSUME NEW w \in Workers
          PROVE  taken[w] = IF source = "local" THEN ParseFile(w)
                            ELSE InRange(StartIndex(w), EndIndex(w))
      BY <1>1, <2>4, WorkerNow DEF WorkerOk, AllServed
    <3>2. CASE source = "local"
      <4>1. s[1] \in Files /\ s \in FileData(s[1])
        BY SampleIs
      <4>2. Files \subseteq Workers
        <5>1. NumFiles \in Nat \ {0} /\ (NumFiles = 1 \/ NumFiles = workers) /\ workers \in Nat \ {0}
          BY <1>1, <2>1, <3>2, FilesAre, Numbers DEF PartitionInv
        <5> QED BY <5>1 DEF Files, Workers
      <4> QED BY <3>1, <3>2, <4>1, <4>2 DEF ParseFile
    <3>3. CASE source # "local"
      BY <2>1, <3>1, <3>3, SharesCover
    <3> QED BY <3>2, <3>3
  <2> QED BY <2>3, <2>4 DEF EachSampleOnce
<1> QED BY <1>1, PartitionInvariant, PTL

(* The files' loop and the cache serve the same share, of the size the     *)
(* worker is told, and the sizes of two shares differ by at most one.      *)
THEOREM SharesServed == TSSpec => []ShareServed
<1>1. ASSUME PartitionInv, NEW w \in Workers, state[w] = "done"
      PROVE  /\ samples[w] = Cardinality(taken[w])
             /\ source = "selector" => taken[w] = Share(w) /\ samples[w] = SubsetSize(w)
  <2>1. TSTypeOK
    BY <1>1 DEF PartitionInv
  <2>2. WorkerOk(w, "done", files_read[w], current_index[w], taken[w], samples[w])
    BY <1>1, WorkerNow
  <2>3. ASSUME source = "selector" PROVE taken[w] = Share(w) /\ samples[w] = SubsetSize(w)
    <3>1. taken[w] = InRange(StartIndex(w), EndIndex(w)) /\ samples[w] = Cardinality(taken[w])
      BY <2>2, <2>3 DEF WorkerOk
    <3>2. /\ StartIndex(w) \in Nat /\ EndIndex(w) \in Nat /\ StartIndex(w) <= EndIndex(w)
          /\ EndIndex(w) <= num_samples /\ EndIndex(w) - StartIndex(w) = SubsetSize(w)
      BY <2>1, IndicesAre
    <3>3. Cardinality(taken[w]) = SubsetSize(w)
      BY <2>1, <3>1, <3>2, RangeCount
    <3> QED BY <2>1, <3>1, <3>3, ShareIs
  <2> QED BY <2>2, <2>3 DEF WorkerOk
<1>2. ASSUME PartitionInv PROVE ShareServed
  <2>1. ASSUME NEW v \in Workers, NEW w \in Workers PROVE SubsetSize(v) - SubsetSize(w) \in -1 .. 1
    <3>1. PICK q : q = num_samples \div workers
      OBVIOUS
    <3>2. q \in Nat
      <4>1. num_samples \in Nat /\ workers \in Nat \ {0}
        BY <1>2, Numbers DEF PartitionInv
      <4> QED BY <3>1, <4>1, DivMod
    <3>3. SubsetSize(v) \in {q, q + 1} /\ SubsetSize(w) \in {q, q + 1}
      BY <1>2, <3>1, SharesAre DEF PartitionInv
    <3> QED BY <3>2, <3>3
  <2> QED BY <1>1, <1>2, <2>1 DEF ShareServed
<1> QED BY <1>2, PartitionInvariant, PTL
=============================================================================
