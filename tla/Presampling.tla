------------------------------ MODULE Presampling ------------------------------
(***************************************************************************)
(* What the sampled selection strategies may draw from a set of samples:   *)
(* the presampling strategies of a CoresetStrategy and the mixture of a    *)
(* FreshnessSamplingStrategy.  Samples are numbers, older ones smaller.    *)
(* Each operator gives the set of all possible draws.                      *)
(***************************************************************************)
EXTENDS Integers, SequencesExt

Minimum(a, b) == IF a < b THEN a ELSE b
Larger(a, b) == IF a < b THEN b ELSE a
Oldest(n, S) == {k \in S : Cardinality({j \in S : j < k}) < n}

(* S in chunks of a size, the last one with the rest, in any order.        *)
Chunkings(S, size) ==
  LET n == (Cardinality(S) + size - 1) \div size
      Chunk(f, i) == {k \in S : f[k] = i}
  IN {[i \in 1 .. n |-> Chunk(f, i)] : f \in
       {g \in [S -> 1 .. n] : \A i \in 1 .. n - 1 : Cardinality(Chunk(g, i)) = size}}

(* S in chunks of a size, by timestamp.                                    *)
ChunksByAge(S, size) ==
  [i \in 1 .. (Cardinality(S) + size - 1) \div size |->
     Oldest(i * size, S) \ Oldest((i - 1) * size, S)]
-----------------------------------------------------------------------------
(* get_target_size; a limit of 0 is none.                                  *)
TargetSize(n, ratio, limit) ==
  LET target_presampling == (n * ratio) \div 100
  IN IF limit = 0 THEN target_presampling ELSE Minimum(limit, target_presampling)

(* The subquery of RandomPresamplingStrategy.                              *)
RandomDraws(S, target) == kSubset(target, S)
-----------------------------------------------------------------------------
(* get_fair_share: the requests that are below an equal share are served,  *)
(* the others share what is left.  requests.index names the first equal    *)
(* request, so of several equal ones only that one is taken off the list.  *)
fair_share(total, requests) ==
  LET index(c, left) == CHOOSE d \in left : requests[d] = requests[c]
      share[args \in Nat \X ((SUBSET DOMAIN requests) \ {{}})] ==
        LET capacity == args[1]
            left == args[2]
            equal == capacity \div Cardinality(left)
            below == {c \in left : requests[c] <= equal}
        IN IF below # {} /\ below # left
             THEN share[<<capacity - SumFunctionOnSet(requests, below),
                          left \ {index(c, left) : c \in below}>>]
             ELSE equal
  IN share[<<total, DOMAIN requests>>]

PredictedTotal(share, requests) ==
  SumFunction([c \in DOMAIN requests |-> Minimum(share, requests[c])])

(* AbstractBalancedPresamplingStrategy: column[k] is the label of sample k *)
(* or the trigger it was seen in.  Up to row_num random samples of each    *)
(* class are selected, and at most the target of them, oldest first, when  *)
(* the query has a limit.                                                  *)
ClassSizes(S, column) ==
  [c \in {column[k] : k \in S} |-> Cardinality({k \in S : column[k] = c})]

(* Each query: row_num's bound, and whether the target also limits it.     *)
QueryBase(share, sizes, target, force) == <<share, FALSE>>   \* mutant: force_* is ignored
Query(share, sizes, target, force) ==
  LET smallest_size == CHOOSE m \in {sizes[i] : i \in DOMAIN sizes} :
                         \A i \in DOMAIN sizes : m <= sizes[i]
  IN CASE force = "target_size" /\ PredictedTotal(share, sizes) < target -> <<share + 1, TRUE>>
       [] force = "balancing" /\ smallest_size < share -> <<smallest_size, TRUE>>
       [] OTHER -> <<share, FALSE>>

BalancedDraws(S, column, target, force) ==
  LET sizes == ClassSizes(S, column)
      query == Query(fair_share(target, sizes), sizes, target, force)
      Class(c) == {k \in S : column[k] = c}
      Selected == {T \in SUBSET S : \A c \in {column[k] : k \in S} :
                     Cardinality(T \cap Class(c)) = Minimum(query[1], Cardinality(Class(c)))}
  IN IF query[2] THEN {Oldest(target, T) : T \in Selected} ELSE Selected
-----------------------------------------------------------------------------
(* RandomNoReplacementPresamplingStrategy: a round draws from the samples  *)
(* not drawn since its last complete trigger; when they do not suffice the *)
(* round is complete, and a new one starts within the same trigger.        *)
NotDrawnSinceInclusive(S, last_used, complete) ==    \* mutant: <= for <
  {k \in S : last_used[k] <= complete}
NotDrawnSince(S, last_used, complete) == {k \in S : last_used[k] < complete}

FirstDraws(S, last_used, complete, target) ==
  LET left == NotDrawnSince(S, last_used, complete)
  IN kSubset(Minimum(target, Cardinality(left)), left)

(* Each outcome: what is drawn, and the last complete trigger after it.    *)
NoReplacementDraws(S, last_used, complete, next, target) ==
  UNION {LET left == NotDrawnSince(S \ first, last_used, next)
         IN IF Cardinality(first) >= target THEN {<<first, complete>>}
            ELSE {<<first \cup more, next>> : more \in
                    kSubset(Minimum(target - Cardinality(first), Cardinality(left)), left)} :
         first \in FirstDraws(S, last_used, complete, target)}
-----------------------------------------------------------------------------
(* FreshnessSamplingStrategy: how many unused and used samples a trigger   *)
(* takes, without and with a limit.                                        *)
CalcNumSamplesNoLimitSwapped(unused, used, ratio) ==    \* mutant: the ratio of the used
  LET most_of_unused == (unused * 100) \div (100 - ratio)
      most_of_used == (used * 100) \div ratio
  IN IF most_of_unused > most_of_used
       THEN <<most_of_used - used, used>> ELSE <<unused, most_of_unused - unused>>
CalcNumSamplesNoLimit(unused, used, ratio) ==
  LET most_of_unused == (unused * 100) \div ratio
      most_of_used == (used * 100) \div (100 - ratio)
  IN IF most_of_unused > most_of_used
       THEN <<most_of_used - used, used>> ELSE <<unused, most_of_unused - unused>>

CalcNumSamplesLimit(limit, ratio) ==
  LET unused == (limit * ratio) \div 100 IN <<unused, limit - unused>>

NumSamples(unused, used, ratio, limit) ==
  LET n == CalcNumSamplesNoLimit(unused, used, ratio)
  IN IF limit > 0 /\ n[1] + n[2] > limit THEN CalcNumSamplesLimit(limit, ratio) ELSE n

(* Two queries with windows of half the memory each, joined window by      *)
(* window as long as either has one.                                       *)
JoinWindows(fresh, old) ==
  [i \in 1 .. Larger(Len(fresh), Len(old)) |->
     (IF i <= Len(fresh) THEN fresh[i] ELSE {}) \cup (IF i <= Len(old) THEN old[i] ELSE {})]

FreshnessDraws(unused, used, ratio, limit, max_keys) ==
  LET n == NumSamples(Cardinality(unused), Cardinality(used), ratio, limit)
      Windows(S, m) == UNION {Chunkings(T, Larger(max_keys \div 2, 1)) : T \in kSubset(m, S)}
  IN {JoinWindows(fresh, old) : fresh \in Windows(unused, n[1]), old \in Windows(used, n[2])}

(* Chunks of everything unused, the limit applying to each of them: the    *)
(* first trigger of a Freshness strategy, and NewDataStrategy.             *)
LimitedChunks(S, limit, size) ==
  UNION {{ps \in [DOMAIN chunks -> SUBSET S] :
            \A i \in DOMAIN ps :
              /\ ps[i] \subseteq chunks[i]
              /\ Cardinality(ps[i]) =
                   IF limit = 0 THEN Cardinality(chunks[i])
                   ELSE Minimum(limit, Cardinality(chunks[i]))} :
         chunks \in Chunkings(S, size)}
=============================================================================
