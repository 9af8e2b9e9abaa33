----------------------------- MODULE DataLemmas -----------------------------
(***************************************************************************)
(* Lemmas about numbers, finite sets and sequences that the proofs about   *)
(* the components need.  Induction is stated over a set in place of a      *)
(* predicate: the set of the numbers that have the property.               *)
(***************************************************************************)
EXTENDS Integers, SequencesExt, FiniteSetsExt, Functions, TLAPS, WellFoundedInduction, NaturalsInduction,
        SequenceTheorems, FiniteSetTheorems

(* A set of naturals that holds 0 and every successor holds them all.      *)
LEMMA NatSetInduction ==
  ASSUME NEW S, 0 \in S, \A n \in Nat : n \in S => n + 1 \in S
  PROVE  Nat \subseteq S
<1> DEFINE R == {ss \in Nat \X Nat : ss[1] < ss[2]}
           T == Nat \ S
<1>1. IsWellFoundedOn(R, Nat)
  BY NatLessThanWellFounded, Zenon DEF OpToRel
<1> SUFFICES ASSUME T # {} PROVE FALSE
  OBVIOUS
<1>2. PICK x \in T : \A y \in T : ~(<<y, x>> \in R)
  <2> HIDE DEF R, T
  <2>1. T \subseteq Nat
    BY DEF T
  <2> QED BY <1>1, <2>1, WFMin
<1>3. x \in Nat /\ x - 1 \in Nat /\ x - 1 < x
  BY <1>2
<1>4. x - 1 \notin T
  BY <1>2, <1>3
<1> QED BY <1>2, <1>3, <1>4

(* A set of naturals that is not empty has a least element.                *)
LEMMA LeastNatural ==
  ASSUME NEW T, T \subseteq Nat, T # {}
  PROVE  \E x \in T : \A y \in T : x <= y
<1> DEFINE S == {n \in Nat : \A m \in 0 .. n : m \notin T}
<1> SUFFICES ASSUME ~(\E x \in T : \A y \in T : x <= y) PROVE FALSE
  OBVIOUS
<1>1. 0 \in S
  BY DEF S
<1>2. \A n \in Nat : n \in S => n + 1 \in S
  BY DEF S
<1>3. Nat \subseteq S
  <2> QED BY <1>1, <1>2, NatSetInduction
<1>4. PICK x \in T : TRUE
  OBVIOUS
<1>5. x \in S /\ x \in 0 .. x
  BY <1>3, <1>4
<1> QED BY <1>4, <1>5 DEF S

(* A function on the naturals may be defined by recursion: by its value at *)
(* 0, and by a step from each value to the next.                           *)
RecursiveBy(f, S, a, step) ==
  f \in [Nat -> S] /\ f[0] = a /\ \A n \in Nat : f[n + 1] = step[<<n + 1, f[n]>>]

LEMMA NatRecursion ==
  ASSUME NEW S, NEW a \in S, NEW step \in [Nat \X S -> S]
  PROVE  \E f : RecursiveBy(f, S, a, step)
<1> DEFINE Upto(n) == {g \in [0 .. n -> S] :
                         g[0] = a /\ \A k \in 0 .. n - 1 : g[k + 1] = step[<<k + 1, g[k]>>]}
           Done == {n \in Nat : Upto(n) # {}}
<1>1. 0 \in Done
  <2>1. [k \in 0 .. 0 |-> a] \in Upto(0)
    OBVIOUS
  <2> QED BY <2>1
<1>2. ASSUME NEW n \in Nat, n \in Done
      PROVE  n + 1 \in Done
  <2>1. PICK g \in [0 .. n -> S] :
          g[0] = a /\ \A k \in 0 .. n - 1 : g[k + 1] = step[<<k + 1, g[k]>>]
    BY <1>2
  <2> DEFINE h == [k \in 0 .. n + 1 |-> IF k = n + 1 THEN step[<<n + 1, g[n]>>] ELSE g[k]]
  <2>2. g[n] \in S /\ step[<<n + 1, g[n]>>] \in S
    BY <2>1
  <2>3. h \in [0 .. n + 1 -> S]
    BY <2>1, <2>2
  <2>4. h[0] = a
    BY <2>1
  <2>5. ASSUME NEW k \in 0 .. (n + 1) - 1
        PROVE  h[k + 1] = step[<<k + 1, h[k]>>]
    <3>1. h[k] = g[k]
      OBVIOUS
    <3>2. CASE k = n
      <4>1. h[n + 1] = step[<<n + 1, g[n]>>]
        OBVIOUS
      <4> HIDE DEF h
      <4> QED BY <3>1, <3>2, <4>1
    <3>3. CASE k # n
      <4>1. k \in 0 .. n - 1 /\ h[k + 1] = g[k + 1]
        BY <3>3
      <4> QED BY <2>1, <3>1, <4>1
    <3> QED BY <3>2, <3>3
  <2>6. h \in Upto(n + 1)
    <3> HIDE DEF h
    <3> QED BY <2>3, <2>4, <2>5
  <2> HIDE DEF h, Upto
  <2> QED BY <2>6
<1>3. \A n \in Nat : n \in Done
  <2>1. \A n \in Nat : n \in Done => n + 1 \in Done
    BY <1>2
  <2> HIDE DEF Done
  <2> QED BY <1>1, <2>1, NatSetInduction
<1>4. ASSUME NEW m \in Nat, NEW n \in Nat, NEW g \in Upto(m), NEW h \in Upto(n)
      PROVE  \A k \in Nat : k <= m /\ k <= n => g[k] = h[k]
  <2> DEFINE Same == {k \in Nat : k <= m /\ k <= n => g[k] = h[k]}
  <2>1. 0 \in Same
    OBVIOUS
  <2>2. ASSUME NEW k \in Nat, k \in Same
        PROVE  k + 1 \in Same
    <3> SUFFICES ASSUME k + 1 <= m, k + 1 <= n PROVE g[k + 1] = h[k + 1]
      OBVIOUS
    <3>1. k \in 0 .. m - 1 /\ k \in 0 .. n - 1 /\ g[k] = h[k]
      BY <2>2
    <3> QED BY <3>1
  <2>3. \A k \in Nat : k \in Same
    <3>1. \A k \in Nat : k \in Same => k + 1 \in Same
      BY <2>2
    <3> HIDE DEF Same
    <3> QED BY <2>1, <3>1, NatSetInduction
  <2> QED BY <2>3
<1> DEFINE G(n) == CHOOSE g : g \in Upto(n)
           f == [n \in Nat |-> G(n)[n]]
<1>5. \A n \in Nat : G(n) \in Upto(n)
  BY <1>3
<1>6. f \in [Nat -> S]
  <2> SUFFICES ASSUME NEW n \in Nat PROVE G(n)[n] \in S
    OBVIOUS
  <2>1. G(n) \in Upto(n)
    BY <1>5
  <2> HIDE DEF G
  <2> QED BY <2>1
<1>7. f[0] = a
  <2>1. G(0) \in Upto(0)
    BY <1>5
  <2> HIDE DEF G
  <2> QED BY <2>1
<1>8. ASSUME NEW n \in Nat
      PROVE  f[n + 1] = step[<<n + 1, f[n]>>]
  <2>1. G(n) \in Upto(n) /\ G(n + 1) \in Upto(n + 1)
    <3> HIDE DEF G, Upto
    <3> QED BY <1>5
  <2> HIDE DEF G
  <2>2. G(n + 1)[n + 1] = step[<<n + 1, G(n + 1)[n]>>]
    <3>1. n \in 0 .. (n + 1) - 1
      OBVIOUS
    <3> QED BY <2>1, <3>1
  <2>3. G(n + 1)[n] = G(n)[n]
    <3> HIDE DEF Upto
    <3>1. n + 1 \in Nat /\ n <= n + 1 /\ n <= n
      OBVIOUS
    <3> QED BY <1>4, <2>1, <3>1
  <2> QED BY <2>2, <2>3
<1> HIDE DEF f
<1> QED BY <1>6, <1>7, <1>8 DEF RecursiveBy

(* So may a function on any set whose elements have a size: by a step that *)
(* uses the function's values at smaller elements only.                    *)
SmallerSuffice(D, V, size, step) ==
  \A x \in D : \A g, h \in [D -> V] :
    (\A y \in D : size[y] < size[x] => g[y] = h[y]) => step[<<x, g>>] = step[<<x, h>>]

RecursiveOn(f, D, V, step) == f \in [D -> V] /\ \A x \in D : f[x] = step[<<x, f>>]

LEMMA SizeRecursion ==
  ASSUME NEW D, NEW V, NEW v \in V, NEW size \in [D -> Nat], NEW step \in [D \X [D -> V] -> V],
         SmallerSuffice(D, V, size, step)
  PROVE  \E f : RecursiveOn(f, D, V, step)
<1> DEFINE F == [D -> V]
           once == [ng \in Nat \X F |-> [x \in D |-> step[<<x, ng[2]>>]]]
<1>1. [x \in D |-> v] \in F
  OBVIOUS
<1>2. once \in [Nat \X F -> F]
  OBVIOUS
<1> HIDE DEF F, once
<1>3. PICK s : RecursiveBy(s, F, [x \in D |-> v], once)
  BY <1>1, <1>2, NatRecursion
<1>4. \A n \in Nat : s[n] \in F /\ \A x \in D : s[n + 1][x] = step[<<x, s[n]>>]
  <2> SUFFICES ASSUME NEW n \in Nat
               PROVE  s[n] \in F /\ \A x \in D : s[n + 1][x] = step[<<x, s[n]>>]
    OBVIOUS
  <2>1. s[n] \in F /\ s[n + 1] = once[<<n + 1, s[n]>>] /\ <<n + 1, s[n]>> \in Nat \X F
    BY <1>3 DEF RecursiveBy
  <2>2. s[n + 1] = [x \in D |-> step[<<x, s[n]>>]]
    BY <2>1 DEF once
  <2> QED BY <2>1, <2>2
<1> DEFINE f == [x \in D |-> s[size[x] + 1][x]]
           Done == {n \in Nat : \A k \in 0 .. n : \A x \in D : size[x] < k => s[k][x] = f[x]}
<1>5. f \in F
  <2> SUFFICES ASSUME NEW x \in D PROVE s[size[x] + 1][x] \in V
    BY DEF F
  <2>1. size[x] + 1 \in Nat
    OBVIOUS
  <2>2. s[size[x] + 1] \in F
    BY <1>4, <2>1
  <2> QED BY <2>2 DEF F
<1>6. \A x \in D : f[x] = step[<<x, s[size[x]]>>]
  <2> SUFFICES ASSUME NEW x \in D PROVE f[x] = step[<<x, s[size[x]]>>]
    OBVIOUS
  <2>1. f[x] = s[size[x] + 1][x] /\ size[x] \in Nat
    OBVIOUS
  <2> HIDE DEF f
  <2> QED BY <1>4, <2>1
<1> HIDE DEF f
<1>7. 0 \in Done
  OBVIOUS
<1>8. ASSUME NEW n \in Nat, n \in Done
      PROVE  n + 1 \in Done
  <2> SUFFICES ASSUME NEW x \in D, size[x] < n + 1 PROVE s[n + 1][x] = f[x]
    <3>1. \A k \in 0 .. n + 1 : k = n + 1 \/ k \in 0 .. n
      OBVIOUS
    <3> QED BY <1>8, <3>1
  <2>1. size[x] \in 0 .. n
    OBVIOUS
  <2>2. \A y \in D : size[y] < size[x] => s[n][y] = f[y] /\ s[size[x]][y] = f[y]
    <3> SUFFICES ASSUME NEW y \in D, size[y] < size[x]
                 PROVE  s[n][y] = f[y] /\ s[size[x]][y] = f[y]
      OBVIOUS
    <3>1. size[y] < n
      BY <2>1
    <3>2. n \in 0 .. n
      OBVIOUS
    <3> QED BY <1>8, <2>1, <3>1, <3>2
  <2>3. s[n] \in F /\ s[size[x]] \in F
    BY <1>4, <2>1
  <2>4. step[<<x, s[n]>>] = step[<<x, s[size[x]]>>]
    <3> DEFINE g == s[n]
               h == s[size[x]]
    <3>1. g \in [D -> V] /\ h \in [D -> V]
      BY <2>3 DEF F
    <3>2. \A y \in D : size[y] < size[x] => g[y] = h[y]
      BY <2>2
    <3> HIDE DEF g, h
    <3>3. step[<<x, g>>] = step[<<x, h>>]
      BY <3>1, <3>2 DEF SmallerSuffice
    <3> QED BY <3>3 DEF g, h
  <2> QED BY <1>4, <1>6, <2>4
<1>9. \A n \in Nat : n \in Done
  <2>1. \A n \in Nat : n \in Done => n + 1 \in Done
    BY <1>8
  <2> HIDE DEF Done
  <2> QED BY <1>7, <2>1, NatSetInduction
<1>10. ASSUME NEW x \in D
       PROVE  f[x] = step[<<x, f>>]
  <2>1. \A y \in D : size[y] < size[x] => s[size[x]][y] = f[y]
    <3>1. size[x] \in Done /\ size[x] \in 0 .. size[x]
      BY <1>9
    <3> QED BY <3>1
  <2>2. s[size[x]] \in F
    BY <1>4
  <2>3. step[<<x, s[size[x]]>>] = step[<<x, f>>]
    BY <1>5, <2>1, <2>2 DEF SmallerSuffice, F
  <2> QED BY <1>6, <2>3
<1> QED BY <1>5, <1>10 DEF F, RecursiveOn

(* A bounded set of integers that is not empty has a greatest element, the *)
(* one Max chooses.                                                        *)
LEMMA MaxBounded ==
  ASSUME NEW S, NEW a \in Int, NEW b \in Int, S \subseteq a .. b, S # {}
  PROVE  /\ Max(S) \in S
         /\ \A x \in S : x <= Max(S)
<1> DEFINE T == {b - x : x \in S}
<1>1. PICK y \in T : \A z \in T : y <= z
  <2>1. \A x \in S : b - x \in Nat
    OBVIOUS
  <2>2. T \subseteq Nat /\ T # {}
    BY <2>1
  <2> HIDE DEF T
  <2> QED BY <2>2, LeastNatural
<1>2. PICK x \in S : y = b - x
  BY <1>1
<1>3. \A z \in S : x >= z
  BY <1>1, <1>2
<1> QED BY <1>2, <1>3 DEF Max

LEMMA Distribute ==
  ASSUME NEW a \in Nat, NEW b \in Nat, NEW c \in Nat
  PROVE  (a + b) * c = a * c + b * c /\ a * c \in Nat /\ b * c \in Nat /\ (a + b) * c \in Nat
OBVIOUS

(* Division with remainder.                                                *)
LEMMA DivMod ==
  ASSUME NEW x \in Nat, NEW d \in Nat \ {0}
  PROVE  /\ x \div d \in Nat /\ x % d \in 0 .. d - 1 /\ (x \div d) * d \in Nat
         /\ x = (x \div d) * d + (x % d)
<1> DEFINE k == x \div d
           l == x % d
<1>1. k \in Nat /\ l \in 0 .. d - 1 /\ x = k * d + l
  OBVIOUS
<1> HIDE DEF k, l
<1>2. k * d \in Nat
  BY <1>1
<1> QED BY <1>1, <1>2 DEF k, l

(* The remainder of a sum whose first part is a multiple.                  *)
LEMMA ModOfSum ==
  ASSUME NEW n \in Nat, NEW d \in Nat \ {0}, NEW m \in 0 .. d - 1
  PROVE  (n * d + m) % d = m /\ (n * d + m) \div d = n
<1> DEFINE x == n * d + m
<1>1. n * d \in Nat /\ x \in Nat /\ x = n * d + m
  OBVIOUS
<1> HIDE DEF x
<1> DEFINE k == x \div d
           l == x % d
<1>2. k \in Nat /\ l \in 0 .. d - 1 /\ x = k * d + l
  BY <1>1
<1> HIDE DEF k, l
<1>3. CASE k < n
  <2>1. (k + 1) * d = k * d + 1 * d /\ k * d \in Nat
    BY <1>2, Distribute
  <2>2. k + 1 \in Nat /\ n \in Nat /\ d \in Nat /\ k + 1 <= n
    BY <1>2, <1>3
  <2> DEFINE v == n - (k + 1)
             u == k + 1
  <2>3. u \in Nat /\ v \in Nat /\ u + v = n
    BY <2>2
  <2> HIDE DEF u, v
  <2>4. (u + v) * d = u * d + v * d /\ v * d \in Nat
    BY <2>2, <2>3, Distribute
  <2>5. n * d >= k * d + d
    BY <2>1, <2>3, <2>4, <1>2 DEF u
  <2> QED BY <1>1, <1>2, <2>1, <2>5
<1>4. CASE n < k
  <2>1. (n + 1) * d = n * d + 1 * d /\ n * d \in Nat
    BY Distribute
  <2>2. n + 1 \in Nat /\ k \in Nat /\ d \in Nat /\ n + 1 <= k
    BY <1>2, <1>4
  <2> DEFINE v == k - (n + 1)
             u == n + 1
  <2>3. u \in Nat /\ v \in Nat /\ u + v = k
    BY <2>2
  <2> HIDE DEF u, v
  <2>4. (u + v) * d = u * d + v * d /\ v * d \in Nat
    BY <2>2, <2>3, Distribute
  <2>5. k * d >= n * d + d
    BY <2>1, <2>3, <2>4, <1>2 DEF u
  <2> QED BY <1>1, <1>2, <2>1, <2>5
<1>5. CASE n = k
  BY <1>1, <1>2, <1>5 DEF k, l
<1> QED BY <1>2, <1>3, <1>4, <1>5

(* Positions of a product: the t-th share of size c ends before the u-th.  *)
LEMMA SharesApart ==
  ASSUME NEW t \in Nat, NEW u \in Nat, NEW c \in Nat, t < u
  PROVE  t * c <= (u - 1) * c
<1> DEFINE k == u - 1 - t
<1>1. k \in Nat /\ u - 1 = t + k
  OBVIOUS
<1>2. (t + k) * c = t * c + k * c /\ k * c \in Nat /\ t * c \in Nat
  BY <1>1, Distribute
<1> QED BY <1>1, <1>2

(* The t-th of n equal shares of len positions, the last share the rest:   *)
(* each lies within the len positions.                                     *)
LEMMA SharesWithin ==
  ASSUME NEW n \in Nat \ {0}, NEW len \in Nat, NEW c, c = len \div n, NEW t \in 1 .. n
  PROVE  /\ c \in Nat /\ (t - 1) * c \in Nat /\ t * c \in Nat
         /\ (t - 1) * c <= len /\ t * c <= len
<1>1. c \in Nat /\ n * c <= len
  OBVIOUS
<1>2. (t - 1) * c \in Nat /\ t * c \in Nat /\ (t - 1) * c <= t * c
  BY <1>1
<1>3. t * c <= n * c
  <2> DEFINE k == n - t
  <2>1. k \in Nat /\ n = t + k
    OBVIOUS
  <2>2. (t + k) * c = t * c + k * c /\ k * c \in Nat /\ t * c \in Nat
    <3>1. t \in Nat /\ k \in Nat /\ c \in Nat
      BY <1>1, <2>1
    <3> HIDE DEF k
    <3> QED BY <3>1, Distribute
  <2> QED BY <1>1, <1>2, <2>1, <2>2
<1> QED BY <1>1, <1>2, <1>3

(* Concatenation, by lengths and elements.                                 *)
LEMMA Concatenation ==
  ASSUME NEW S, NEW s \in Seq(S), NEW t \in Seq(S)
  PROVE  /\ s \o t \in Seq(S) /\ Len(s \o t) = Len(s) + Len(t)
         /\ DOMAIN s = 1 .. Len(s) /\ DOMAIN t = 1 .. Len(t)
         /\ DOMAIN (s \o t) = 1 .. Len(s) + Len(t) /\ Len(s) \in Nat /\ Len(t) \in Nat
         /\ \A i \in 1 .. Len(s) : (s \o t)[i] = s[i]
         /\ \A i \in 1 .. Len(t) : (s \o t)[Len(s) + i] = t[i]
OBVIOUS

(* The head of a sequence may move to the end of the one before it.        *)
LEMMA HeadMoves ==
  ASSUME NEW S, NEW s \in Seq(S), NEW t \in Seq(S), t # <<>>
  PROVE  Append(s, Head(t)) \o Tail(t) = s \o t
<1>1. /\ Head(t) \in S /\ Tail(t) \in Seq(S) /\ Append(s, Head(t)) \in Seq(S)
      /\ s \o t \in Seq(S) /\ Append(s, Head(t)) \o Tail(t) \in Seq(S)
  OBVIOUS
<1> DEFINE a == Append(s, Head(t)) \o Tail(t)
           b == s \o t
<1>2. Len(a) = Len(b) /\ \A i \in 1 .. Len(a) : a[i] = b[i]
  OBVIOUS
<1> HIDE DEF a, b
<1>3. a \in Seq(S) /\ b \in Seq(S)
  BY <1>1 DEF a, b
<1>4. a = b
  BY <1>2, <1>3, SeqEqual
<1> QED BY <1>4 DEF a, b
-----------------------------------------------------------------------------
(* A prefix of a sequence and the rest of it, index by index.              *)
LEMMA PrefixAndRest ==
  ASSUME NEW S, NEW s \in Seq(S), NEW n \in 0 .. Len(s)
  PROVE  /\ SubSeq(s, 1, n) \in Seq(S) /\ Len(SubSeq(s, 1, n)) = n
         /\ \A i \in 1 .. n : SubSeq(s, 1, n)[i] = s[i]
         /\ SubSeq(s, n + 1, Len(s)) \in Seq(S) /\ Len(SubSeq(s, n + 1, Len(s))) = Len(s) - n
         /\ \A i \in 1 .. Len(s) - n : SubSeq(s, n + 1, Len(s))[i] = s[n + i]
<1>1. Len(s) \in Nat /\ \A i \in 1 .. Len(s) : s[i] \in S
  OBVIOUS
<1>2. /\ SubSeq(s, 1, n) \in Seq(S)
      /\ Len(SubSeq(s, 1, n)) = IF 1 <= n THEN n - 1 + 1 ELSE 0
      /\ \A i \in 1 .. n - 1 + 1 : SubSeq(s, 1, n)[i] = s[1 + i - 1]
  <2>1. \A i \in 1 .. n : s[i] \in S
    BY <1>1
  <2> QED BY <2>1, SubSeqProperties
<1>3. /\ SubSeq(s, n + 1, Len(s)) \in Seq(S)
      /\ Len(SubSeq(s, n + 1, Len(s))) = IF n + 1 <= Len(s) THEN Len(s) - (n + 1) + 1 ELSE 0
      /\ \A i \in 1 .. Len(s) - (n + 1) + 1 : SubSeq(s, n + 1, Len(s))[i] = s[n + 1 + i - 1]
  <2>1. \A i \in n + 1 .. Len(s) : s[i] \in S
    BY <1>1
  <2>2. n + 1 \in Int /\ Len(s) \in Int
    BY <1>1
  <2> QED BY <2>1, <2>2, SubSeqProperties
<1>4. \A i \in 1 .. n : SubSeq(s, 1, n)[i] = s[i]
  BY <1>2
<1>5. \A i \in 1 .. Len(s) - n : SubSeq(s, n + 1, Len(s))[i] = s[n + i]
  BY <1>1, <1>3
<1> QED BY <1>1, <1>2, <1>3, <1>4, <1>5

(* What a reader takes that reads c elements at a time.                    *)
LEMMA NextChunk ==
  ASSUME NEW S, NEW s \in Seq(S), NEW c \in Nat \ {0}
  PROVE  \E n \in 0 .. Len(s) :
           /\ s # <<>> => n > 0
           /\ SubSeq(s, 1, Min({c, Len(s)})) = SubSeq(s, 1, n)
           /\ SubSeq(s, c + 1, Len(s)) = SubSeq(s, n + 1, Len(s))
<1>1. Len(s) \in Nat /\ (s # <<>> => Len(s) > 0)
  OBVIOUS
<1>2. CASE c <= Len(s)
  <2>1. Min({c, Len(s)}) = c
    BY <1>1, <1>2 DEF Min
  <2>2. c \in 0 .. Len(s) /\ c > 0
    BY <1>1, <1>2
  <2>3. (s # <<>> => c > 0) /\ SubSeq(s, 1, Min({c, Len(s)})) = SubSeq(s, 1, c)
    BY <2>1, <2>2
  <2> QED BY <2>2, <2>3, Zenon
<1>3. CASE c > Len(s)
  <2>1. Min({c, Len(s)}) = Len(s)
    BY <1>1, <1>3 DEF Min
  <2>2. SubSeq(s, c + 1, Len(s)) = <<>> /\ SubSeq(s, Len(s) + 1, Len(s)) = <<>>
    BY <1>1, <1>3, SubSeqEmpty
  <2>3. Len(s) \in 0 .. Len(s)
    BY <1>1
  <2>4. SubSeq(s, 1, Min({c, Len(s)})) = SubSeq(s, 1, Len(s))
    BY <2>1
  <2> QED BY <1>1, <2>2, <2>3, <2>4, Zenon
<1>4. c <= Len(s) \/ c > Len(s)
  BY <1>1
<1> QED BY <1>2, <1>3, <1>4, Zenon

(* A finite sequence of naturals is bounded.                               *)
LEMMA SequenceBounded ==
  ASSUME NEW s \in Seq(Nat)
  PROVE  \E b \in Nat : \A i \in 1 .. Len(s) : s[i] <= b
<1> DEFINE T == {n \in Nat : n <= Len(s) => \E b \in Nat : \A i \in 1 .. n : s[i] <= b}
<1>1. 0 \in T
  OBVIOUS
<1>2. ASSUME NEW n \in Nat, n \in T
      PROVE  n + 1 \in T
  <2> SUFFICES ASSUME n + 1 <= Len(s) PROVE \E b \in Nat : \A i \in 1 .. n + 1 : s[i] <= b
    OBVIOUS
  <2>1. PICK b \in Nat : \A i \in 1 .. n : s[i] <= b
    BY <1>2
  <2>2. s[n + 1] \in Nat
    OBVIOUS
  <2>3. b + s[n + 1] \in Nat /\ \A i \in 1 .. n + 1 : s[i] <= b + s[n + 1]
    BY <2>1, <2>2
  <2> QED BY <2>3
<1> HIDE DEF T
<1>3. Nat \subseteq T
  BY <1>1, <1>2, NatSetInduction
<1>4. Len(s) \in T
  BY <1>3
<1> QED BY <1>4 DEF T

(* A strictly increasing map of 1 .. n to itself is the identity.          *)
LEMMA IncreasingIsIdentity ==
  ASSUME NEW n \in Nat, NEW p \in [1 .. n -> 1 .. n],
         \A i, j \in 1 .. n : i < j => p[i] < p[j]
  PROVE  \A i \in 1 .. n : p[i] = i
<1> DEFINE low == {i \in 1 .. n : p[i] < i}
           high == {d \in 0 .. n - 1 : p[n - d] > n - d}
<1>1. low = {}
  <2> SUFFICES ASSUME low # {} PROVE FALSE
    OBVIOUS
  <2>1. low \subseteq Nat
    OBVIOUS
  <2> HIDE DEF low
  <2>2. PICK i \in low : \A j \in low : i <= j
    BY <2>1, LeastNatural
  <2>3. i \in 1 .. n /\ p[i] < i /\ p[i] \in 1 .. n
    BY DEF low
  <2>4. i - 1 \in 1 .. n /\ p[i - 1] < p[i] /\ p[i - 1] \in 1 .. n
    BY <2>3
  <2>5. i - 1 \notin low
    BY <2>2, <2>3
  <2> QED BY <2>3, <2>4, <2>5 DEF low
<1>2. high = {}
  <2> SUFFICES ASSUME high # {} PROVE FALSE
    OBVIOUS
  <2>1. high \subseteq Nat
    OBVIOUS
  <2> HIDE DEF high
  <2>2. PICK d \in high : \A e \in high : d <= e
    BY <2>1, LeastNatural
  <2>3. d \in 0 .. n - 1 /\ p[n - d] > n - d /\ p[n - d] \in 1 .. n
    BY DEF high
  <2>4. d # 0
    BY <2>3
  <2>5. n - (d - 1) \in 1 .. n /\ p[n - d] < p[n - (d - 1)] /\ p[n - (d - 1)] \in 1 .. n
    <3>1. n - d \in 1 .. n /\ n - (d - 1) \in 1 .. n /\ n - d < n - (d - 1)
      BY <2>3, <2>4
    <3> DEFINE i == n - d
               j == n - (d - 1)
    <3> HIDE DEF i, j
    <3>2. i \in 1 .. n /\ j \in 1 .. n /\ i < j
      BY <3>1 DEF i, j
    <3>3. p[i] < p[j] /\ p[j] \in 1 .. n
      BY <3>2
    <3> QED BY <3>1, <3>3 DEF i, j
  <2>6. d - 1 \notin high
    BY <2>2, <2>3
  <2> QED BY <2>3, <2>4, <2>5, <2>6 DEF high
<1> SUFFICES ASSUME NEW i \in 1 .. n PROVE p[i] = i
  OBVIOUS
<1>3. p[i] \in 1 .. n /\ ~(p[i] < i)
  BY <1>1
<1>4. n - i \in 0 .. n - 1 /\ n - (n - i) = i
  OBVIOUS
<1>5. ~(p[i] > i)
  BY <1>2, <1>4
<1> QED BY <1>3, <1>5

(* A set of positions closed downwards is counted by its last position.    *)
LEMMA InitialSegment ==
  ASSUME NEW n \in Nat, NEW T, T \subseteq 1 .. n,
         \A i, j \in 1 .. n : i <= j /\ j \in T => i \in T
  PROVE  /\ Cardinality(T) \in 0 .. n
         /\ \A i \in 1 .. n : i \in T <=> i <= Cardinality(T)
<1>1. CASE T = {}
  <2>1. Cardinality(T) = 0
    BY <1>1, FS_EmptySet
  <2> QED BY <1>1, <2>1
<1>2. CASE T # {}
  <2> DEFINE c == Max(T)
  <2>1. c \in T /\ \A x \in T : x <= c
    <3>1. 1 \in Int /\ n \in Int
      OBVIOUS
    <3> QED BY <1>2, <3>1, MaxBounded
  <2> HIDE DEF c
  <2>2. c \in 1 .. n
    BY <2>1
  <2>3. T \subseteq 1 .. c /\ 1 .. c \subseteq T
    BY <2>1, <2>2
  <2>4. Cardinality(1 .. c) = c
    BY <2>2, FS_Interval
  <2>5. T = 1 .. c
    BY <2>3
  <2>6. Cardinality(T) = c
    BY <2>4, <2>5
  <2> QED BY <2>2, <2>3, <2>6
<1> QED BY <1>1, <1>2
-----------------------------------------------------------------------------
(* Sums of a function's values, as SumFunctionOnSet folds them.            *)
Summed(F, fun, S) ==
  F = [s \in SUBSET S |-> IF s = {} THEN 0
                          ELSE fun[CHOOSE x \in s : TRUE] + F[s \ {CHOOSE x \in s : TRUE}]]

LEMMA SummedExists ==
  ASSUME NEW S, IsFiniteSet(S), NEW fun, \A x \in S : fun[x] \in Nat
  PROVE  \E F \in [SUBSET S -> Nat] : Summed(F, fun, S)
<1> DEFINE D == SUBSET S
           first(s) == CHOOSE x \in s : TRUE
           size == [s \in D |-> Cardinality(s)]
           value(s, g) == IF s = {} THEN 0 ELSE fun[first(s)] + g[s \ {first(s)}]
           step == [sg \in D \X [D -> Nat] |-> value(sg[1], sg[2])]
<1>1. \A s \in D : IsFiniteSet(s) /\ Cardinality(s) \in Nat
  BY FS_Subset, FS_CardinalityType
<1>2. \A s \in D : s # {} => /\ first(s) \in s /\ first(s) \in S /\ s \ {first(s)} \in D
                             /\ Cardinality(s \ {first(s)}) < Cardinality(s)
  <2> SUFFICES ASSUME NEW s \in D, s # {}
               PROVE  /\ first(s) \in s /\ first(s) \in S /\ s \ {first(s)} \in D
                      /\ Cardinality(s \ {first(s)}) < Cardinality(s)
    OBVIOUS
  <2>1. first(s) \in s
    OBVIOUS
  <2> HIDE DEF first
  <2>2. Cardinality(s \ {first(s)}) = Cardinality(s) - 1
    BY <1>1, <2>1, FS_RemoveElement
  <2>3. Cardinality(s) \in Nat
    BY <1>1
  <2> QED BY <2>1, <2>2, <2>3
<1>3. size \in [D -> Nat]
  BY <1>1
<1>4. \A s \in D : \A g \in [D -> Nat] : value(s, g) \in Nat
  <2> SUFFICES ASSUME NEW s \in D, NEW g \in [D -> Nat], s # {}
               PROVE  fun[first(s)] + g[s \ {first(s)}] \in Nat
    OBVIOUS
  <2> HIDE DEF first, D
  <2>1. fun[first(s)] \in Nat /\ g[s \ {first(s)}] \in Nat
    BY <1>2
  <2> QED BY <2>1
<1>5. /\ step \in [D \X [D -> Nat] -> Nat]
      /\ \A s \in D : \A g \in [D -> Nat] : step[<<s, g>>] = value(s, g)
  <2> HIDE DEF D, value
  <2> QED BY <1>4
<1>6. \A s \in D : size[s] = Cardinality(s)
  OBVIOUS
<1> HIDE DEF D, size, step, first
<1>7. SmallerSuffice(D, Nat, size, step)
  <2> SUFFICES ASSUME NEW s \in D, NEW g \in [D -> Nat], NEW h \in [D -> Nat],
                      \A y \in D : size[y] < size[s] => g[y] = h[y]
               PROVE  step[<<s, g>>] = step[<<s, h>>]
    BY DEF SmallerSuffice
  <2>1. CASE s = {}
    BY <1>5, <2>1
  <2>2. CASE s # {}
    <3>1. g[s \ {first(s)}] = h[s \ {first(s)}]
      BY <1>2, <1>6, <2>2
    <3> QED BY <1>5, <2>2, <3>1
  <2> QED BY <2>1, <2>2
<1>8. PICK F \in [D -> Nat] : \A s \in D : F[s] = step[<<s, F>>]
  <2> DEFINE V == Nat
  <2>1. 0 \in V
    OBVIOUS
  <2>2. size \in [D -> Nat] /\ step \in [D \X [D -> V] -> V] /\ SmallerSuffice(D, V, size, step)
    BY <1>3, <1>5, <1>7
  <2> HIDE DEF V
  <2>3. \E F : RecursiveOn(F, D, V, step)
    BY <2>1, <2>2, SizeRecursion
  <2> QED BY <2>3 DEF V, RecursiveOn
<1>9. F = [s \in D |-> IF s = {} THEN 0 ELSE fun[first(s)] + F[s \ {first(s)}]]
  <2>1. \A s \in D : F[s] = IF s = {} THEN 0 ELSE fun[first(s)] + F[s \ {first(s)}]
    BY <1>5, <1>8
  <2>2. F = [s \in D |-> F[s]]
    BY <1>8
  <2> QED BY <2>1, <2>2
<1>10. Summed(F, fun, S)
  BY <1>9 DEF Summed, D, first
<1> QED BY <1>8, <1>10 DEF D
LEMMA SummedOnce ==
  ASSUME NEW A, IsFiniteSet(A), NEW B, IsFiniteSet(B), NEW fun, NEW F, NEW G,
         Summed(F, fun, A), Summed(G, fun, B)
  PROVE  \A s : s \subseteq A /\ s \subseteq B => F[s] = G[s]
<1> DEFINE first(s) == CHOOSE x \in s : TRUE
           Done == {n \in Nat : \A s \in SUBSET (A \cap B) : Cardinality(s) = n => F[s] = G[s]}
<1>1. \A s \in SUBSET (A \cap B) : IsFiniteSet(s) /\ Cardinality(s) \in Nat
  BY FS_Subset, FS_CardinalityType
<1>2. \A s \in SUBSET (A \cap B) :
        /\ F[s] = IF s = {} THEN 0 ELSE fun[first(s)] + F[s \ {first(s)}]
        /\ G[s] = IF s = {} THEN 0 ELSE fun[first(s)] + G[s \ {first(s)}]
  <2> SUFFICES ASSUME NEW s \in SUBSET (A \cap B)
               PROVE  /\ F[s] = IF s = {} THEN 0 ELSE fun[first(s)] + F[s \ {first(s)}]
                      /\ G[s] = IF s = {} THEN 0 ELSE fun[first(s)] + G[s \ {first(s)}]
    OBVIOUS
  <2>1. s \in SUBSET A /\ s \in SUBSET B
    OBVIOUS
  <2>2. /\ F = [t \in SUBSET A |-> IF t = {} THEN 0 ELSE fun[first(t)] + F[t \ {first(t)}]]
        /\ G = [t \in SUBSET B |-> IF t = {} THEN 0 ELSE fun[first(t)] + G[t \ {first(t)}]]
    BY DEF Summed
  <2> HIDE DEF first
  <2> QED BY <2>1, <2>2, Zenon
<1>3. \A s \in SUBSET (A \cap B) : s # {} => first(s) \in s
  OBVIOUS
<1> HIDE DEF first
<1>4. 0 \in Done
  <2> SUFFICES ASSUME NEW s \in SUBSET (A \cap B), Cardinality(s) = 0 PROVE F[s] = G[s]
    OBVIOUS
  <2>1. s = {}
    BY <1>1, FS_EmptySet
  <2> QED BY <1>2, <2>1
<1>5. ASSUME NEW n \in Nat, n \in Done
      PROVE  n + 1 \in Done
  <2> SUFFICES ASSUME NEW s \in SUBSET (A \cap B), Cardinality(s) = n + 1 PROVE F[s] = G[s]
    OBVIOUS
  <2> DEFINE rest == s \ {first(s)}
  <2>1. s # {}
    BY FS_EmptySet
  <2>2. first(s) \in s
    BY <1>3, <2>1
  <2>3. rest \in SUBSET (A \cap B) /\ Cardinality(rest) = (n + 1) - 1
    BY <1>1, <2>2, FS_RemoveElement
  <2>4. (n + 1) - 1 = n
    OBVIOUS
  <2>5. F[rest] = G[rest]
    BY <1>5, <2>3, <2>4
  <2> QED BY <1>2, <2>1, <2>5
<1>6. \A n \in Nat : n \in Done
  <2>1. \A n \in Nat : n \in Done => n + 1 \in Done
    BY <1>5
  <2> HIDE DEF Done
  <2> QED BY <1>4, <2>1, NatSetInduction
<1> QED BY <1>1, <1>6

LEMMA SumIsSummed ==
  ASSUME NEW S, NEW fun
  PROVE  SumFunctionOnSet(fun, S) = (CHOOSE F : Summed(F, fun, S))[S]
BY DEF SumFunctionOnSet, FoldFunctionOnSet, MapThenFoldSet, Summed

(* On a finite set any element may be the first to be added.               *)
LEMMA SumOf ==
  ASSUME NEW S, IsFiniteSet(S), NEW fun, \A x \in S : fun[x] \in Nat
  PROVE  /\ SumFunctionOnSet(fun, S) \in Nat
         /\ SumFunctionOnSet(fun, {}) = 0
         /\ \A x \in S : /\ SumFunctionOnSet(fun, S \ {x}) \in Nat
                         /\ SumFunctionOnSet(fun, S) = fun[x] + SumFunctionOnSet(fun, S \ {x})
<1> DEFINE first(s) == CHOOSE x \in s : TRUE
<1>1. PICK F \in [SUBSET S -> Nat] : Summed(F, fun, S)
  BY SummedExists
<1>2. \A s \in SUBSET S : IsFiniteSet(s) /\ Cardinality(s) \in Nat
  BY FS_Subset, FS_CardinalityType
<1>3. ASSUME NEW s \in SUBSET S
      PROVE  SumFunctionOnSet(fun, s) = F[s]
  <2>1. \E G : Summed(G, fun, s)
    BY <1>2, SummedExists
  <2>2. Summed(CHOOSE G : Summed(G, fun, s), fun, s)
    BY <2>1
  <2> DEFINE G == CHOOSE G : Summed(G, fun, s)
  <2>3. SumFunctionOnSet(fun, s) = G[s]
    BY SumIsSummed
  <2>4. Summed(G, fun, s)
    BY <2>2
  <2> HIDE DEF G
  <2> QED BY <1>1, <1>2, <2>3, <2>4, SummedOnce
<1>4. \A s \in SUBSET S : F[s] = IF s = {} THEN 0 ELSE fun[first(s)] + F[s \ {first(s)}]
  <2>1. F = [s \in SUBSET S |-> IF s = {} THEN 0 ELSE fun[first(s)] + F[s \ {first(s)}]]
    BY <1>1 DEF Summed
  <2> HIDE DEF first
  <2> QED BY <2>1, Zenon
<1>5. \A s \in SUBSET S : s # {} => first(s) \in s
  OBVIOUS
<1> HIDE DEF first
<1> DEFINE Done == {n \in Nat : \A s \in SUBSET S : Cardinality(s) = n =>
                      \A x \in s : F[s] = fun[x] + F[s \ {x}]}
<1>6. 0 \in Done
  <2> SUFFICES ASSUME NEW s \in SUBSET S, Cardinality(s) = 0 PROVE s = {}
    OBVIOUS
  <2> QED BY <1>2, FS_EmptySet
<1>7. ASSUME NEW n \in Nat, n \in Done
      PROVE  n + 1 \in Done
  <2> SUFFICES ASSUME NEW s \in SUBSET S, Cardinality(s) = n + 1, NEW x \in s
               PROVE  F[s] = fun[x] + F[s \ {x}]
    OBVIOUS
  <2> DEFINE c == first(s)
  <2>1. c \in s /\ F[s] = fun[c] + F[s \ {c}]
    BY <1>4, <1>5
  <2> HIDE DEF c
  <2>2. CASE x = c
    BY <2>1, <2>2
  <2>3. CASE x # c
    <3> DEFINE both == (s \ {c}) \ {x}
    <3>1. /\ Cardinality(s \ {c}) = (n + 1) - 1 /\ Cardinality(s \ {x}) = (n + 1) - 1 /\ (n + 1) - 1 = n
      <4>1. IsFiniteSet(s)
        BY <1>2
      <4>2. /\ Cardinality(s \ {c}) = Cardinality(s) - 1
            /\ Cardinality(s \ {x}) = Cardinality(s) - 1
        BY <2>1, <4>1, FS_RemoveElement
      <4> QED BY <4>2
    <3>2. F[s \ {c}] = fun[x] + F[both]
      BY <1>7, <2>3, <3>1
    <3>3. F[s \ {x}] = fun[c] + F[both]
      <4>1. both = (s \ {x}) \ {c} /\ c \in s \ {x}
        BY <2>1, <2>3
      <4>2. F[s \ {x}] = fun[c] + F[(s \ {x}) \ {c}]
        BY <1>7, <3>1, <4>1
      <4> QED BY <4>1, <4>2
    <3>4. F[both] \in Nat /\ fun[x] \in Nat /\ fun[c] \in Nat
      BY <1>1, <2>1
    <3> HIDE DEF both
    <3> QED BY <2>1, <3>2, <3>3, <3>4
  <2> QED BY <2>2, <2>3
<1>8. \A n \in Nat : n \in Done
  <2>1. \A n \in Nat : n \in Done => n + 1 \in Done
    BY <1>7
  <2> HIDE DEF Done
  <2> QED BY <1>6, <2>1, NatSetInduction
<1>9. \A x \in S : F[S] = fun[x] + F[S \ {x}]
  BY <1>2, <1>8
<1>10. F[{}] = 0 /\ F[S] \in Nat /\ \A x \in S : F[S \ {x}] \in Nat
  BY <1>1, <1>4
<1> QED BY <1>3, <1>9, <1>10
(* More elements and larger values make no smaller sum.                    *)
LEMMA SumGrows ==
  ASSUME NEW T, IsFiniteSet(T), NEW S, S \subseteq T, NEW f, NEW g,
         \A x \in T : g[x] \in Nat, \A x \in S : f[x] \in Nat /\ f[x] <= g[x]
  PROVE  SumFunctionOnSet(f, S) <= SumFunctionOnSet(g, T)
<1> DEFINE Done == {n \in Nat : \A t \in SUBSET T : Cardinality(t) = n =>
                      SumFunctionOnSet(f, t \cap S) <= SumFunctionOnSet(g, t)}
<1>1. \A t \in SUBSET T : IsFiniteSet(t) /\ Cardinality(t) \in Nat
  BY FS_Subset, FS_CardinalityType
<1>2. 0 \in Done
  <2> SUFFICES ASSUME NEW t \in SUBSET T, Cardinality(t) = 0
               PROVE  SumFunctionOnSet(f, t \cap S) <= SumFunctionOnSet(g, t)
    OBVIOUS
  <2>1. t = {} /\ t \cap S = {}
    BY <1>1, FS_EmptySet
  <2>2. IsFiniteSet({})
    BY FS_EmptySet
  <2>3. SumFunctionOnSet(f, {}) = 0 /\ SumFunctionOnSet(g, {}) = 0
    BY <2>2, SumOf
  <2> QED BY <2>1, <2>3
<1>3. ASSUME NEW n \in Nat, n \in Done
      PROVE  n + 1 \in Done
  <2> SUFFICES ASSUME NEW t \in SUBSET T, Cardinality(t) = n + 1
               PROVE  SumFunctionOnSet(f, t \cap S) <= SumFunctionOnSet(g, t)
    OBVIOUS
  <2>1. PICK x \in t : TRUE
    BY FS_EmptySet
  <2> DEFINE u == t \ {x}
  <2>2. IsFiniteSet(t) /\ IsFiniteSet(t \cap S) /\ u \in SUBSET T
    BY <1>1
  <2>3. Cardinality(u) = n
    <3>1. Cardinality(u) = Cardinality(t) - 1
      BY <2>1, <2>2, FS_RemoveElement
    <3> QED BY <3>1
  <2>4. SumFunctionOnSet(f, u \cap S) <= SumFunctionOnSet(g, u)
    BY <1>3, <2>2, <2>3
  <2>5. /\ SumFunctionOnSet(g, t) = g[x] + SumFunctionOnSet(g, u)
        /\ SumFunctionOnSet(g, u) \in Nat
    BY <2>1, <2>2, SumOf
  <2>6. g[x] \in Nat
    BY <2>1
  <2>7. CASE x \in S
    <3>1. (t \cap S) \ {x} = u \cap S /\ x \in t \cap S
      BY <2>1, <2>7
    <3>2. \A y \in t \cap S : f[y] \in Nat
      OBVIOUS
    <3>3. /\ SumFunctionOnSet(f, t \cap S) = f[x] + SumFunctionOnSet(f, (t \cap S) \ {x})
          /\ SumFunctionOnSet(f, (t \cap S) \ {x}) \in Nat
      BY <2>2, <3>1, <3>2, SumOf
    <3>4. f[x] \in Nat /\ f[x] <= g[x]
      BY <2>7
    <3> DEFINE a == SumFunctionOnSet(f, t \cap S)
               b == SumFunctionOnSet(f, u \cap S)
               c == SumFunctionOnSet(g, t)
               d == SumFunctionOnSet(g, u)
    <3>5. a = f[x] + b /\ b \in Nat
      BY <3>1, <3>3
    <3>6. c = g[x] + d /\ d \in Nat /\ b <= d
      BY <2>4, <2>5
    <3>7. a <= c
      <4> HIDE DEF a, b, c, d
      <4> QED BY <2>6, <3>4, <3>5, <3>6
    <3> QED BY <3>7
  <2>8. CASE x \notin S
    <3>1. t \cap S = u \cap S
      BY <2>8
    <3>2. \A y \in t \cap S : f[y] \in Nat
      OBVIOUS
    <3>3. SumFunctionOnSet(f, t \cap S) \in Nat
      BY <2>2, <3>2, SumOf
    <3> HIDE DEF u
    <3> QED BY <2>4, <2>5, <2>6, <3>1, <3>3
  <2> QED BY <2>7, <2>8
<1>4. \A n \in Nat : n \in Done
  <2>1. \A n \in Nat : n \in Done => n + 1 \in Done
    BY <1>3
  <2> HIDE DEF Done
  <2> QED BY <1>2, <2>1, NatSetInduction
<1>5. SumFunctionOnSet(f, T \cap S) <= SumFunctionOnSet(g, T)
  BY <1>1, <1>4
<1>6. T \cap S = S
  OBVIOUS
<1> QED BY <1>5, <1>6

LEMMA SumSame ==
  ASSUME NEW S, IsFiniteSet(S), NEW f, NEW g, \A x \in S : f[x] \in Nat /\ g[x] = f[x]
  PROVE  SumFunctionOnSet(f, S) = SumFunctionOnSet(g, S)
<1>1. SumFunctionOnSet(f, S) <= SumFunctionOnSet(g, S)
  BY SumGrows
<1>2. SumFunctionOnSet(g, S) <= SumFunctionOnSet(f, S)
  BY SumGrows
<1>3. SumFunctionOnSet(f, S) \in Nat
  BY SumOf
<1>4. SumFunctionOnSet(g, S) \in Nat
  BY SumOf
<1> QED BY <1>1, <1>2, <1>3, <1>4

(* The sum of a set is that of a part and that of the rest.                *)
LEMMA SumSplits ==
  ASSUME NEW T, IsFiniteSet(T), NEW f, \A x \in T : f[x] \in Nat
  PROVE  \A S \in SUBSET T :
           SumFunctionOnSet(f, T) = SumFunctionOnSet(f, S) + SumFunctionOnSet(f, T \ S)
<1> DEFINE Done == {n \in Nat : \A S \in SUBSET T : Cardinality(S) = n =>
                      SumFunctionOnSet(f, T) = SumFunctionOnSet(f, S) + SumFunctionOnSet(f, T \ S)}
<1>1. \A S \in SUBSET T : /\ IsFiniteSet(S) /\ Cardinality(S) \in Nat /\ IsFiniteSet(T \ S)
                          /\ SumFunctionOnSet(f, S) \in Nat /\ SumFunctionOnSet(f, T \ S) \in Nat
  <2> SUFFICES ASSUME NEW S \in SUBSET T
               PROVE  /\ IsFiniteSet(S) /\ Cardinality(S) \in Nat /\ IsFiniteSet(T \ S)
                      /\ SumFunctionOnSet(f, S) \in Nat /\ SumFunctionOnSet(f, T \ S) \in Nat
    OBVIOUS
  <2>1. IsFiniteSet(S) /\ Cardinality(S) \in Nat /\ IsFiniteSet(T \ S)
    BY FS_Subset, FS_CardinalityType
  <2>2. SumFunctionOnSet(f, S) \in Nat
    BY <2>1, SumOf
  <2>3. SumFunctionOnSet(f, T \ S) \in Nat
    BY <2>1, SumOf
  <2> QED BY <2>1, <2>2, <2>3
<1>2. 0 \in Done
  <2> SUFFICES ASSUME NEW S \in SUBSET T, Cardinality(S) = 0
               PROVE  SumFunctionOnSet(f, T) = SumFunctionOnSet(f, S) + SumFunctionOnSet(f, T \ S)
    OBVIOUS
  <2>1. S = {} /\ T \ S = T
    BY <1>1, FS_EmptySet
  <2>2. SumFunctionOnSet(f, {}) = 0 /\ SumFunctionOnSet(f, T) \in Nat
    BY SumOf
  <2> QED BY <2>1, <2>2
<1>3. ASSUME NEW n \in Nat, n \in Done
      PROVE  n + 1 \in Done
  <2> SUFFICES ASSUME NEW S \in SUBSET T, Cardinality(S) = n + 1
               PROVE  SumFunctionOnSet(f, T) = SumFunctionOnSet(f, S) + SumFunctionOnSet(f, T \ S)
    OBVIOUS
  <2>1. PICK x \in S : TRUE
    BY FS_EmptySet
  <2> DEFINE R == S \ {x}
  <2>2. R \in SUBSET T /\ IsFiniteSet(S)
    BY <1>1
  <2>3. Cardinality(R) = n
    <3>1. Cardinality(R) = Cardinality(S) - 1
      BY <2>1, <2>2, FS_RemoveElement
    <3> QED BY <3>1
  <2>4. SumFunctionOnSet(f, T) = SumFunctionOnSet(f, R) + SumFunctionOnSet(f, T \ R)
    BY <1>3, <2>2, <2>3
  <2>5. SumFunctionOnSet(f, S) = f[x] + SumFunctionOnSet(f, R)
    BY <2>1, <2>2, SumOf
  <2>6. SumFunctionOnSet(f, T \ R) = f[x] + SumFunctionOnSet(f, (T \ R) \ {x})
    <3>1. x \in T \ R /\ IsFiniteSet(T \ R)
      BY <1>1, <2>1, <2>2
    <3> HIDE DEF R
    <3> QED BY <3>1, SumOf
  <2>7. (T \ R) \ {x} = T \ S
    BY <2>1
  <2>8. /\ f[x] \in Nat /\ SumFunctionOnSet(f, R) \in Nat /\ SumFunctionOnSet(f, T \ S) \in Nat
    BY <1>1, <2>1, <2>2
  <2> DEFINE a == SumFunctionOnSet(f, T)
             b == SumFunctionOnSet(f, S)
             c == SumFunctionOnSet(f, R)
             d == SumFunctionOnSet(f, T \ R)
             e == SumFunctionOnSet(f, T \ S)
  <2>9. a = c + d /\ b = f[x] + c /\ d = f[x] + e /\ f[x] \in Nat /\ c \in Nat /\ e \in Nat
    BY <2>4, <2>5, <2>6, <2>7, <2>8
  <2>10. a = b + e
    <3> HIDE DEF a, b, c, d, e
    <3> QED BY <2>9
  <2> QED BY <2>10
<1>4. \A n \in Nat : n \in Done
  <2>1. \A n \in Nat : n \in Done => n + 1 \in Done
    BY <1>3
  <2> HIDE DEF Done
  <2> QED BY <1>2, <2>1, NatSetInduction
<1> QED BY <1>1, <1>4
(* Values below a bound have a sum below that many times the bound.        *)
LEMMA SumBounded ==
  ASSUME NEW T, IsFiniteSet(T), NEW f, NEW c \in Nat, \A x \in T : f[x] \in Nat /\ f[x] <= c
  PROVE  SumFunctionOnSet(f, T) <= Cardinality(T) * c
<1> DEFINE Done == {n \in Nat : \A S \in SUBSET T : Cardinality(S) = n =>
                      SumFunctionOnSet(f, S) <= n * c}
<1>1. \A S \in SUBSET T : IsFiniteSet(S) /\ Cardinality(S) \in Nat
  BY FS_Subset, FS_CardinalityType
<1>2. 0 \in Done
  <2> SUFFICES ASSUME NEW S \in SUBSET T, Cardinality(S) = 0
               PROVE  SumFunctionOnSet(f, S) <= 0 * c
    OBVIOUS
  <2>1. S = {} /\ IsFiniteSet(S)
    BY <1>1, FS_EmptySet
  <2>2. SumFunctionOnSet(f, S) = 0
    BY <2>1, SumOf
  <2> QED BY <2>2
<1>3. ASSUME NEW n \in Nat, n \in Done
      PROVE  n + 1 \in Done
  <2> SUFFICES ASSUME NEW S \in SUBSET T, Cardinality(S) = n + 1
               PROVE  SumFunctionOnSet(f, S) <= (n + 1) * c
    OBVIOUS
  <2>1. PICK x \in S : TRUE
    BY FS_EmptySet
  <2> DEFINE R == S \ {x}
  <2>2. R \in SUBSET T /\ IsFiniteSet(S)
    BY <1>1
  <2>3. Cardinality(R) = n
    <3>1. Cardinality(R) = Cardinality(S) - 1
      BY <2>1, <2>2, FS_RemoveElement
    <3> QED BY <3>1
  <2>4. SumFunctionOnSet(f, R) <= n * c
    BY <1>3, <2>2, <2>3
  <2>5. SumFunctionOnSet(f, S) = f[x] + SumFunctionOnSet(f, R) /\ SumFunctionOnSet(f, R) \in Nat
    BY <2>1, <2>2, SumOf
  <2>6. f[x] \in Nat /\ f[x] <= c
    BY <2>1
  <2> DEFINE a == SumFunctionOnSet(f, S)
             b == SumFunctionOnSet(f, R)
             d == n * c
  <2>7. (n + 1) * c = d + c /\ d \in Nat
    BY Distribute
  <2>8. a = f[x] + b /\ b \in Nat /\ b <= d
    BY <2>4, <2>5
  <2>9. a <= d + c
    <3> HIDE DEF a, b, d
    <3> QED BY <2>6, <2>7, <2>8
  <2> QED BY <2>7, <2>9
<1>4. \A n \in Nat : n \in Done
  <2>1. \A n \in Nat : n \in Done => n + 1 \in Done
    BY <1>3
  <2> HIDE DEF Done
  <2> QED BY <1>2, <2>1, NatSetInduction
<1> QED BY <1>1, <1>4

(* Counting a set class by class.                                          *)
CountedBy(count, S, C, column) ==
  /\ \A k \in S : column[k] \in C
  /\ \A c \in C : count[c] = Cardinality({k \in S : column[k] = c})

LEMMA CountByClass ==
  ASSUME NEW S, IsFiniteSet(S), NEW C, IsFiniteSet(C), NEW column, NEW count,
         CountedBy(count, S, C, column)
  PROVE  Cardinality(S) = SumFunctionOnSet(count, C)
<1>0. /\ \A k \in S : column[k] \in C
      /\ \A c \in C : count[c] = Cardinality({k \in S : column[k] = c})
  BY DEF CountedBy
<1> DEFINE Of(D) == {k \in S : column[k] \in D}
           Done == {n \in Nat : \A D \in SUBSET C : Cardinality(D) = n =>
                      Cardinality(Of(D)) = SumFunctionOnSet(count, D)}
<1>1. \A D \in SUBSET C : /\ IsFiniteSet(D) /\ Cardinality(D) \in Nat
                          /\ IsFiniteSet(Of(D)) /\ Cardinality(Of(D)) \in Nat
  BY FS_Subset, FS_CardinalityType
<1>2. \A c \in C : /\ IsFiniteSet({k \in S : column[k] = c}) /\ count[c] \in Nat
                   /\ count[c] = Cardinality({k \in S : column[k] = c})
  <2> SUFFICES ASSUME NEW c \in C
               PROVE  IsFiniteSet({k \in S : column[k] = c}) /\ count[c] \in Nat
    BY <1>0
  <2>1. IsFiniteSet({k \in S : column[k] = c})
    BY FS_Subset
  <2> QED BY <1>0, <2>1, FS_CardinalityType
<1>3. 0 \in Done
  <2> SUFFICES ASSUME NEW D \in SUBSET C, Cardinality(D) = 0
               PROVE  Cardinality(Of(D)) = SumFunctionOnSet(count, D)
    OBVIOUS
  <2>1. D = {}
    BY <1>1, FS_EmptySet
  <2>2. Cardinality(Of(D)) = 0
    BY <2>1, FS_EmptySet
  <2>3. SumFunctionOnSet(count, {}) = 0
    BY <1>2, SumOf
  <2> QED BY <2>1, <2>2, <2>3
<1>4. ASSUME NEW n \in Nat, n \in Done
      PROVE  n + 1 \in Done
  <2> SUFFICES ASSUME NEW D \in SUBSET C, Cardinality(D) = n + 1
               PROVE  Cardinality(Of(D)) = SumFunctionOnSet(count, D)
    OBVIOUS
  <2>1. PICK x \in D : TRUE
    BY FS_EmptySet
  <2> DEFINE R == D \ {x}
             X == {k \in S : column[k] = x}
  <2>2. R \in SUBSET C /\ IsFiniteSet(D) /\ x \in C
    BY <1>1, <2>1
  <2>3. Cardinality(R) = n
    <3>1. Cardinality(R) = Cardinality(D) - 1
      BY <2>1, <2>2, FS_RemoveElement
    <3> QED BY <3>1
  <2>4. Cardinality(Of(R)) = SumFunctionOnSet(count, R)
    BY <1>4, <2>2, <2>3
  <2>5. SumFunctionOnSet(count, D) = count[x] + SumFunctionOnSet(count, R)
    BY <1>2, <2>1, <2>2, SumOf
  <2>6. Of(D) = Of(R) \cup X /\ Of(R) \cap X = {}
    BY <2>1
  <2>7. /\ IsFiniteSet(Of(R)) /\ IsFiniteSet(X) /\ Cardinality(X) = count[x]
        /\ Cardinality(Of(R)) \in Nat /\ count[x] \in Nat
    BY <1>1, <1>2, <2>2
  <2> HIDE DEF Of, X, R
  <2>8. Cardinality(Of(R) \cup X) = Cardinality(Of(R)) + Cardinality(X) - Cardinality({})
    BY <2>6, <2>7, FS_Union
  <2>9. Cardinality({}) = 0
    BY FS_EmptySet
  <2> QED BY <2>4, <2>5, <2>6, <2>7, <2>8, <2>9
<1>5. \A n \in Nat : n \in Done
  <2>1. \A n \in Nat : n \in Done => n + 1 \in Done
    BY <1>4
  <2> HIDE DEF Done
  <2> QED BY <1>3, <2>1, NatSetInduction
<1>6. Cardinality(Of(C)) = SumFunctionOnSet(count, C)
  BY <1>1, <1>5
<1>7. Of(C) = S
  BY <1>0
<1> QED BY <1>6, <1>7
-----------------------------------------------------------------------------
(* FlattenSeq joins the sequences from left to right.                      *)
Joins(f, s) ==
  f = [i \in 1 .. Len(s) |-> IF i = 1 THEN s[i] ELSE f[i - 1] \o s[i]]

LEMMA JoinsTyped ==
  ASSUME NEW S, NEW s \in Seq(Seq(S)), NEW f, Joins(f, s)
  PROVE  \A i \in 1 .. Len(s) : f[i] \in Seq(S)
<1> DEFINE T == {n \in Nat : n \in 1 .. Len(s) => f[n] \in Seq(S)}
<1>0. Len(s) \in Nat /\ \A i \in 1 .. Len(s) : s[i] \in Seq(S)
  OBVIOUS
<1>1. 0 \in T
  BY <1>0
<1>2. ASSUME NEW n \in Nat, n \in T
      PROVE  n + 1 \in T
  <2> SUFFICES ASSUME n + 1 \in 1 .. Len(s) PROVE f[n + 1] \in Seq(S)
    OBVIOUS
  <2>1. f[n + 1] = IF n + 1 = 1 THEN s[n + 1] ELSE f[(n + 1) - 1] \o s[n + 1]
    BY DEF Joins
  <2>2. s[n + 1] \in Seq(S) /\ (n + 1) - 1 = n
    BY <1>0
  <2>3. CASE n = 0
    BY <2>1, <2>2, <2>3
  <2>4. CASE n # 0
    <3>1. f[n] \in Seq(S) /\ n + 1 # 1
      BY <1>0, <1>2, <2>4
    <3> QED BY <2>1, <2>2, <3>1
  <2> QED BY <2>3, <2>4
<1>3. \A n \in Nat : n \in T
  <2>1. \A n \in Nat : n \in T => n + 1 \in T
    BY <1>2
  <2> HIDE DEF T
  <2> QED BY <1>1, <2>1, NatSetInduction
<1> QED BY <1>0, <1>3

LEMMA JoinsExists ==
  ASSUME NEW S, NEW s \in Seq(Seq(S)), Len(s) # 0
  PROVE  \E f : Joins(f, s) /\ FlattenSeq(s) = f[Len(s)]
<1> DEFINE step == [q \in Nat \X Seq(S) |->
                      IF q[1] \in 1 .. Len(s) THEN q[2] \o s[q[1]] ELSE q[2]]
<1>0. Len(s) \in Nat /\ \A i \in 1 .. Len(s) : s[i] \in Seq(S)
  OBVIOUS
<1>1. <<>> \in Seq(S)
  OBVIOUS
<1>2. step \in [Nat \X Seq(S) -> Seq(S)]
  <2> SUFFICES ASSUME NEW n \in Nat, NEW t \in Seq(S)
               PROVE  (IF n \in 1 .. Len(s) THEN t \o s[n] ELSE t) \in Seq(S)
    OBVIOUS
  <2> QED BY <1>0
<1>3. PICK g \in [Nat -> Seq(S)] :
        g[0] = <<>> /\ \A n \in Nat : g[n + 1] = step[<<n + 1, g[n]>>]
  <2> DEFINE e == <<>>
  <2>1. e \in Seq(S) /\ step \in [Nat \X Seq(S) -> Seq(S)]
    BY <1>1, <1>2
  <2> HIDE DEF e, step
  <2>2. PICK g : RecursiveBy(g, Seq(S), e, step)
    BY <2>1, NatRecursion
  <2> QED BY <2>2 DEF e, RecursiveBy
<1> DEFINE h == [i \in 1 .. Len(s) |-> g[i]]
<1>4. Joins(h, s)
  <2> SUFFICES ASSUME NEW i \in 1 .. Len(s)
               PROVE  g[i] = IF i = 1 THEN s[i] ELSE h[i - 1] \o s[i]
    BY DEF Joins
  <2>1. i - 1 \in Nat /\ (i - 1) + 1 = i /\ i \in Nat
    BY <1>0
  <2>2. g[i - 1] \in Seq(S)
    BY <2>1
  <2>3. g[i] = step[<<i, g[i - 1]>>]
    <3> HIDE DEF step
    <3> QED BY <1>3, <2>1
  <2>4. g[i] = g[i - 1] \o s[i]
    BY <2>1, <2>2, <2>3
  <2>5. CASE i = 1
    <3> HIDE DEF step
    <3>1. s[i] \in Seq(S) /\ i - 1 = 0
      BY <1>0, <2>5
    <3>2. <<>> \o s[i] = s[i]
      BY <3>1
    <3> QED BY <1>3, <2>4, <2>5, <3>1, <3>2
  <2>6. CASE i # 1
    <3>1. i - 1 \in 1 .. Len(s)
      BY <1>0, <2>6
    <3> QED BY <2>4, <2>6, <3>1
  <2> QED BY <2>5, <2>6
<1> DEFINE c == CHOOSE f : Joins(f, s)
<1>5. Joins(c, s)
  <2> HIDE DEF h
  <2> QED BY <1>4
<1>6. FlattenSeq(s) = c[Len(s)]
  BY DEF FlattenSeq, Joins
<1> HIDE DEF c
<1> QED BY <1>5, <1>6

(* One more sequence is joined at the end.                                 *)
LEMMA FlattenAppend ==
  ASSUME NEW S, NEW s \in Seq(Seq(S)), NEW x \in Seq(S)
  PROVE  FlattenSeq(s) \in Seq(S) /\ FlattenSeq(Append(s, x)) = FlattenSeq(s) \o x
<1> DEFINE t == Append(s, x)
           L == Len(s)
<1>0. /\ L \in Nat /\ t \in Seq(Seq(S)) /\ Len(t) = L + 1 /\ t[L + 1] = x
      /\ \A i \in 1 .. L : t[i] = s[i]
  OBVIOUS
<1> HIDE DEF t
<1>1. PICK g : Joins(g, t) /\ FlattenSeq(t) = g[L + 1]
  BY <1>0, JoinsExists
<1>2. CASE L = 0
  <2>1. FlattenSeq(s) = <<>>
    BY <1>2 DEF FlattenSeq
  <2>2. g[L + 1] = x
    BY <1>0, <1>1, <1>2 DEF Joins
  <2>3. <<>> \o x = x /\ <<>> \in Seq(S)
    OBVIOUS
  <2> QED BY <1>1, <2>1, <2>2, <2>3 DEF t
<1>3. CASE L # 0
  <2>1. PICK f : Joins(f, s) /\ FlattenSeq(s) = f[L]
    BY <1>3, JoinsExists
  <2>2. \A i \in 1 .. L : f[i] = IF i = 1 THEN s[i] ELSE f[i - 1] \o s[i]
    BY <2>1 DEF Joins
  <2>3. \A i \in 1 .. L + 1 : g[i] = IF i = 1 THEN t[i] ELSE g[i - 1] \o t[i]
    BY <1>0, <1>1 DEF Joins
  <2> DEFINE T == {n \in Nat : n \in 1 .. L => f[n] = g[n]}
  <2>4. 0 \in T
    BY <1>0
  <2>5. ASSUME NEW n \in Nat, n \in T
        PROVE  n + 1 \in T
    <3> SUFFICES ASSUME n + 1 \in 1 .. L PROVE f[n + 1] = g[n + 1]
      OBVIOUS
    <3>1. n + 1 \in 1 .. L + 1 /\ (n + 1) - 1 = n /\ t[n + 1] = s[n + 1]
      BY <1>0
    <3>2. CASE n = 0
      BY <2>2, <2>3, <3>1, <3>2
    <3>3. CASE n # 0
      <4>1. f[n] = g[n] /\ n + 1 # 1
        BY <1>0, <2>5, <3>3
      <4>2. f[n + 1] = f[(n + 1) - 1] \o s[n + 1]
        BY <2>2, <4>1
      <4>3. g[n + 1] = g[(n + 1) - 1] \o t[n + 1]
        BY <2>3, <3>1, <4>1
      <4> QED BY <3>1, <4>1, <4>2, <4>3
    <3> QED BY <3>2, <3>3
  <2>6. \A n \in Nat : n \in T
    <3>1. \A n \in Nat : n \in T => n + 1 \in T
      BY <2>5
    <3> HIDE DEF T
    <3> QED BY <2>4, <3>1, NatSetInduction
  <2>7. L \in 1 .. L /\ L + 1 \in 1 .. L + 1 /\ L + 1 # 1 /\ (L + 1) - 1 = L
    BY <1>0, <1>3
  <2>8. f[L] = g[L]
    BY <1>0, <2>6, <2>7
  <2>9. g[L + 1] = g[L] \o x
    BY <1>0, <2>3, <2>7
  <2>10. f[L] \in Seq(S)
    BY <2>1, <2>7, JoinsTyped
  <2> QED BY <1>1, <2>1, <2>8, <2>9, <2>10 DEF t
<1> QED BY <1>0, <1>2, <1>3

LEMMA FlattenTyped ==
  ASSUME NEW S, NEW s \in Seq(Seq(S))
  PROVE  FlattenSeq(s) \in Seq(S)
<1> DEFINE e == <<>>
<1>1. e \in Seq(S)
  OBVIOUS
<1> HIDE DEF e
<1> QED BY <1>1, FlattenAppend
=============================================================================
