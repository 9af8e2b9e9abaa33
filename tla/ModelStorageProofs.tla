------------------------ MODULE ModelStorageProofs ------------------------
(***************************************************************************)
(* Model storage for every class of models, policy, number of pipelines,   *)
(* clients and faults.  First that a file, in full or a difference, gives  *)
(* back the model it was written from, for every model; then, by the       *)
(* invariant of what the files and the requests hold, that the retrievals  *)
(* return models as they were trained and that model storage implements    *)
(* ModelStore.                                                             *)
(***************************************************************************)
EXTENDS ModelStorage, DataLemmas
-----------------------------------------------------------------------------
(* Sequences that are joined start where those before them end.            *)
Starts(start, s) ==
  /\ start \in [Nat -> Nat] /\ start[0] = 0
  /\ \A i \in 1 .. Len(s) : start[i] = start[i - 1] + Len(s[i])

Places(start, s, joined, n) ==
  /\ Len(joined) = start[n]
  /\ \A i \in 1 .. n : \A j \in 1 .. Len(s[i]) :
       /\ start[i - 1] + j \in 1 .. start[n]
       /\ joined[start[i - 1] + j] = s[i][j]

LEMMA FlattenPlaces ==
  ASSUME NEW S, NEW s \in Seq(Seq(S)), NEW start, Starts(start, s)
  PROVE  FlattenSeq(s) \in Seq(S) /\ Places(start, s, FlattenSeq(s), Len(s))
<1> DEFINE L == Len(s)
<1>0. L \in Nat /\ \A i \in 1 .. L : s[i] \in Seq(S)
  OBVIOUS
<1>1. CASE L = 0
  <2>1. FlattenSeq(s) = <<>> /\ s = <<>>
    BY <1>1 DEF FlattenSeq
  <2> QED BY <1>1, <2>1 DEF Starts, Places
<1>2. CASE L # 0
  <2>1. PICK f : Joins(f, s) /\ FlattenSeq(s) = f[L]
    BY <1>2, JoinsExists
  <2>2. \A i \in 1 .. L : f[i] \in Seq(S)
    BY <2>1, JoinsTyped
  <2>3. \A i \in 1 .. L : f[i] = IF i = 1 THEN s[i] ELSE f[i - 1] \o s[i]
    BY <2>1 DEF Joins
  <2> DEFINE T == {n \in Nat : n \in 1 .. L => Places(start, s, f[n], n)}
  <2>4. 0 \in T
    BY <1>0
  <2>5. ASSUME NEW n \in Nat, n \in T
        PROVE  n + 1 \in T
    <3> SUFFICES ASSUME n + 1 \in 1 .. L PROVE Places(start, s, f[n + 1], n + 1)
      OBVIOUS
    <3>0. s[n + 1] \in Seq(S) /\ (n + 1) - 1 = n
      BY <1>0
    <3>1. /\ s[n + 1] \in Seq(S) /\ (n + 1) - 1 = n /\ start[n] \in Nat
          /\ start[n + 1] = start[n] + Len(s[n + 1])
      <4>1. start[n + 1] = start[(n + 1) - 1] + Len(s[n + 1]) /\ start[n] \in Nat
        BY DEF Starts
      <4> QED BY <3>0, <4>1
    <3>2. CASE n = 0
      <4>1. f[1] = s[1] /\ start[0] = 0
        BY <1>0, <2>3, <3>2 DEF Starts
      <4> QED BY <3>1, <3>2, <4>1 DEF Places
    <3>3. CASE n # 0
      <4>1. Places(start, s, f[n], n) /\ n \in 1 .. L /\ n + 1 # 1
        BY <1>0, <2>5, <3>3
      <4>2. f[n + 1] = f[n] \o s[n + 1]
        BY <2>3, <3>1, <4>1
      <4>3. f[n] \in Seq(S)
        BY <2>2, <4>1
      <4> DEFINE a == f[n]
                 b == s[n + 1]
      <4>4. /\ Len(a \o b) = Len(a) + Len(b) /\ Len(a) \in Nat /\ Len(b) \in Nat
            /\ \A i \in 1 .. Len(a) : (a \o b)[i] = a[i]
            /\ \A i \in 1 .. Len(b) : (a \o b)[Len(a) + i] = b[i]
        <5> HIDE DEF a, b
        <5>1. a \in Seq(S) /\ b \in Seq(S)
          BY <3>1, <4>3 DEF a, b
        <5> QED BY <5>1
      <4>5. Len(a) = start[n]
        BY <4>1 DEF Places
      <4>6. Len(f[n + 1]) = start[n + 1]
        BY <3>1, <4>2, <4>4, <4>5
      <4>7. ASSUME NEW i \in 1 .. n + 1, NEW j \in 1 .. Len(s[i])
            PROVE  /\ start[i - 1] + j \in 1 .. start[n + 1]
                   /\ f[n + 1][start[i - 1] + j] = s[i][j]
        <5>1. CASE i = n + 1
          <6>1. j \in 1 .. Len(b) /\ start[i - 1] = start[n] /\ s[i] = b
            BY <3>1, <5>1
          <6>2. f[n + 1][start[n] + j] = b[j] /\ start[n] + j \in 1 .. start[n + 1]
            <7> HIDE DEF a, b
            <7>1. start[n + 1] = start[n] + Len(b) /\ f[n + 1] = a \o b
              BY <3>1, <4>2 DEF a, b
            <7>2. Len(a) = start[n] /\ Len(b) \in Nat /\ start[n] \in Nat
              BY <3>1, <4>4, <4>5
            <7>3. (a \o b)[Len(a) + j] = b[j]
              BY <4>4, <6>1
            <7>4. f[n + 1][start[n] + j] = b[j]
              BY <7>1, <7>2, <7>3
            <7>5. start[n] + j \in 1 .. start[n] + Len(b)
              BY <6>1, <7>2
            <7> QED BY <7>1, <7>4, <7>5
          <6> QED BY <6>1, <6>2
        <5>2. CASE i # n + 1
          <6>1. i \in 1 .. n
            BY <5>2
          <6>2. start[i - 1] + j \in 1 .. start[n] /\ a[start[i - 1] + j] = s[i][j]
            BY <4>1, <6>1 DEF Places
          <6>3. f[n + 1][start[i - 1] + j] = s[i][j] /\ start[i - 1] + j \in 1 .. start[n + 1]
            <7> DEFINE m == start[i - 1] + j
            <7>1. m \in 1 .. Len(a) /\ a[m] = s[i][j]
              BY <4>5, <6>2
            <7> HIDE DEF a, b, m
            <7>2. start[n + 1] = start[n] + Len(b) /\ f[n + 1] = a \o b
              BY <3>1, <4>2 DEF a, b
            <7>3. f[n + 1][m] = a[m] /\ m \in 1 .. start[n + 1]
              <8>1. f[n + 1][m] = a[m]
                BY <4>4, <7>1, <7>2
              <8>2. Len(a) = start[n] /\ Len(b) \in Nat /\ start[n] \in Nat /\ m \in 1 .. Len(a)
                BY <3>1, <4>4, <4>5, <7>1
              <8>3. m \in 1 .. start[n] + Len(b)
                BY <8>2
              <8> QED BY <7>2, <8>1, <8>3
            <7> QED BY <7>1, <7>3 DEF m
          <6> QED BY <6>3
        <5> QED BY <5>1, <5>2
      <4> QED BY <4>6, <4>7 DEF Places
    <3> QED BY <3>2, <3>3
  <2>6. \A n \in Nat : n \in T
    <3>1. \A n \in Nat : n \in T => n + 1 \in T
      BY <2>5
    <3> HIDE DEF T
    <3> QED BY <2>4, <3>1, NatSetInduction
  <2>7. L \in 1 .. L
    BY <1>0, <1>2
  <2> QED BY <1>0, <2>1, <2>2, <2>6, <2>7
<1> QED BY <1>1, <1>2
-----------------------------------------------------------------------------
(* Before counts the words of the tensors of T that come first.            *)
Words(T, k) == IF k \in T THEN Shape[k].words ELSE 0

LEMMA ShapeTyped ==
  /\ Len(Shape) \in Nat /\ DOMAIN Shape = 1 .. Len(Shape)
  /\ \A i \in DOMAIN Shape : Shape[i].words \in Nat
<1> DEFINE R == [float : BOOLEAN, words : Nat]
<1>1. Shape \in Seq(R)
  BY DeltaAssumption
<1>2. \A r \in R : r.words \in Nat
  OBVIOUS
<1> HIDE DEF R
<1> QED BY <1>1, <1>2

LEMMA BeforeCounts ==
  ASSUME NEW T, T \subseteq DOMAIN Shape
  PROVE  \E w : /\ w \in [Nat -> Nat] /\ w[0] = 0
                /\ \A k \in Nat \ {0} : w[k] = w[k - 1] + Words(T, k)
                /\ \A i : Before(i, T) = w[i - 1]
<1> DEFINE Def(w) == w = [k \in Nat |-> IF k = 0 THEN 0
                            ELSE w[k - 1] + (IF k \in T THEN Shape[k].words ELSE 0)]
           step == [q \in Nat \X Nat |-> q[2] + Words(T, q[1])]
<1>1. \A k : Words(T, k) \in Nat
  BY ShapeTyped DEF Words
<1>2. step \in [Nat \X Nat -> Nat]
  BY <1>1
<1>3. PICK g : RecursiveBy(g, Nat, 0, step)
  <2> DEFINE z == 0
  <2>1. z \in Nat
    OBVIOUS
  <2> HIDE DEF step, z
  <2>2. \E g : RecursiveBy(g, Nat, z, step)
    BY <1>2, <2>1, NatRecursion
  <2> QED BY <2>2 DEF z
<1>4. g \in [Nat -> Nat] /\ g[0] = 0
  BY <1>3 DEF RecursiveBy
<1>5. ASSUME NEW k \in Nat \ {0}
      PROVE  g[k] = g[k - 1] + Words(T, k)
  <2>1. k - 1 \in Nat /\ (k - 1) + 1 = k /\ g[k - 1] \in Nat
    BY <1>4
  <2>2. g[(k - 1) + 1] = step[<<(k - 1) + 1, g[k - 1]>>]
    <3> HIDE DEF step
    <3> QED BY <1>3, <2>1 DEF RecursiveBy
  <2>3. step[<<k, g[k - 1]>>] = g[k - 1] + Words(T, k)
    BY <2>1
  <2> HIDE DEF step
  <2> QED BY <2>1, <2>2, <2>3
<1>6. Def(g)
  <2>1. g = [k \in Nat |-> g[k]]
    BY <1>4
  <2>2. \A k \in Nat : g[k] = IF k = 0 THEN 0
                              ELSE g[k - 1] + (IF k \in T THEN Shape[k].words ELSE 0)
    BY <1>4, <1>5 DEF Words
  <2> QED BY <2>1, <2>2
<1> DEFINE c == CHOOSE w : Def(w)
<1>7. Def(c)
  <2> HIDE DEF Def
  <2> QED BY <1>6
<1>8. \A i : Before(i, T) = c[i - 1]
  BY DEF Before
<1> HIDE DEF c
<1>9. c[0] = 0 /\ \A k \in Nat \ {0} : c[k] = c[k - 1] + Words(T, k)
  BY <1>7 DEF Words
<1>10. \A n \in Nat : c[n] \in Nat
  <2> DEFINE C == {n \in Nat : c[n] \in Nat}
  <2>1. 0 \in C
    BY <1>9
  <2>2. ASSUME NEW n \in Nat, n \in C
        PROVE  n + 1 \in C
    <3>1. c[n + 1] = c[(n + 1) - 1] + Words(T, n + 1)
      BY <1>9
    <3>2. (n + 1) - 1 = n /\ c[n] \in Nat
      BY <2>2
    <3> QED BY <1>1, <3>1, <3>2
  <2>3. \A n \in Nat : n \in C
    <3>1. \A n \in Nat : n \in C => n + 1 \in C
      BY <2>2
    <3> HIDE DEF C
    <3> QED BY <2>1, <3>1, NatSetInduction
  <2> QED BY <2>3
<1>11. c \in [Nat -> Nat]
  <2>1. c = [k \in Nat |-> c[k]]
    BY <1>7
  <2> QED BY <1>10, <2>1
<1> QED BY <1>8, <1>9, <1>11

(* BinaryFullModel: a file gives back the model it was written from.       *)
THEOREM FullModelReadBack ==
  ASSUME NEW model, IsModel(model)
  PROVE  LoadFullModel(StoreFullModel(model)) = model
<1> DEFINE D == DOMAIN Shape
           file == FlattenSeq(model)
<1>1. PICK w : /\ w \in [Nat -> Nat] /\ w[0] = 0
               /\ \A k \in Nat \ {0} : w[k] = w[k - 1] + Words(D, k)
               /\ \A i : Before(i, D) = w[i - 1]
  BY BeforeCounts
<1>2. /\ model \in Seq(Seq(Word)) /\ Len(model) = Len(Shape) /\ Len(Shape) \in Nat
      /\ D = 1 .. Len(Shape) /\ DOMAIN model = D
      /\ \A i \in D : model[i] \in Seq(Word) /\ Len(model[i]) = Shape[i].words
  BY ShapeTyped DEF IsModel
<1>3. Starts(w, model)
  <2>1. \A i \in 1 .. Len(model) : w[i] = w[i - 1] + Len(model[i])
    <3> TAKE i \in 1 .. Len(model)
    <3>1. i \in D /\ i \in Nat \ {0}
      BY <1>2
    <3>2. w[i] = w[i - 1] + Words(D, i) /\ Words(D, i) = Len(model[i])
      BY <1>1, <1>2, <3>1 DEF Words
    <3> QED BY <3>2
  <2> QED BY <1>1, <2>1 DEF Starts
<1>4. file \in Seq(Word) /\ Places(w, model, file, Len(model))
  BY <1>2, <1>3, FlattenPlaces
<1> HIDE DEF file
<1>5. ASSUME NEW i \in D
      PROVE  SubSeq(file, Before(i, D) + 1, Before(i + 1, D)) = model[i]
  <2> DEFINE a == w[i - 1]
             b == w[i]
             m == model[i]
  <2>1. /\ i \in Nat \ {0} /\ i - 1 \in Nat /\ (i + 1) - 1 = i
        /\ a \in Nat /\ b \in Nat /\ m \in Seq(Word) /\ b = a + Len(m)
    <3>1. i \in Nat \ {0} /\ i - 1 \in Nat /\ (i + 1) - 1 = i
      BY <1>2
    <3>2. w[i] = w[i - 1] + Words(D, i) /\ Words(D, i) = Len(model[i])
      BY <1>1, <1>2, <3>1 DEF Words
    <3> QED BY <1>1, <1>2, <3>1, <3>2
  <2>2. Before(i, D) = a /\ Before(i + 1, D) = b
    BY <1>1, <2>1
  <2>3. \A j \in 1 .. Len(m) : a + j \in 1 .. Len(file) /\ file[a + j] = m[j]
    <3> TAKE j \in 1 .. Len(m)
    <3>1. /\ Len(file) = w[Len(model)]
          /\ \A k \in 1 .. Len(model) : \A l \in 1 .. Len(model[k]) :
               w[k - 1] + l \in 1 .. w[Len(model)] /\ file[w[k - 1] + l] = model[k][l]
      BY <1>4, <1>2, <1>1 DEF Places
    <3> QED BY <1>2, <3>1
  <2> HIDE DEF a, b, m
  <2>4. SubSeq(file, a + 1, b) = m
    <3> DEFINE t == SubSeq(file, a + 1, b)
    <3>1. CASE Len(m) = 0
      BY <1>4, <2>1, <3>1
    <3>2. CASE Len(m) # 0
      <4>1. b \in 1 .. Len(file) /\ a + 1 \in 1 .. Len(file) /\ a + 1 <= b
        BY <2>1, <2>3, <3>2
      <4>2. /\ t \in Seq(Word) /\ Len(t) = Len(m)
            /\ \A j \in 1 .. Len(m) : t[j] = file[a + j]
        BY <1>4, <2>1, <4>1
      <4> HIDE DEF t
      <4>3. \A j \in 1 .. Len(m) : t[j] = m[j]
        BY <2>3, <4>2
      <4>4. t = m
        BY <2>1, <4>2, <4>3
      <4> QED BY <4>4 DEF t
    <3> QED BY <2>1, <3>1, <3>2
  <2> QED BY <2>2, <2>4 DEF m
<1>6. LoadFullModel(StoreFullModel(model)) = [i \in D |-> model[i]]
  BY <1>5 DEF LoadFullModel, StoreFullModel, file
<1>7. model = [i \in D |-> model[i]]
  BY <1>2
<1> QED BY <1>6, <1>7
-----------------------------------------------------------------------------
(* Run-length encoding loses nothing, and counts at most what a byte can.  *)
Repeat(byte, count) == [k \in 1 .. count |-> byte]
Runs(S) == [count : Nat, byte : S]
Encs(S) == [out : Seq(Runs(S)), curr : S, count : Nat]
RunsFit(runs) == \A i \in 1 .. Len(runs) : runs[i].count \in 1 .. MaxCount

LEMMA AppendAtEnd ==
  ASSUME NEW S, NEW s \in Seq(S), NEW t \in Seq(S), NEW x \in S
  PROVE  s \o Append(t, x) = Append(s \o t, x)
<1> DEFINE a == s \o Append(t, x)
           b == Append(s \o t, x)
<1>1. a \in Seq(S) /\ b \in Seq(S) /\ Len(a) = Len(b)
  OBVIOUS
<1>2. \A i \in 1 .. Len(a) : a[i] = b[i]
  OBVIOUS
<1> HIDE DEF a, b
<1>3. a = b
  BY <1>1, <1>2, SeqEqual
<1> QED BY <1>3 DEF a, b

LEMMA PrefixGrows ==
  ASSUME NEW S, NEW s \in Seq(S), NEW n \in Nat, n + 1 <= Len(s)
  PROVE  SubSeq(s, 1, n + 1) = Append(SubSeq(s, 1, n), s[n + 1])
<1> DEFINE a == SubSeq(s, 1, n + 1)
           p == SubSeq(s, 1, n)
           b == Append(p, s[n + 1])
<1>1. n \in 0 .. Len(s) /\ n + 1 \in 0 .. Len(s) /\ s[n + 1] \in S
  OBVIOUS
<1>2. /\ a \in Seq(S) /\ Len(a) = n + 1 /\ \A i \in 1 .. n + 1 : a[i] = s[i]
      /\ p \in Seq(S) /\ Len(p) = n /\ \A i \in 1 .. n : p[i] = s[i]
  BY <1>1, PrefixAndRest
<1> HIDE DEF a, p
<1>3. b \in Seq(S) /\ Len(b) = n + 1 /\ \A i \in 1 .. n + 1 : b[i] = s[i]
  BY <1>1, <1>2
<1> HIDE DEF b
<1>4. a = b
  BY <1>2, <1>3, SeqEqual
<1> QED BY <1>4 DEF a, b, p

LEMMA DecodeOneMore ==
  ASSUME NEW S, NEW runs \in Seq(Runs(S)), NEW run \in Runs(S)
  PROVE  /\ DecodeBytes(runs) \in Seq(S)
         /\ DecodeBytes(Append(runs, run)) = DecodeBytes(runs) \o Repeat(run.byte, run.count)
<1> DEFINE parts(rs) == [i \in DOMAIN rs |-> Repeat(rs[i].byte, rs[i].count)]
           more == Append(runs, run)
<1>0. \A r \in Runs(S) : Repeat(r.byte, r.count) \in Seq(S)
  BY DEF Runs, Repeat
<1>1. \A rs \in Seq(Runs(S)) : parts(rs) \in Seq(Seq(S)) /\ Len(parts(rs)) = Len(rs)
  <2> TAKE rs \in Seq(Runs(S))
  <2>1. DOMAIN rs = 1 .. Len(rs) /\ Len(rs) \in Nat /\ \A i \in 1 .. Len(rs) : rs[i] \in Runs(S)
    OBVIOUS
  <2>2. \A i \in 1 .. Len(rs) : Repeat(rs[i].byte, rs[i].count) \in Seq(S)
    BY <1>0, <2>1
  <2> QED BY <2>1, <2>2
<1>2. /\ more \in Seq(Runs(S)) /\ Len(more) = Len(runs) + 1 /\ more[Len(runs) + 1] = run
      /\ \A i \in 1 .. Len(runs) : more[i] = runs[i]
      /\ DOMAIN more = 1 .. Len(runs) + 1 /\ DOMAIN runs = 1 .. Len(runs) /\ Len(runs) \in Nat
  OBVIOUS
<1> HIDE DEF more
<1> DEFINE s == parts(runs)
           x == Repeat(run.byte, run.count)
<1>3. s \in Seq(Seq(S)) /\ x \in Seq(S) /\ Len(s) = Len(runs)
  BY <1>0, <1>1
<1>4. parts(more) = Append(s, x)
  <2> DEFINE p == parts(more)
             q == Append(s, x)
  <2>1. p \in Seq(Seq(S)) /\ Len(p) = Len(runs) + 1
    BY <1>1, <1>2
  <2>2. /\ q \in Seq(Seq(S)) /\ Len(q) = Len(runs) + 1 /\ q[Len(runs) + 1] = x
        /\ \A i \in 1 .. Len(runs) : q[i] = s[i]
    <3> HIDE DEF s, x
    <3> QED BY <1>3
  <2>3. p[Len(runs) + 1] = x /\ \A i \in 1 .. Len(runs) : p[i] = s[i]
    BY <1>2
  <2> HIDE DEF p, q
  <2>4. \A i \in 1 .. Len(p) : p[i] = q[i]
    <3> TAKE i \in 1 .. Len(p)
    <3>1. i \in 1 .. Len(runs) \/ i = Len(runs) + 1
      BY <1>2, <2>1
    <3> QED BY <2>2, <2>3, <3>1
  <2>5. p = q
    BY <2>1, <2>2, <2>4, SeqEqual
  <2> QED BY <2>5 DEF p, q
<1>5. DecodeBytes(runs) = FlattenSeq(s) /\ DecodeBytes(more) = FlattenSeq(parts(more))
  BY DEF DecodeBytes, Repeat
<1> HIDE DEF s, x
<1>6. FlattenSeq(s) \in Seq(S) /\ FlattenSeq(Append(s, x)) = FlattenSeq(s) \o x
  BY <1>3, FlattenAppend
<1> QED BY <1>4, <1>5, <1>6 DEF more, x

(* Decoding undoes encode_bytes, whatever the bytes, and every run's       *)
(* count is one that a byte can hold.                                      *)
THEOREM RunLengthLossless ==
  ASSUME NEW S, NEW bytes \in Seq(S)
  PROVE  DecodeBytes(EncodeBytes(bytes)) = bytes /\ RunsFit(EncodeBytes(bytes))
<1> DEFINE L == Len(bytes)
<1>0. L \in Nat /\ \A i \in 1 .. L : bytes[i] \in S
  OBVIOUS
<1>1. CASE bytes = <<>>
  <2>1. EncodeBytes(bytes) = bytes
    BY <1>1 DEF EncodeBytes
  <2>2. [i \in DOMAIN bytes |-> Repeat(bytes[i].byte, bytes[i].count)] = <<>>
    BY <1>1
  <2>3. DecodeBytes(bytes) = FlattenSeq(<<>>)
    BY <2>2 DEF DecodeBytes, Repeat
  <2>4. FlattenSeq(<<>>) = <<>>
    BY DEF FlattenSeq
  <2> QED BY <1>1, <2>1, <2>3, <2>4 DEF RunsFit
<1>2. CASE bytes # <<>>
  <2>0. L # 0 /\ bytes[1] \in S
    BY <1>0, <1>2
  <2> DEFINE first == [out |-> <<>>, curr |-> bytes[1], count |-> 0]
             Def(a) == a = [n \in 0 .. L |-> IF n = 0 THEN [out |-> <<>>, curr |-> bytes[1], count |-> 0]
                              ELSE LET enc == a[n - 1] IN EncodeByte(enc, bytes[n])]
             step == [q \in Nat \X Encs(S) |->
                        IF q[1] \in 1 .. L THEN EncodeByte(q[2], bytes[q[1]]) ELSE q[2]]
  <2>1. first \in Encs(S)
    BY <2>0 DEF Encs
  <2>2. ASSUME NEW enc \in Encs(S), NEW byte \in S
        PROVE  EncodeByte(enc, byte) \in Encs(S)
    <3>1. [count |-> enc.count, byte |-> enc.curr] \in Runs(S)
      BY DEF Encs, Runs
    <3>2. enc.out \in Seq(Runs(S))
      BY DEF Encs
    <3>3. Push(enc) \in Seq(Runs(S))
      BY <3>1, <3>2 DEF Push
    <3> QED BY <3>3 DEF EncodeByte, Encs
  <2>3. step \in [Nat \X Encs(S) -> Encs(S)]
    <3> SUFFICES ASSUME NEW n \in Nat, NEW enc \in Encs(S)
                 PROVE  (IF n \in 1 .. L THEN EncodeByte(enc, bytes[n]) ELSE enc) \in Encs(S)
      OBVIOUS
    <3> QED BY <1>0, <2>2
  <2>4. PICK g : RecursiveBy(g, Encs(S), first, step)
    <3> HIDE DEF first, step
    <3> QED BY <2>1, <2>3, NatRecursion
  <2> DEFINE h == [n \in 0 .. L |-> g[n]]
  <2>5. ASSUME NEW n \in 0 .. L, n # 0
        PROVE  g[n] = EncodeByte(h[n - 1], bytes[n])
    <3>1. n - 1 \in Nat /\ (n - 1) + 1 = n /\ n \in 1 .. L /\ n - 1 \in 0 .. L
      BY <1>0, <2>5
    <3>2. g[n - 1] \in Encs(S) /\ g[n] = step[<<n, g[n - 1]>>]
      <4> HIDE DEF step
      <4> QED BY <2>4, <3>1 DEF RecursiveBy
    <3>3. step[<<n, g[n - 1]>>] = EncodeByte(g[n - 1], bytes[n])
      BY <3>1, <3>2
    <3>4. h[n - 1] = g[n - 1]
      BY <3>1
    <3> HIDE DEF step, h
    <3> QED BY <3>2, <3>3, <3>4
  <2>6. Def(h)
    <3>1. g[0] = first
      <4> HIDE DEF first, step
      <4> QED BY <2>4 DEF RecursiveBy
    <3> HIDE DEF step
    <3> QED BY <2>5, <3>1
  <2> DEFINE c == CHOOSE a : Def(a)
  <2>7. Def(c)
    <3> HIDE DEF h, Def
    <3> QED BY <2>6
  <2>8. EncodeBytes(bytes) = Push(c[L])
    BY <1>2 DEF EncodeBytes
  <2> HIDE DEF c
  <2>9. c[0] = first /\ \A n \in 0 .. L : n # 0 => c[n] = EncodeByte(c[n - 1], bytes[n])
    <3>1. \A n \in 0 .. L :
            c[n] = IF n = 0 THEN [out |-> <<>>, curr |-> bytes[1], count |-> 0]
                   ELSE EncodeByte(c[n - 1], bytes[n])
      <4> HIDE DEF L
      <4> QED BY <2>7
    <3>2. 0 \in 0 .. L
      BY <1>0
    <3> QED BY <3>1, <3>2
  <2> HIDE DEF Def, step, h
  <2> DEFINE Read(enc) == DecodeBytes(enc.out) \o Repeat(enc.curr, enc.count)
             Fit(enc, n) == /\ RunsFit(enc.out) /\ enc.count <= MaxCount
                            /\ IF n = 0 THEN enc.count = 0 /\ enc.curr = bytes[1] ELSE enc.count # 0
             Good(n) == /\ c[n] \in Encs(S) /\ Read(c[n]) = SubSeq(bytes, 1, n) /\ Fit(c[n], n)
             T == {n \in Nat : n <= L => Good(n)}
  <2>10. ASSUME NEW enc \in Encs(S)
         PROVE  /\ DecodeBytes(enc.out) \in Seq(S) /\ Repeat(enc.curr, enc.count) \in Seq(S)
                /\ DecodeBytes(Push(enc)) = Read(enc)
    <3> DEFINE run == [count |-> enc.count, byte |-> enc.curr]
    <3>1. run \in Runs(S) /\ enc.out \in Seq(Runs(S)) /\ run.count = enc.count /\ run.byte = enc.curr
      BY DEF Encs, Runs
    <3>2. Push(enc) = Append(enc.out, run)
      BY DEF Push
    <3>3. Repeat(enc.curr, enc.count) \in Seq(S)
      BY DEF Repeat, Encs
    <3> HIDE DEF run
    <3>4. /\ DecodeBytes(enc.out) \in Seq(S)
          /\ DecodeBytes(Append(enc.out, run)) = DecodeBytes(enc.out) \o Repeat(run.byte, run.count)
      BY <3>1, DecodeOneMore
    <3> QED BY <3>1, <3>2, <3>3, <3>4
  <2>11. ASSUME NEW n \in Nat, NEW enc \in Encs(S), Fit(enc, n), n # 0
         PROVE  RunsFit(Push(enc))
    <3> DEFINE run == [count |-> enc.count, byte |-> enc.curr]
    <3>1. enc.count \in Nat /\ enc.out \in Seq(Runs(S)) /\ MaxCount \in Nat
      BY DeltaAssumption DEF Encs
    <3>2. run.count \in 1 .. MaxCount
      BY <2>11, <3>1
    <3>3. \A i \in 1 .. Len(enc.out) : enc.out[i].count \in 1 .. MaxCount
      BY <2>11 DEF RunsFit
    <3>4. Push(enc) = Append(enc.out, run)
      BY DEF Push
    <3> HIDE DEF run
    <3> QED BY <3>1, <3>2, <3>3, <3>4 DEF RunsFit
  <2>12. 0 \in T
    <3>1. c[0] = first
      BY <2>9
    <3>2. Read(first) = SubSeq(bytes, 1, 0)
      <4>1. DecodeBytes(<<>>) = <<>>
        <5>1. [i \in DOMAIN (<<>>) |-> Repeat((<<>>)[i].byte, (<<>>)[i].count)] = <<>>
          OBVIOUS
        <5>2. FlattenSeq(<<>>) = <<>>
          BY DEF FlattenSeq
        <5> QED BY <5>1, <5>2 DEF DecodeBytes, Repeat
      <4>2. Repeat(first.curr, first.count) = <<>>
        BY DEF Repeat
      <4>3. SubSeq(bytes, 1, 0) = <<>>
        BY SubSeqEmpty
      <4>4. first.out = <<>> /\ <<>> \o <<>> = <<>>
        OBVIOUS
      <4> HIDE DEF first
      <4> QED BY <4>1, <4>2, <4>3, <4>4
    <3>3. Fit(first, 0)
      BY DeltaAssumption DEF RunsFit
    <3> HIDE DEF first, Read, Fit
    <3> QED BY <2>1, <3>1, <3>2, <3>3
  <2>13. ASSUME NEW n \in Nat, n \in T
         PROVE  n + 1 \in T
    <3> SUFFICES ASSUME n + 1 <= L PROVE Good(n + 1)
      OBVIOUS
    <3>1. Good(n) /\ n + 1 \in 1 .. L /\ (n + 1) - 1 = n /\ n + 1 \in 0 .. L /\ n + 1 # 0
      <4> HIDE DEF Good
      <4> QED BY <1>0, <2>13
    <3> DEFINE enc == c[n]
               new == c[n + 1]
               byte == bytes[n + 1]
    <3>2. c[n + 1] = EncodeByte(c[n], byte)
      <4>1. c[n + 1] = EncodeByte(c[(n + 1) - 1], bytes[n + 1])
        BY <2>9, <3>1
      <4> QED BY <3>1, <4>1
    <3>3. byte \in S /\ SubSeq(bytes, 1, n + 1) = Append(SubSeq(bytes, 1, n), byte)
      BY <1>0, <3>1, PrefixGrows
    <3> HIDE DEF T, byte
    <3>4. /\ enc \in Encs(S) /\ Read(enc) = SubSeq(bytes, 1, n) /\ Fit(enc, n)
          /\ new = EncodeByte(enc, byte)
      <4> HIDE DEF Read, Fit
      <4> QED BY <3>1, <3>2
    <3> HIDE DEF enc, new
    <3>5. new \in Encs(S)
      BY <2>2, <3>3, <3>4
    <3>6. CASE byte = enc.curr /\ enc.count < MaxCount
      <4>1. new = [enc EXCEPT !.count = @ + 1]
        BY <3>4, <3>6 DEF EncodeByte
      <4>2. new.out = enc.out /\ new.curr = byte /\ new.count = enc.count + 1 /\ enc.count \in Nat
        BY <3>4, <3>6, <4>1 DEF Encs
      <4>3. Repeat(new.curr, new.count) = Append(Repeat(enc.curr, enc.count), byte)
        BY <3>3, <3>6, <4>2 DEF Repeat
      <4>4. Read(new) = Append(Read(enc), byte)
        <5>1. DecodeBytes(enc.out) \in Seq(S) /\ Repeat(enc.curr, enc.count) \in Seq(S)
          BY <2>10, <3>4
        <5>2. Read(new) = DecodeBytes(enc.out) \o Append(Repeat(enc.curr, enc.count), byte)
          BY <4>2, <4>3
        <5> QED BY <3>3, <5>1, <5>2, AppendAtEnd
      <4>5. Fit(new, n + 1)
        <5>1. RunsFit(new.out)
          <6>1. RunsFit(enc.out)
            BY <3>4
          <6> HIDE DEF RunsFit
          <6> QED BY <4>2, <6>1
        <5>2. new.count \in Nat /\ new.count # 0 /\ new.count <= MaxCount
          BY <3>6, <4>2, DeltaAssumption
        <5>3. n + 1 # 0
          BY <3>1
        <5> HIDE DEF RunsFit
        <5> QED BY <5>1, <5>2, <5>3
      <4> HIDE DEF Read, Fit
      <4> QED BY <3>3, <3>4, <3>5, <4>4, <4>5 DEF new
    <3>7. CASE ~(byte = enc.curr /\ enc.count < MaxCount)
      <4>1. new = [out |-> Push(enc), curr |-> byte, count |-> 1]
        BY <3>4, <3>7 DEF EncodeByte
      <4>2. n # 0
        BY <3>4, <3>7, DeltaAssumption DEF byte
      <4>3. Read(new) = Append(Read(enc), byte)
        <5>1. Repeat(byte, 1) = <<byte>>
          BY DEF Repeat
        <5>2. DecodeBytes(new.out) = Read(enc) /\ Repeat(new.curr, new.count) = <<byte>>
          <6> HIDE DEF Read
          <6> QED BY <2>10, <3>4, <4>1, <5>1
        <5>3. Read(enc) \in Seq(S)
          BY <2>10, <3>4
        <5> DEFINE r == Read(enc)
        <5> HIDE DEF r
        <5>4. r \o <<byte>> = Append(r, byte)
          BY <3>3, <5>3 DEF r
        <5> QED BY <5>2, <5>4 DEF r
      <4>4. RunsFit(new.out)
        <5>1. new.out = Push(enc)
          BY <4>1
        <5> HIDE DEF Fit
        <5> QED BY <2>11, <3>4, <4>2, <5>1
      <4>5. Fit(new, n + 1)
        BY <4>1, <4>4, DeltaAssumption
      <4> HIDE DEF Read, Fit
      <4> QED BY <3>3, <3>4, <3>5, <4>3, <4>5 DEF new
    <3> QED BY <3>6, <3>7
  <2>14. Good(L)
    <3>1. \A n \in Nat : n \in T => n + 1 \in T
      BY <2>13
    <3> HIDE DEF T
    <3>2. L \in T
      BY <1>0, <2>12, <3>1, NatSetInduction
    <3> HIDE DEF Good
    <3> QED BY <1>0, <3>2 DEF T
  <2>15. DecodeBytes(Push(c[L])) = bytes
    <3>1. SubSeq(bytes, 1, L) = bytes
      OBVIOUS
    <3> HIDE DEF Read, Fit
    <3> QED BY <2>10, <2>14, <3>1
  <2>16. RunsFit(Push(c[L]))
    <3> HIDE DEF Read, Fit
    <3> QED BY <1>0, <2>0, <2>11, <2>14
  <2> QED BY <2>8, <2>15, <2>16
<1> QED BY <1>1, <1>2
-----------------------------------------------------------------------------
(* A difference gives back the model it was written from, with the state   *)
(* of the model it is the difference to.                                   *)
LEMMA WordFacts ==
  /\ \A w, v \in Word : Xor(w, v) \in Word /\ Xor(v, Xor(w, v)) = w
  /\ \A w \in Word :
       LET r == ReorderBuffer(w)
       IN /\ r \in Word
          /\ ReorderBuffer([fraction |-> r.fraction, last |-> r.last,
                            sign |-> r.sign, exponent |-> r.exponent]) = w
<1>1. \A a, b \in 0 .. 1 : XorBit(a, b) \in 0 .. 1 /\ XorBit(b, XorBit(a, b)) = a
  <2> SUFFICES ASSUME NEW a \in 0 .. 1, NEW b \in 0 .. 1
               PROVE  XorBit(a, b) \in 0 .. 1 /\ XorBit(b, XorBit(a, b)) = a
    OBVIOUS
  <2>1. (a = 0 \/ a = 1) /\ (b = 0 \/ b = 1) /\ 0 % 2 = 0 /\ 1 % 2 = 1 /\ 2 % 2 = 0
    OBVIOUS
  <2> QED BY <2>1 DEF XorBit
<1>2. ASSUME NEW w \in Word, NEW v \in Word
      PROVE  Xor(w, v) \in Word /\ Xor(v, Xor(w, v)) = w
  <2>1. /\ w.fraction \in 0 .. 1 /\ w.last \in 0 .. 1 /\ w.sign \in 0 .. 1 /\ w.exponent \in 0 .. 1
        /\ v.fraction \in 0 .. 1 /\ v.last \in 0 .. 1 /\ v.sign \in 0 .. 1 /\ v.exponent \in 0 .. 1
    BY DEF Word
  <2>2. w = [fraction |-> w.fraction, last |-> w.last, sign |-> w.sign, exponent |-> w.exponent]
    BY DEF Word
  <2> DEFINE x == Xor(w, v)
  <2>3. /\ x.fraction = XorBit(w.fraction, v.fraction) /\ x.last = XorBit(w.last, v.last)
        /\ x.sign = XorBit(w.sign, v.sign) /\ x.exponent = XorBit(w.exponent, v.exponent)
    BY DEF Xor
  <2>4. x \in Word
    BY <1>1, <2>1 DEF Xor, Word
  <2>5. Xor(v, x) = [fraction |-> XorBit(v.fraction, x.fraction), last |-> XorBit(v.last, x.last),
                     sign |-> XorBit(v.sign, x.sign), exponent |-> XorBit(v.exponent, x.exponent)]
    BY DEF Xor
  <2> HIDE DEF x
  <2>6. Xor(v, x) = w
    BY <1>1, <2>1, <2>2, <2>3, <2>5
  <2> QED BY <2>4, <2>6 DEF x
<1>3. ASSUME NEW w \in Word
      PROVE  LET r == ReorderBuffer(w)
             IN /\ r \in Word
                /\ ReorderBuffer([fraction |-> r.fraction, last |-> r.last,
                                  sign |-> r.sign, exponent |-> r.exponent]) = w
  <2> DEFINE r == ReorderBuffer(w)
  <2>1. /\ r \in Word /\ r.fraction = w.fraction /\ r.last = w.sign
        /\ r.sign = w.last /\ r.exponent = w.exponent
    BY DEF ReorderBuffer, Word
  <2> HIDE DEF r
  <2> DEFINE s == [fraction |-> r.fraction, last |-> r.last,
                   sign |-> r.sign, exponent |-> r.exponent]
  <2>2. ReorderBuffer(s)
          = [fraction |-> w.fraction, last |-> w.last, sign |-> w.sign, exponent |-> w.exponent]
    <3>1. s.fraction = w.fraction /\ s.last = w.sign /\ s.sign = w.last /\ s.exponent = w.exponent
      BY <2>1
    <3>2. s \in Word
      BY <2>1 DEF Word
    <3> HIDE DEF s
    <3> DEFINE q == ReorderBuffer(s)
    <3>3. /\ q \in Word /\ q.fraction = s.fraction /\ q.last = s.sign
          /\ q.sign = s.last /\ q.exponent = s.exponent
      BY <3>2 DEF ReorderBuffer, Word
    <3> HIDE DEF q
    <3>4. q = [fraction |-> q.fraction, last |-> q.last, sign |-> q.sign, exponent |-> q.exponent]
      BY <3>3 DEF Word
    <3> QED BY <3>1, <3>3, <3>4 DEF q
  <2>3. w = [fraction |-> w.fraction, last |-> w.last, sign |-> w.sign, exponent |-> w.exponent]
    BY DEF Word
  <2> QED BY <2>1, <2>2, <2>3 DEF r
<1> QED BY <1>2, <1>3

(* The parts of the file, tensor by tensor.                                *)
Diff(model, prev, i) == [j \in DOMAIN model[i] |-> Xor(model[i][j], prev[i][j])]
LowPart(w) == [fraction |-> ReorderBuffer(w).fraction, last |-> ReorderBuffer(w).last]
HighPart(w) == [sign |-> ReorderBuffer(w).sign, exponent |-> ReorderBuffer(w).exponent]
BodyOf(diff, i) == IF i \notin Split THEN diff ELSE [j \in DOMAIN diff |-> LowPart(diff[j])]
TailOf(diff, i) == IF i \notin Split THEN <<>> ELSE [j \in DOMAIN diff |-> HighPart(diff[j])]
Bodies == Word \cup [fraction : 0 .. 1, last : 0 .. 1]
Tails == [sign : 0 .. 1, exponent : 0 .. 1]

LEMMA PartsTyped ==
  ASSUME NEW i, NEW diff \in Seq(Word)
  PROVE  /\ BodyOf(diff, i) \in Seq(Bodies) /\ Len(BodyOf(diff, i)) = Len(diff)
         /\ TailOf(diff, i) \in Seq(Tails)
         /\ Len(TailOf(diff, i)) = IF i \in Split THEN Len(diff) ELSE 0
<1>1. DOMAIN diff = 1 .. Len(diff) /\ Len(diff) \in Nat /\ \A j \in DOMAIN diff : diff[j] \in Word
  OBVIOUS
<1>2. \A w \in Word : LowPart(w) \in Bodies /\ HighPart(w) \in Tails /\ w \in Bodies
  <2> TAKE w \in Word
  <2>1. ReorderBuffer(w) \in Word
    BY WordFacts
  <2> QED BY <2>1 DEF LowPart, HighPart, Bodies, Tails, Word
<1> DEFINE low == [j \in 1 .. Len(diff) |-> LowPart(diff[j])]
           high == [j \in 1 .. Len(diff) |-> HighPart(diff[j])]
<1>3. low \in Seq(Bodies) /\ Len(low) = Len(diff) /\ high \in Seq(Tails) /\ Len(high) = Len(diff)
  BY <1>1, <1>2
<1>4. diff \in Seq(Bodies)
  BY <1>1, <1>2
<1>5. BodyOf(diff, i) = IF i \notin Split THEN diff ELSE low
  BY <1>1 DEF BodyOf
<1>6. TailOf(diff, i) = IF i \notin Split THEN <<>> ELSE high
  BY <1>1 DEF TailOf
<1> HIDE DEF low, high
<1>7. <<>> \in Seq(Tails) /\ Len(<<>>) = 0
  OBVIOUS
<1> QED BY <1>3, <1>4, <1>5, <1>6, <1>7

(* A tensor's word is found where Before says.                             *)
Sized(s, T) ==
  Len(s) = Len(Shape) /\ \A i \in DOMAIN Shape : Len(s[i]) = Words(T, i)
Placed(s, T) ==
  \A i \in DOMAIN Shape : \A j \in 1 .. Len(s[i]) : FlattenSeq(s)[Before(i, T) + j] = s[i][j]

LEMMA PartsPlaced ==
  ASSUME NEW S, NEW s \in Seq(Seq(S)), NEW T, T \subseteq DOMAIN Shape, Sized(s, T)
  PROVE  Placed(s, T)
<1>1. PICK w : /\ w \in [Nat -> Nat] /\ w[0] = 0
               /\ \A k \in Nat \ {0} : w[k] = w[k - 1] + Words(T, k)
               /\ \A i : Before(i, T) = w[i - 1]
  BY BeforeCounts
<1>2. Len(Shape) \in Nat /\ DOMAIN Shape = 1 .. Len(s)
  BY ShapeTyped DEF Sized
<1>3. Starts(w, s)
  <2>1. \A i \in 1 .. Len(s) : w[i] = w[i - 1] + Len(s[i])
    <3> TAKE i \in 1 .. Len(s)
    <3>1. i \in Nat \ {0} /\ i \in DOMAIN Shape
      BY <1>2
    <3>2. w[i] = w[i - 1] + Words(T, i) /\ Words(T, i) = Len(s[i])
      BY <1>1, <3>1 DEF Sized
    <3> QED BY <3>2
  <2> QED BY <1>1, <2>1 DEF Starts
<1>4. FlattenSeq(s) \in Seq(S) /\ Places(w, s, FlattenSeq(s), Len(s))
  BY <1>3, FlattenPlaces
<1>5. ASSUME NEW i \in DOMAIN Shape, NEW j \in 1 .. Len(s[i])
      PROVE  FlattenSeq(s)[Before(i, T) + j] = s[i][j]
  <2>1. Before(i, T) = w[i - 1] /\ i \in 1 .. Len(s)
    BY <1>1, <1>2
  <2>2. FlattenSeq(s)[w[i - 1] + j] = s[i][j]
    BY <1>4, <2>1 DEF Places
  <2> QED BY <2>1, <2>2
<1> QED BY <1>5 DEF Placed

(* WeightsDifference: loading on top of the parent's state gives back the  *)
(* model, with the exponents apart and run-length encoded or not.          *)
THEOREM DifferenceReadBack ==
  ASSUME NEW model, IsModel(model), NEW prev, IsModel(prev)
  PROVE  LoadDelta(prev, StoreDelta(model, prev)) = model
<1> DEFINE D == DOMAIN Shape
           diff(i) == Diff(model, prev, i)
           bodies == [i \in D |-> BodyOf(diff(i), i)]
           tails == [i \in D |-> TailOf(diff(i), i)]
           stream == FlattenSeq(bodies)
           exponents == FlattenSeq(tails)
           file == StoreDelta(model, prev)
<1>1. /\ Len(Shape) \in Nat /\ D = 1 .. Len(Shape) /\ DOMAIN model = D
      /\ \A i \in D : /\ model[i] \in Seq(Word) /\ prev[i] \in Seq(Word)
                      /\ Len(model[i]) = Shape[i].words /\ Len(prev[i]) = Shape[i].words
                      /\ DOMAIN model[i] = 1 .. Shape[i].words /\ DOMAIN prev[i] = 1 .. Shape[i].words
                      /\ Shape[i].words \in Nat
  BY ShapeTyped DEF IsModel
<1>2. ASSUME NEW i \in D
      PROVE  /\ diff(i) \in Seq(Word) /\ Len(diff(i)) = Shape[i].words
             /\ \A j \in 1 .. Shape[i].words : diff(i)[j] = Xor(model[i][j], prev[i][j])
  <2>1. \A j \in 1 .. Shape[i].words :
          model[i][j] \in Word /\ prev[i][j] \in Word /\ Xor(model[i][j], prev[i][j]) \in Word
    BY <1>1, WordFacts
  <2>2. diff(i) = [j \in 1 .. Shape[i].words |-> Xor(model[i][j], prev[i][j])]
    BY <1>1 DEF Diff
  <2> DEFINE n == Shape[i].words
             f == [j \in 1 .. n |-> Xor(model[i][j], prev[i][j])]
  <2>3. n \in Nat /\ \A j \in 1 .. n : f[j] \in Word
    BY <1>1, <2>1
  <2>4. f \in Seq(Word) /\ Len(f) = n
    <3>1. f \in [1 .. n -> Word]
      BY <2>3
    <3> HIDE DEF f, n
    <3> QED BY <2>3, <3>1
  <2> QED BY <2>2, <2>4
<1> HIDE DEF diff
<1>3. /\ bodies \in Seq(Seq(Bodies)) /\ Len(bodies) = Len(Shape)
      /\ tails \in Seq(Seq(Tails)) /\ Len(tails) = Len(Shape)
      /\ \A i \in D : Len(bodies[i]) = Words(D, i) /\ Len(tails[i]) = Words(Split, i)
  <2>1. \A i \in D : /\ BodyOf(diff(i), i) \in Seq(Bodies) /\ Len(BodyOf(diff(i), i)) = Shape[i].words
                     /\ TailOf(diff(i), i) \in Seq(Tails)
                     /\ Len(TailOf(diff(i), i)) = IF i \in Split THEN Shape[i].words ELSE 0
    BY <1>2, PartsTyped
  <2>2. bodies \in Seq(Seq(Bodies)) /\ Len(bodies) = Len(Shape)
    BY <1>1, <2>1
  <2>3. tails \in Seq(Seq(Tails)) /\ Len(tails) = Len(Shape)
    BY <1>1, <2>1
  <2>4. \A i \in D : bodies[i] = BodyOf(diff(i), i) /\ tails[i] = TailOf(diff(i), i)
    OBVIOUS
  <2> QED BY <2>1, <2>2, <2>3, <2>4 DEF Words
<1>4. Split \subseteq D
  BY DEF Split
<1>5. /\ exponents \in Seq(Tails)
      /\ \A i \in D : /\ \A j \in 1 .. Len(bodies[i]) : stream[Before(i, D) + j] = bodies[i][j]
                      /\ \A j \in 1 .. Len(tails[i]) : exponents[Before(i, Split) + j] = tails[i][j]
  <2> HIDE DEF bodies, tails
  <2>1. Sized(bodies, D) /\ Sized(tails, Split)
    BY <1>3 DEF Sized
  <2>2. Placed(bodies, D)
    BY <1>3, <2>1, PartsPlaced
  <2>3. Placed(tails, Split)
    BY <1>3, <1>4, <2>1, PartsPlaced
  <2>4. exponents \in Seq(Tails)
    BY <1>3, FlattenTyped
  <2> QED BY <2>2, <2>3, <2>4 DEF Placed
<1>6. /\ file.stream = stream
      /\ file.exponents = IF rle THEN EncodeBytes(exponents) ELSE exponents
  BY <1>1 DEF StoreDelta, Diff, diff, BodyOf, TailOf, LowPart, HighPart
<1>7. (IF rle THEN DecodeBytes(file.exponents) ELSE file.exponents) = exponents
  <2> HIDE DEF file, exponents
  <2> QED BY <1>5, <1>6, RunLengthLossless
<1> DEFINE word(i, j) ==
             IF i \notin Split THEN stream[Before(i, D) + j]
             ELSE ReorderBuffer([fraction |-> stream[Before(i, D) + j].fraction,
                                 last |-> stream[Before(i, D) + j].last,
                                 sign |-> exponents[Before(i, Split) + j].sign,
                                 exponent |-> exponents[Before(i, Split) + j].exponent])
<1>8. ASSUME NEW i \in D, NEW j \in 1 .. Shape[i].words
      PROVE  word(i, j) = diff(i)[j]
  <2> DEFINE d == diff(i)
  <2>1. d \in Seq(Word) /\ Len(d) = Shape[i].words /\ d[j] \in Word /\ DOMAIN d = 1 .. Shape[i].words
    BY <1>1, <1>2
  <2>2. bodies[i] = BodyOf(d, i) /\ tails[i] = TailOf(d, i)
    OBVIOUS
  <2>3. stream[Before(i, D) + j] = bodies[i][j]
    <3>1. Len(bodies[i]) = Shape[i].words
      BY <1>3 DEF Words
    <3> HIDE DEF bodies, stream
    <3> QED BY <1>5, <3>1
  <2>4. i \in Split => exponents[Before(i, Split) + j] = tails[i][j]
    <3>1. i \in Split => Len(tails[i]) = Shape[i].words
      BY <1>3 DEF Words
    <3> HIDE DEF tails, exponents
    <3> QED BY <1>5, <3>1
  <2> HIDE DEF bodies, tails, stream, exponents, d
  <2>5. CASE i \notin Split
    BY <2>2, <2>3, <2>5 DEF BodyOf, d
  <2>6. CASE i \in Split
    <3>1. stream[Before(i, D) + j] = LowPart(d[j]) /\ exponents[Before(i, Split) + j] = HighPart(d[j])
      BY <2>1, <2>2, <2>3, <2>4, <2>6 DEF BodyOf, TailOf
    <3> DEFINE r == ReorderBuffer(d[j])
    <3>2. /\ stream[Before(i, D) + j].fraction = r.fraction /\ stream[Before(i, D) + j].last = r.last
          /\ exponents[Before(i, Split) + j].sign = r.sign
          /\ exponents[Before(i, Split) + j].exponent = r.exponent
      BY <3>1 DEF LowPart, HighPart
    <3>3. ReorderBuffer([fraction |-> r.fraction, last |-> r.last,
                         sign |-> r.sign, exponent |-> r.exponent]) = d[j]
      BY <2>1, WordFacts
    <3> HIDE DEF r
    <3> QED BY <2>6, <3>2, <3>3 DEF d
  <2> QED BY <2>5, <2>6
<1>9. LoadDelta(prev, file) = [i \in D |-> [j \in DOMAIN prev[i] |-> Xor(prev[i][j], word(i, j))]]
  <2> HIDE DEF stream, exponents, file
  <2> QED BY <1>6, <1>7 DEF LoadDelta
<1> HIDE DEF word, file
<1>10. ASSUME NEW i \in D
       PROVE  [j \in DOMAIN prev[i] |-> Xor(prev[i][j], word(i, j))] = model[i]
  <2>1. \A j \in 1 .. Shape[i].words : Xor(prev[i][j], word(i, j)) = model[i][j]
    <3> TAKE j \in 1 .. Shape[i].words
    <3>1. model[i][j] \in Word /\ prev[i][j] \in Word
      BY <1>1
    <3>2. word(i, j) = Xor(model[i][j], prev[i][j])
      BY <1>2, <1>8
    <3> QED BY <3>1, <3>2, WordFacts
  <2>2. model[i] = [j \in 1 .. Shape[i].words |-> model[i][j]]
    BY <1>1
  <2> QED BY <1>1, <2>1, <2>2
<1>11. model = [i \in D |-> model[i]]
  BY <1>1 DEF IsModel
<1> QED BY <1>9, <1>10, <1>11 DEF file
-----------------------------------------------------------------------------
(* The models as they were trained, through the files of the policy.       *)
LEMMA FullReadBack ==
  ASSUME NEW p \in Pipelines, NEW t \in Triggers(p)
  PROVE  LoadFull(StoreFull(Trained[p][t])) = Trained[p][t]
<1>1. IsModel(Trained[p][t])
  BY ModelStorageAssumption DEF Triggers
<1>2. LoadFullModel(StoreFullModel(Trained[p][t])) = Trained[p][t]
  BY <1>1, FullModelReadBack
<1> QED BY <1>2 DEF LoadFull, StoreFull

LEMMA DeltaReadBack ==
  ASSUME NEW p \in Pipelines, NEW t \in Triggers(p), NEW u \in Triggers(p)
  PROVE  LoadDelta(Trained[p][u], StoreDelta(Trained[p][t], Trained[p][u])) = Trained[p][t]
<1>1. IsModel(Trained[p][t]) /\ IsModel(Trained[p][u])
  BY ModelStorageAssumption DEF Triggers
<1> QED BY <1>1, DifferenceReadBack
-----------------------------------------------------------------------------
(* The inductive invariant.  A row is of a trigger that is past, of its    *)
(* own; its parent is stored in full, and of an earlier trigger of the     *)
(* same pipeline.                                                          *)
Rows == [pipeline : Pipelines, trigger : Nat, parent : Nat]
Ids ==
  /\ nextId \in Nat \ {0} /\ DOMAIN models \subseteq 1 .. nextId - 1
  /\ \A id \in DOMAIN models : models[id].parent \in DOMAIN models \cup {0}
RowsTyped ==
  \A id \in DOMAIN models :
    /\ models[id] \in Rows /\ models[id].trigger \in Triggers(models[id].pipeline)
    /\ models[id].trigger < register[models[id].pipeline].trigger
RowsDistinct ==
  \A i, j \in DOMAIN models :
    models[i].pipeline = models[j].pipeline /\ models[i].trigger = models[j].trigger => i = j

(* A file holds what was written for its row; those of a model whose       *)
(* deletion was not accepted are all there.                                *)
Content(p, t, parent) ==
  IF parent = 0 THEN StoreFull(Trained[p][t])
  ELSE StoreDelta(Trained[p][t], Trained[p][models[parent].trigger])
RowFiled(id) ==
  /\ id \notin accepted => FilesOf(models[id]) \subseteq DOMAIN files
  /\ ModelFile(id) \in DOMAIN files =>
       files[ModelFile(id)] = Content(models[id].pipeline, models[id].trigger, models[id].parent)
RowsFiled == \A id \in DOMAIN models : RowFiled(id)

(* A registration knows a parent that a row may refer to, if it is still   *)
(* there, and holds the difference to that one.                            *)
ParentOK(p) ==
  register[p].parent \in DOMAIN models =>
    LET row == models[register[p].parent]
    IN row.parent = 0 /\ row.pipeline = p /\ row.trigger < register[p].trigger
ContentOK(p) ==
  register[p].pc \in {"write", "add"} /\ register[p].parent \in DOMAIN models \cup {0} =>
    register[p].content = Content(p, register[p].trigger, register[p].parent)
RegisterOK(p) ==
  /\ register[p] \in [pc : {"idle", "downloaded", "parent", "write", "add"}, trigger : Nat,
                      parent : Nat, content : {register[p].content}]
  /\ register[p].parent < nextId
  /\ register[p].pc # "idle" => register[p].trigger \in Triggers(p)
  /\ register[p].pc \in {"idle", "downloaded"} => register[p].parent = 0
  /\ register[p].pc = "parent" => register[p].parent # 0
  /\ ParentOK(p) /\ ContentOK(p)
  /\ register[p].pc = "add" =>
       /\ FilesOf([pipeline |-> p, trigger |-> register[p].trigger]) \subseteq DOMAIN files
       /\ files[<<"model", p, register[p].trigger>>] = register[p].content
Registers == DOMAIN register = Pipelines /\ \A p \in Pipelines : RegisterOK(p)

(* A deletion was accepted, and its model has no file once it is at the    *)
(* row.  A row that refers to such a model was accepted or undermined.     *)
DeleteOK ==
  /\ delete \in [pc : {"idle", "unlink", "row"}, id : Nat]
  /\ delete.pc # "idle" =>
       /\ delete.id \in DOMAIN models /\ delete.id \in accepted
       /\ delete.pc = "row" => ModelFile(delete.id) \notin DOMAIN files
Condemned ==
  /\ accepted \cup undermined \subseteq 1 .. nextId - 1
  /\ \A id \in DOMAIN models : models[id].parent \in accepted => id \in accepted \cup undermined

(* A retrieval holds the model of its row, if that is still there, or the  *)
(* one its row is the difference to.                                       *)
AsTrained(model, rows, id) ==
  \E p \in Pipelines : \E t \in Triggers(p) :
    /\ model = Trained[p][t]
    /\ id \in DOMAIN rows => rows[id].pipeline = p /\ rows[id].trigger = t
BaseOf(model, rows, id) ==
  id \in DOMAIN rows =>
    /\ rows[id].parent # 0
    /\ model = Trained[rows[id].pipeline][rows[rows[id].parent].trigger]
GoodFetch(f, rows, next) ==
  /\ f \in [pc : {"idle", "base", "delta", "serve", "download", "remove", "done", "failed"},
            id : Nat, name : {f.name}, tries : {f.tries}, model : {f.model}, checksum : {f.checksum}]
  /\ f.id < next
  /\ f.pc = "delta" => BaseOf(f.model, rows, f.id)
  /\ f.pc \in {"serve", "remove", "done"} => AsTrained(f.model, rows, f.id)
  /\ f.pc = "download" => AsTrained(f.checksum, rows, f.id)
FetchOK(c) == GoodFetch(fetch[c], models, nextId)
Fetches == DOMAIN fetch = Clients /\ \A c \in Clients : FetchOK(c)

IInv ==
  /\ Ids /\ RowsTyped /\ RowsDistinct /\ ParentsStoredWhole /\ RowsFiled
  /\ Registers /\ DeleteOK /\ Condemned /\ Fetches
(* What reading a model comes to: it takes its file, and its parent's.     *)
Found(id) ==
  /\ ModelFile(id) \in DOMAIN files
  /\ models[id].parent # 0 => ModelFile(models[id].parent) \in DOMAIN files
ModelOf(id) == Trained[models[id].pipeline][models[id].trigger]

LEMMA ReadableFound ==
  ASSUME IInv, NEW id \in DOMAIN models
  PROVE  Readable(id) <=> Found(id)
<1> DEFINE D == DOMAIN models
           Def(r) == r = [i \in D |->
                            /\ ModelFile(i) \in DOMAIN files
                            /\ models[i].parent # 0 => models[i].parent \in D /\ r[models[i].parent]]
           g == [i \in D |-> Found(i)]
           c == CHOOSE r : Def(r)
<1>1. \A i \in D : models[i].parent # 0 => models[i].parent \in D /\ models[models[i].parent].parent = 0
  BY DEF IInv, Ids, ParentsStoredWhole
<1>2. \A i \in D : models[i].parent = 0 => (Found(i) <=> ModelFile(i) \in DOMAIN files)
  BY DEF Found
<1>3. Def(g)
  <2> DEFINE rhs(i) == /\ ModelFile(i) \in DOMAIN files
                       /\ models[i].parent # 0 => models[i].parent \in D /\ g[models[i].parent]
  <2>1. ASSUME NEW i \in D
        PROVE  Found(i) <=> rhs(i)
    <3>1. CASE models[i].parent = 0
      BY <3>1 DEF Found
    <3>2. CASE models[i].parent # 0
      <4> DEFINE j == models[i].parent
      <4>1. j \in D /\ models[j].parent = 0
        BY <1>1, <3>2
      <4>2. g[j] = Found(j)
        BY <4>1
      <4>3. Found(j) <=> ModelFile(j) \in DOMAIN files
        BY <1>2, <4>1
      <4>4. Found(i) <=> (ModelFile(i) \in DOMAIN files /\ ModelFile(j) \in DOMAIN files)
        BY <3>2 DEF Found
      <4> HIDE DEF g
      <4> QED BY <3>2, <4>1, <4>2, <4>3, <4>4
    <3> QED BY <3>1, <3>2
  <2>2. ASSUME NEW i \in D
        PROVE  Found(i) = rhs(i)
    <3>1. Found(i) \in BOOLEAN /\ rhs(i) \in BOOLEAN
      BY DEF Found
    <3> HIDE DEF rhs, g
    <3> QED BY <2>1, <3>1
  <2>3. g = [i \in D |-> rhs(i)]
    <3> HIDE DEF rhs
    <3> QED BY <2>2
  <2> QED BY <2>3
<1>4. Def(c)
  <2> HIDE DEF g, Def
  <2> QED BY <1>3
<1>5. Readable(id) <=> c[id]
  BY DEF Readable
<1> HIDE DEF c
<1>6. \A i \in D : c[i] = (/\ ModelFile(i) \in DOMAIN files
                           /\ models[i].parent # 0 => models[i].parent \in D /\ c[models[i].parent])
  BY <1>4
<1>7. \A i \in D : models[i].parent = 0 => (c[i] <=> ModelFile(i) \in DOMAIN files)
  BY <1>6
<1>8. c[id] <=> Found(id)
  <2>1. CASE models[id].parent = 0
    BY <1>2, <1>7, <2>1
  <2>2. CASE models[id].parent # 0
    <3> DEFINE j == models[id].parent
    <3>1. j \in D /\ models[j].parent = 0
      BY <1>1, <2>2
    <3>2. c[j] <=> ModelFile(j) \in DOMAIN files
      BY <1>7, <3>1
    <3>3. c[id] <=> (ModelFile(id) \in DOMAIN files /\ c[j])
      BY <1>6, <2>2, <3>1
    <3> QED BY <2>2, <3>2, <3>3 DEF Found
  <2> QED BY <2>1, <2>2
<1> QED BY <1>5, <1>8

LEMMA ReconstructTrained ==
  ASSUME IInv, NEW id \in DOMAIN models, Found(id)
  PROVE  /\ Reconstruct(id) = ModelOf(id)
         /\ models[id].parent = 0 => LoadFull(files[ModelFile(id)]) = ModelOf(id)
         /\ models[id].parent # 0 =>
              LoadDelta(ModelOf(models[id].parent), files[ModelFile(id)]) = ModelOf(id)
<1> DEFINE D == DOMAIN models
           Def(s) == s = [i \in D |->
                            IF models[i].parent = 0 THEN LoadFull(files[ModelFile(i)])
                            ELSE LoadDelta(s[models[i].parent], files[ModelFile(i)])]
           full(i) == LoadFull(files[ModelFile(i)])
           g == [i \in D |-> IF models[i].parent = 0 THEN full(i)
                             ELSE LoadDelta(full(models[i].parent), files[ModelFile(i)])]
           c == CHOOSE s : Def(s)
<1>1. \A i \in D : /\ models[i].pipeline \in Pipelines
                   /\ models[i].trigger \in Triggers(models[i].pipeline)
                   /\ models[i].parent # 0 =>
                        /\ models[i].parent \in D /\ models[models[i].parent].parent = 0
                        /\ models[models[i].parent].pipeline = models[i].pipeline
  BY DEF IInv, Ids, RowsTyped, Rows, ParentsStoredWhole
<1>2. \A i \in D : ModelFile(i) \in DOMAIN files =>
        files[ModelFile(i)] = Content(models[i].pipeline, models[i].trigger, models[i].parent)
  BY DEF IInv, RowsFiled, RowFiled
<1>3. \A i \in D : models[i].parent = 0 /\ ModelFile(i) \in DOMAIN files =>
        LoadFull(files[ModelFile(i)]) = ModelOf(i)
  <2> TAKE i \in D
  <2> HAVE models[i].parent = 0 /\ ModelFile(i) \in DOMAIN files
  <2>1. files[ModelFile(i)] = StoreFull(Trained[models[i].pipeline][models[i].trigger])
    BY <1>2 DEF Content
  <2> QED BY <1>1, <2>1, FullReadBack DEF ModelOf
<1>4. models[id].parent # 0 =>
        LoadDelta(ModelOf(models[id].parent), files[ModelFile(id)]) = ModelOf(id)
  <2> HAVE models[id].parent # 0
  <2> DEFINE j == models[id].parent
  <2>1. j \in D /\ models[j].pipeline = models[id].pipeline /\ models[j].trigger \in Triggers(models[id].pipeline)
    BY <1>1
  <2>2. files[ModelFile(id)] = StoreDelta(Trained[models[id].pipeline][models[id].trigger],
                                          Trained[models[id].pipeline][models[j].trigger])
    BY <1>2 DEF Content, Found
  <2> QED BY <1>1, <2>1, <2>2, DeltaReadBack DEF ModelOf
<1>5. models[id].parent # 0 => LoadFull(files[ModelFile(models[id].parent)]) = ModelOf(models[id].parent)
  BY <1>1, <1>3 DEF Found
<1>6. Def(g)
  <2>1. ASSUME NEW i \in D, models[i].parent # 0
        PROVE  g[models[i].parent] = full(models[i].parent)
    BY <1>1, <2>1
  <2> QED BY <2>1
<1>7. Def(c)
  <2> HIDE DEF g, Def
  <2> QED BY <1>6
<1>8. Reconstruct(id) = c[id]
  BY DEF Reconstruct
<1> HIDE DEF c
<1>9. \A i \in D : c[i] = IF models[i].parent = 0 THEN LoadFull(files[ModelFile(i)])
                          ELSE LoadDelta(c[models[i].parent], files[ModelFile(i)])
  BY <1>7
<1>10. CASE models[id].parent = 0
  BY <1>3, <1>8, <1>9, <1>10 DEF Found
<1>11. CASE models[id].parent # 0
  <2> DEFINE j == models[id].parent
  <2>1. j \in D /\ models[j].parent = 0
    BY <1>1, <1>11
  <2>2. c[j] = LoadFull(files[ModelFile(j)])
    BY <1>9, <2>1
  <2>3. c[id] = LoadDelta(c[j], files[ModelFile(id)])
    BY <1>9, <1>11
  <2> QED BY <1>4, <1>5, <1>8, <1>11, <2>2, <2>3
<1> QED BY <1>10, <1>11
LEMMA IInvTypeOK == IInv => TypeOK
BY DEF IInv, Ids, Registers, RegisterOK, DeleteOK, Fetches, FetchOK, GoodFetch, TypeOK

LEMMA InitIInv == Init => IInv
<1> SUFFICES ASSUME Init PROVE IInv
  OBVIOUS
<1>1. DOMAIN models = {} /\ nextId = 1 /\ accepted = {} /\ undermined = {}
  BY DEF Init
<1>2. Ids /\ RowsTyped /\ RowsDistinct /\ ParentsStoredWhole /\ RowsFiled /\ Condemned
  BY <1>1 DEF Ids, RowsTyped, RowsDistinct, ParentsStoredWhole, RowsFiled, Condemned
<1>3. Registers
  <2> SUFFICES ASSUME NEW p \in Pipelines PROVE RegisterOK(p)
    BY DEF Init, Registers
  <2>1. register[p] = [pc |-> "idle", trigger |-> 0, parent |-> 0, content |-> <<>>]
    BY DEF Init, NoRegister
  <2> QED BY <1>1, <2>1 DEF RegisterOK, ParentOK, ContentOK
<1>4. DeleteOK
  BY DEF Init, DeleteOK, NoDelete
<1>5. Fetches
  <2> SUFFICES ASSUME NEW c \in Clients PROVE FetchOK(c)
    BY DEF Init, Fetches
  <2>1. fetch[c] = [pc |-> "idle", id |-> 0, name |-> <<>>, tries |-> 0, model |-> <<>>, checksum |-> <<>>]
    BY DEF Init, NoFetch
  <2> QED BY <1>1, <2>1 DEF FetchOK, GoodFetch
<1> QED BY <1>2, <1>3, <1>4, <1>5 DEF IInv
-----------------------------------------------------------------------------
(* A request keeps its part of the invariant while the rows it may know of *)
(* are only lost, and its files stay.                                      *)
RowsKept ==
  /\ nextId' \in Nat /\ nextId <= nextId'
  /\ \A id \in DOMAIN models' : id < nextId => id \in DOMAIN models /\ models'[id] = models[id]

LEMMA FetchKept ==
  ASSUME IInv, RowsKept, Ids', NEW c \in Clients, fetch'[c] = fetch[c]
  PROVE  FetchOK(c)'
<1> DEFINE id == fetch[c].id
<1>1. /\ FetchOK(c) /\ id \in Nat /\ nextId \in Nat /\ nextId' \in Nat /\ id < nextId /\ nextId <= nextId'
  BY DEF IInv, Fetches, FetchOK, GoodFetch, RowsKept, Ids
<1>2. id \in DOMAIN models' => /\ id \in DOMAIN models /\ models'[id] = models[id]
                               /\ models[id].parent # 0 =>
                                    models'[models[id].parent] = models[models[id].parent]
  <2> SUFFICES ASSUME id \in DOMAIN models' PROVE
        /\ id \in DOMAIN models /\ models'[id] = models[id]
        /\ models[id].parent # 0 => models'[models[id].parent] = models[models[id].parent]
    OBVIOUS
  <2>1. id \in DOMAIN models /\ models'[id] = models[id]
    BY <1>1 DEF RowsKept
  <2>2. ASSUME models[id].parent # 0
        PROVE  models'[models[id].parent] = models[models[id].parent]
    <3> DEFINE j == models[id].parent
    <3>1. j \in DOMAIN models /\ DOMAIN models \subseteq 1 .. nextId - 1
      BY <2>1, <2>2 DEF IInv, Ids
    <3>2. j \in DOMAIN models' /\ j < nextId
      BY <1>1, <2>1, <2>2, <3>1 DEF Ids
    <3> QED BY <3>2 DEF RowsKept
  <2> QED BY <2>1, <2>2
<1>3. \A m : AsTrained(m, models, id) => AsTrained(m, models', id)
  BY <1>2 DEF AsTrained
<1>4. \A m : BaseOf(m, models, id) => BaseOf(m, models', id)
  BY <1>2 DEF BaseOf
<1> HIDE DEF id
<1>5. fetch[c].id = id
  BY DEF id
<1> QED BY <1>1, <1>3, <1>4, <1>5 DEF FetchOK, GoodFetch

LEMMA RegisterKept ==
  ASSUME IInv, RowsKept, Ids', NEW p \in Pipelines, register'[p] = register[p],
         \A f \in FilesOf([pipeline |-> p, trigger |-> register[p].trigger]) :
           f \in DOMAIN files => f \in DOMAIN files' /\ files'[f] = files[f]
  PROVE  RegisterOK(p)'
<1> DEFINE r == register[p]
<1>1. /\ RegisterOK(p) /\ r.parent \in Nat /\ nextId \in Nat /\ nextId' \in Nat
      /\ r.parent < nextId /\ nextId <= nextId'
  BY DEF IInv, Registers, RegisterOK, RowsKept, Ids
<1>2. r.parent \in DOMAIN models' => r.parent \in DOMAIN models /\ models'[r.parent] = models[r.parent]
  BY <1>1 DEF RowsKept
<1>3. ParentOK(p)'
  BY <1>1, <1>2 DEF RegisterOK, ParentOK
<1>4. ContentOK(p)'
  BY <1>1, <1>2 DEF RegisterOK, ContentOK, Content
<1>5. r.pc = "add" =>
        /\ FilesOf([pipeline |-> p, trigger |-> r.trigger]) \subseteq DOMAIN files'
        /\ files'[<<"model", p, r.trigger>>] = r.content
  <2>1. <<"model", p, r.trigger>> \in FilesOf([pipeline |-> p, trigger |-> r.trigger])
    BY DEF FilesOf
  <2> QED BY <1>1, <2>1 DEF RegisterOK
<1> QED BY <1>1, <1>3, <1>4, <1>5 DEF RegisterOK
LEMMA RegisterStep ==
  ASSUME IInv, NEW p \in Pipelines, NEW r, register' = [register EXCEPT ![p] = r],
         r.trigger \in Nat, register[p].trigger <= r.trigger, RegisterOK(p)',
         UNCHANGED <<models, nextId, files, fetch, delete, hist>>
  PROVE  IInv'
<1>1. /\ DOMAIN register = Pipelines /\ DOMAIN register' = Pipelines /\ register'[p] = r
      /\ \A q \in Pipelines : q # p => register'[q] = register[q]
  BY DEF IInv, Registers
<1>2. /\ models' = models /\ nextId' = nextId /\ files' = files /\ fetch' = fetch /\ delete' = delete
      /\ accepted' = accepted /\ undermined' = undermined
  BY DEF hist
<1>3. Ids' /\ RowsKept
  BY <1>2 DEF IInv, Ids, RowsKept
<1>4. RowsTyped'
  <2> SUFFICES ASSUME NEW id \in DOMAIN models
               PROVE  /\ models[id] \in Rows /\ models[id].trigger \in Triggers(models[id].pipeline)
                      /\ models[id].trigger < register'[models[id].pipeline].trigger
    BY <1>2 DEF RowsTyped
  <2>1. /\ models[id] \in Rows /\ models[id].trigger \in Triggers(models[id].pipeline)
        /\ models[id].trigger < register[models[id].pipeline].trigger
    BY DEF IInv, RowsTyped
  <2>2. models[id].pipeline \in Pipelines /\ models[id].trigger \in Nat
    BY <2>1 DEF Rows
  <2>3. register[p].trigger \in Nat
    BY DEF IInv, Registers, RegisterOK
  <2> QED BY <1>1, <2>1, <2>2, <2>3
<1>5. RowsDistinct' /\ ParentsStoredWhole' /\ RowsFiled' /\ DeleteOK' /\ Condemned'
  BY <1>2 DEF IInv, RowsDistinct, ParentsStoredWhole, RowsFiled, RowFiled, ModelFile, Content,
              DeleteOK, Condemned
<1>6. Registers'
  <2>1. ASSUME NEW q \in Pipelines, q # p
        PROVE  RegisterOK(q)'
    BY <1>1, <1>2, <1>3, <2>1, RegisterKept
  <2> QED BY <1>1, <2>1 DEF Registers
<1>7. Fetches'
  <2>1. ASSUME NEW c \in Clients
        PROVE  FetchOK(c)'
    BY <1>2, <1>3, FetchKept
  <2> QED BY <1>2, <2>1 DEF IInv, Fetches
<1> QED BY <1>3, <1>4, <1>5, <1>6, <1>7 DEF IInv

(* A request that ended, or one that only begins.                          *)
LEMMA FreshRegister ==
  ASSUME NEW p \in Pipelines, NEW t \in Nat, register'[p] = NoRegister(t), Ids'
  PROVE  RegisterOK(p)'
<1>1. register'[p] = [pc |-> "idle", trigger |-> t, parent |-> 0, content |-> <<>>]
  BY DEF NoRegister
<1>2. 0 \notin DOMAIN models' /\ nextId' \in Nat /\ 0 < nextId'
  BY DEF Ids
<1> QED BY <1>1, <1>2 DEF RegisterOK, ParentOK, ContentOK

LEMMA RegisterModelStep ==
  ASSUME IInv, NEW p \in Pipelines, RegisterModel(p)
  PROVE  IInv'
<1> DEFINE q == register[p]
<1>1. /\ q \in [pc : {q.pc}, trigger : Nat, parent : Nat, content : {q.content}]
      /\ DOMAIN register = Pipelines /\ RegisterOK(p) /\ q.pc = "idle" /\ q.trigger \in Triggers(p)
      /\ UNCHANGED <<models, nextId, files, fetch, delete, hist>>
  BY DEF IInv, Registers, RegisterOK, RegisterModel
<1>2. Ids'
  BY <1>1 DEF IInv, Ids
<1>3. CASE register' = [register EXCEPT ![p].pc = "downloaded"]
  <2> DEFINE r == [q EXCEPT !.pc = "downloaded"]
  <2>1. /\ r.pc = "downloaded" /\ r.trigger = q.trigger /\ r.parent = q.parent
        /\ r \in [pc : {"downloaded"}, trigger : Nat, parent : Nat, content : {r.content}]
    BY <1>1
  <2>2. register' = [register EXCEPT ![p] = r] /\ register'[p] = r
    BY <1>1, <1>3
  <2> HIDE DEF r
  <2>3. RegisterOK(p)'
    BY <1>1, <2>1, <2>2 DEF RegisterOK, ParentOK, ContentOK
  <2>4. r.trigger \in Nat /\ q.trigger <= r.trigger
    BY <1>1, <2>1
  <2> QED BY <1>1, <2>2, <2>3, <2>4, RegisterStep
<1>4. CASE register' = [register EXCEPT ![p] = NoRegister(@.trigger + 1)]
  <2> DEFINE t == q.trigger + 1
             r == NoRegister(t)
  <2>1. t \in Nat /\ r.trigger = t /\ q.trigger <= t
    BY <1>1 DEF NoRegister
  <2>2. register' = [register EXCEPT ![p] = r] /\ register'[p] = r
    BY <1>1, <1>4
  <2> HIDE DEF t
  <2>3. RegisterOK(p)'
    BY <1>2, <2>1, <2>2, FreshRegister
  <2> HIDE DEF r
  <2> QED BY <1>1, <2>1, <2>2, <2>3, RegisterStep
<1> QED BY <1>3, <1>4 DEF RegisterModel

(* The parent that is found: in full, of the pipeline, and earlier.        *)
LEMMA ParentDetermined ==
  ASSUME IInv, NEW p \in Pipelines, NEW t \in Nat, DetermineParent(p, t) # 0
  PROVE  LET j == DetermineParent(p, t)
         IN /\ j \in DOMAIN models /\ models[j].parent = 0
            /\ models[j].pipeline = p /\ models[j].trigger < t
<1> DEFINE previous == {id \in DOMAIN models : models[id].pipeline = p /\ models[id].trigger = t - 1}
           one == CHOOSE id \in previous : TRUE
<1>1. previous # {} /\ DetermineParent(p, t) = IF models[one].parent = 0 THEN one ELSE models[one].parent
  BY DEF DetermineParent
<1>2. one \in previous
  <2> HIDE DEF previous
  <2> QED BY <1>1
<1> HIDE DEF one
<1>3. one \in DOMAIN models /\ models[one].pipeline = p /\ models[one].trigger = t - 1
  BY <1>2
<1>4. models[one].parent # 0 =>
        LET j == models[one].parent
        IN /\ j \in DOMAIN models /\ models[j].parent = 0 /\ models[j].trigger \in Nat
           /\ models[j].pipeline = p /\ models[j].trigger < t - 1
  BY <1>3 DEF IInv, Ids, RowsTyped, Rows, ParentsStoredWhole
<1> QED BY <1>1, <1>3, <1>4

LEMMA HandleNewModelStep ==
  ASSUME IInv, NEW p \in Pipelines, HandleNewModel(p)
  PROVE  IInv'
<1> DEFINE q == register[p]
           t == q.trigger
           parent == IF Incremental(t) THEN DetermineParent(p, t) ELSE 0
           r == IF parent # 0 THEN [q EXCEPT !.pc = "parent", !.parent = parent]
                ELSE [q EXCEPT !.pc = "write", !.content = StoreFull(Trained[p][t])]
<1>1. /\ q \in [pc : {q.pc}, trigger : Nat, parent : Nat, content : {q.content}]
      /\ DOMAIN register = Pipelines /\ q.pc = "downloaded" /\ t \in Triggers(p) /\ q.parent = 0
      /\ models' = models /\ nextId' = nextId /\ files' = files
      /\ UNCHANGED <<models, nextId, files, fetch, delete, hist>>
  BY DEF IInv, Registers, RegisterOK, HandleNewModel
<1>2. register' = [register EXCEPT ![p] = r] /\ register'[p] = r
  BY <1>1 DEF HandleNewModel
<1>3. t \in Nat /\ nextId \in Nat /\ 0 < nextId /\ 0 \notin DOMAIN models /\ DOMAIN models \subseteq 1 .. nextId - 1
  BY <1>1 DEF IInv, Ids
<1>4. CASE parent # 0
  <2>1. /\ parent \in DOMAIN models /\ models[parent].parent = 0
        /\ models[parent].pipeline = p /\ models[parent].trigger < t
    BY <1>3, <1>4, ParentDetermined
  <2>2. /\ r.pc = "parent" /\ r.trigger = t /\ r.parent = parent
        /\ r \in [pc : {"parent"}, trigger : Nat, parent : Nat, content : {r.content}]
    <3>1. r = [q EXCEPT !.pc = "parent", !.parent = parent]
      BY <1>4
    <3>2. parent \in Nat
      BY <1>3, <2>1
    <3> HIDE DEF parent, r
    <3> QED BY <1>1, <3>1, <3>2
  <2>3. parent < nextId
    BY <1>3, <2>1
  <2> HIDE DEF r, parent
  <2>4. RegisterOK(p)'
    BY <1>1, <1>2, <1>3, <1>4, <2>1, <2>2, <2>3 DEF RegisterOK, ParentOK, ContentOK
  <2>5. r.trigger \in Nat /\ q.trigger <= r.trigger
    BY <1>3, <2>2
  <2> QED BY <1>1, <1>2, <2>4, <2>5, RegisterStep
<1>5. CASE parent = 0
  <2>1. r = [q EXCEPT !.pc = "write", !.content = StoreFull(Trained[p][t])]
    BY <1>5
  <2> HIDE DEF r, parent
  <2>2. /\ r.pc = "write" /\ r.trigger = t /\ r.parent = 0 /\ r.content = StoreFull(Trained[p][t])
        /\ r \in [pc : {"write"}, trigger : Nat, parent : Nat, content : {r.content}]
    BY <1>1, <2>1
  <2>3. RegisterOK(p)'
    BY <1>1, <1>2, <1>3, <2>2 DEF RegisterOK, ParentOK, ContentOK, Content
  <2>4. r.trigger \in Nat /\ q.trigger <= r.trigger
    BY <1>3, <2>2
  <2> QED BY <1>1, <1>2, <2>3, <2>4, RegisterStep
<1> QED BY <1>4, <1>5

LEMMA StoreDifferenceStep ==
  ASSUME IInv, NEW p \in Pipelines, StoreDifference(p)
  PROVE  IInv'
<1> DEFINE q == register[p]
           t == q.trigger
           new == StoreDelta(Trained[p][t], Reconstruct(q.parent))
<1>1. /\ q \in [pc : {q.pc}, trigger : Nat, parent : Nat, content : {q.content}]
      /\ DOMAIN register = Pipelines /\ RegisterOK(p) /\ q.pc = "parent" /\ t \in Triggers(p)
      /\ t \in Nat /\ q.parent # 0
      /\ models' = models /\ nextId' = nextId /\ files' = files
      /\ UNCHANGED <<models, nextId, files, fetch, delete, hist>>
  BY DEF IInv, Registers, RegisterOK, StoreDifference
<1>2. Ids'
  BY <1>1 DEF IInv, Ids
<1>3. CASE ~Readable(q.parent)
  <2> DEFINE u == t + 1
             r == NoRegister(u)
  <2>1. u \in Nat /\ r.trigger = u /\ q.trigger <= u
    BY <1>1 DEF NoRegister
  <2>2. register' = [register EXCEPT ![p] = r] /\ register'[p] = r
    BY <1>1, <1>3 DEF StoreDifference
  <2> HIDE DEF u
  <2>3. RegisterOK(p)'
    BY <1>2, <2>1, <2>2, FreshRegister
  <2> HIDE DEF r
  <2> QED BY <1>1, <2>1, <2>2, <2>3, RegisterStep
<1>4. CASE Readable(q.parent)
  <2>1. q.parent \in DOMAIN models
    BY <1>4 DEF Readable
  <2>2. Reconstruct(q.parent) = ModelOf(q.parent)
    BY <1>4, <2>1, ReadableFound, ReconstructTrained
  <2>3. /\ models[q.parent].parent = 0 /\ models[q.parent].pipeline = p
        /\ models[q.parent].trigger < t
    BY <1>1, <2>1 DEF RegisterOK, ParentOK
  <2>4. new = Content(p, t, q.parent)
    BY <1>1, <2>2, <2>3 DEF Content, ModelOf
  <2> DEFINE r == [q EXCEPT !.pc = "write", !.content = new]
  <2>5. register' = [register EXCEPT ![p] = r] /\ register'[p] = r
    BY <1>1, <1>4 DEF StoreDifference
  <2> HIDE DEF new
  <2>6. /\ r.pc = "write" /\ r.trigger = t /\ r.parent = q.parent /\ r.content = new
        /\ r \in [pc : {"write"}, trigger : Nat, parent : Nat, content : {r.content}]
    BY <1>1
  <2> HIDE DEF r
  <2>7. RegisterOK(p)'
    BY <1>1, <2>4, <2>5, <2>6 DEF RegisterOK, ParentOK, ContentOK, Content
  <2>8. r.trigger \in Nat /\ q.trigger <= r.trigger
    BY <1>1, <2>6
  <2> QED BY <1>1, <2>5, <2>7, <2>8, RegisterStep
<1> QED BY <1>3, <1>4
(* The files of a trigger are its own.                                     *)
LEMMA FilesApart ==
  ASSUME NEW m, NEW n, m.pipeline # n.pipeline \/ m.trigger # n.trigger
  PROVE  FilesOf(m) \cap FilesOf(n) = {}
BY DEF FilesOf

LEMMA WriteModelStep ==
  ASSUME IInv, NEW p \in Pipelines, WriteModel(p)
  PROVE  IInv'
<1> DEFINE q == register[p]
           t == q.trigger
           key == [pipeline |-> p, trigger |-> t]
           file == <<"model", p, t>>
           meta == <<"metadata", p, t>>
           r == [q EXCEPT !.pc = "add"]
<1>1. /\ q \in [pc : {q.pc}, trigger : Nat, parent : Nat, content : {q.content}]
      /\ DOMAIN register = Pipelines /\ RegisterOK(p) /\ q.pc = "write" /\ t \in Triggers(p)
      /\ t \in Nat
      /\ models' = models /\ nextId' = nextId /\ fetch' = fetch /\ delete' = delete
      /\ accepted' = accepted /\ undermined' = undermined
      /\ register' = [register EXCEPT ![p] = r]
  BY DEF IInv, Registers, RegisterOK, WriteModel, hist
<1>2. /\ FilesOf(key) = {file, meta} /\ file # meta /\ key.pipeline = p /\ key.trigger = t
  BY DEF FilesOf
<1>3. /\ DOMAIN files' = DOMAIN files \cup {file, meta} /\ files'[file] = q.content
      /\ \A f \in DOMAIN files \ {file, meta} : files'[f] = files[f]
  <2>1. files' = With(With(files, file, q.content), meta, <<>>)
    BY DEF WriteModel
  <2> HIDE DEF file, meta, q
  <2> DEFINE w == With(files, file, q.content)
  <2>3. /\ DOMAIN w = DOMAIN files \cup {file} /\ w[file] = q.content
        /\ \A f \in DOMAIN files \ {file} : w[f] = files[f]
    BY DEF With
  <2>2. files' = With(w, meta, <<>>)
    BY <2>1
  <2> HIDE DEF w
  <2>4. /\ DOMAIN files' = DOMAIN w \cup {meta}
        /\ \A f \in DOMAIN w \ {meta} : files'[f] = w[f]
    BY <2>2 DEF With
  <2>5. file \in DOMAIN w \ {meta} /\ \A f \in DOMAIN files \ {file, meta} : f \in DOMAIN w \ {meta}
    BY <1>2, <2>3
  <2> QED BY <2>3, <2>4, <2>5
<1> HIDE DEF file, meta
<1>4. Ids' /\ RowsKept
  BY <1>1 DEF IInv, Ids, RowsKept
<1>5. /\ r.pc = "add" /\ r.trigger = t /\ r.parent = q.parent /\ r.content = q.content
      /\ r \in [pc : {"add"}, trigger : Nat, parent : Nat, content : {r.content}]
      /\ register'[p] = r /\ DOMAIN register' = Pipelines
      /\ \A o \in Pipelines : o # p => register'[o] = register[o]
  BY <1>1
<1> HIDE DEF r
<1>6. \A id \in DOMAIN models : FilesOf(models[id]) \cap {file, meta} = {}
  <2> TAKE id \in DOMAIN models
  <2>1. models[id].pipeline # key.pipeline \/ models[id].trigger # key.trigger
    <3>1. models[id] \in Rows /\ models[id].trigger < register[models[id].pipeline].trigger
      BY DEF IInv, RowsTyped
    <3>2. models[id].trigger \in Nat
      BY <3>1 DEF Rows
    <3> QED BY <1>1, <1>2, <3>1, <3>2
  <2> HIDE DEF key
  <2> QED BY <1>2, <2>1, FilesApart
<1>7. \A id \in DOMAIN models : ModelFile(id) \in FilesOf(models[id])
  BY DEF ModelFile, FilesOf
<1>8. RowsFiled'
  <2> SUFFICES ASSUME NEW id \in DOMAIN models PROVE RowFiled(id)'
    BY <1>1 DEF RowsFiled
  <2>1. RowFiled(id)
    BY DEF IInv, RowsFiled
  <2>2. ModelFile(id)' = ModelFile(id) /\ ModelFile(id) \notin {file, meta}
    BY <1>1, <1>6, <1>7 DEF ModelFile
  <2>3. ModelFile(id) \in DOMAIN files' => ModelFile(id) \in DOMAIN files /\ files'[ModelFile(id)] = files[ModelFile(id)]
    BY <1>3, <2>2
  <2> QED BY <1>1, <1>3, <2>1, <2>2, <2>3 DEF RowFiled, Content
<1>9. RowsTyped' /\ RowsDistinct' /\ ParentsStoredWhole' /\ Condemned'
  <2>1. \A o \in Pipelines : register'[o].trigger = register[o].trigger
    BY <1>1, <1>5
  <2> QED BY <1>1, <2>1 DEF IInv, RowsTyped, Rows, RowsDistinct, ParentsStoredWhole, Condemned
<1>10. DeleteOK'
  <2> SUFFICES ASSUME delete.pc = "row" PROVE ModelFile(delete.id)' \notin DOMAIN files'
    BY <1>1 DEF IInv, DeleteOK
  <2>1. delete.id \in DOMAIN models /\ ModelFile(delete.id) \notin DOMAIN files
    BY DEF IInv, DeleteOK
  <2>2. ModelFile(delete.id)' = ModelFile(delete.id)
    BY <1>1 DEF ModelFile
  <2> QED BY <1>3, <1>6, <1>7, <2>1, <2>2
<1>11. Registers'
  <2>1. ASSUME NEW o \in Pipelines, o # p
        PROVE  RegisterOK(o)'
    <3> DEFINE other == [pipeline |-> o, trigger |-> register[o].trigger]
    <3>1. other.pipeline # key.pipeline
      BY <2>1
    <3> HIDE DEF other, key
    <3>2. FilesOf(other) \cap {file, meta} = {}
      BY <1>2, <3>1, FilesApart
    <3>3. \A f \in FilesOf(other) : f \in DOMAIN files => f \in DOMAIN files' /\ files'[f] = files[f]
      BY <1>3, <3>2
    <3> QED BY <1>4, <1>5, <2>1, <3>3, RegisterKept DEF other
  <2>2. RegisterOK(p)'
    <3>1. FilesOf([pipeline |-> p, trigger |-> register'[p].trigger]) \subseteq DOMAIN files'
      BY <1>2, <1>3, <1>5
    <3>2. files'[<<"model", p, register'[p].trigger>>] = q.content
      BY <1>3, <1>5 DEF file
    <3> QED BY <1>1, <1>5, <3>1, <3>2 DEF RegisterOK, ParentOK, ContentOK, Content
  <2> QED BY <1>5, <2>1, <2>2 DEF Registers
<1>12. Fetches'
  <2>1. ASSUME NEW c \in Clients
        PROVE  FetchOK(c)'
    BY <1>1, <1>4, FetchKept
  <2> QED BY <1>1, <2>1 DEF IInv, Fetches
<1> QED BY <1>4, <1>8, <1>9, <1>10, <1>11, <1>12 DEF IInv

LEMMA AddTrainedModelStep ==
  ASSUME IInv, NEW p \in Pipelines, AddTrainedModel(p)
  PROVE  IInv'
<1> DEFINE q == register[p]
           t == q.trigger
           u == t + 1
           r == NoRegister(u)
           row == [pipeline |-> p, trigger |-> t, parent |-> q.parent]
<1>1. /\ DOMAIN register = Pipelines /\ RegisterOK(p) /\ q.pc = "add" /\ t \in Triggers(p)
      /\ t \in Nat /\ q.parent \in Nat
      /\ files' = files /\ fetch' = fetch /\ delete' = delete /\ accepted' = accepted
      /\ register' = [register EXCEPT ![p] = r]
  BY DEF IInv, Registers, RegisterOK, AddTrainedModel
<1>2. u \in Nat /\ r.trigger = u /\ t < u
  BY <1>1 DEF NoRegister
<1>3. /\ register'[p] = r /\ DOMAIN register' = Pipelines
      /\ \A o \in Pipelines : o # p => register'[o] = register[o]
  BY <1>1
<1> HIDE DEF u
<1>4. CASE q.parent \notin DOMAIN models \cup {0}
  <2>1. UNCHANGED <<models, nextId, files, fetch, delete, hist>>
    BY <1>1, <1>4 DEF AddTrainedModel, hist
  <2>2. Ids'
    BY <2>1 DEF IInv, Ids
  <2>3. RegisterOK(p)'
    BY <1>2, <1>3, <2>2, FreshRegister
  <2>4. r.trigger \in Nat /\ q.trigger <= r.trigger
    BY <1>1, <1>2
  <2> HIDE DEF r
  <2> QED BY <1>1, <2>1, <2>3, <2>4, RegisterStep
<1>5. CASE q.parent \in DOMAIN models \cup {0}
  <2>1. /\ models' = With(models, nextId, row) /\ nextId' = nextId + 1
        /\ undermined' = undermined \cup {id \in {nextId} : q.parent \in accepted}
    BY <1>5 DEF AddTrainedModel
  <2>2. nextId \in Nat \ {0} /\ nextId \notin DOMAIN models /\ DOMAIN models \subseteq 1 .. nextId - 1
    BY DEF IInv, Ids
  <2>3. /\ DOMAIN models' = DOMAIN models \cup {nextId} /\ models'[nextId] = row
        /\ \A id \in DOMAIN models : models'[id] = models[id]
    BY <2>1, <2>2 DEF With
  <2>4. row \in Rows /\ row.pipeline = p /\ row.trigger = t /\ row.parent = q.parent
    BY <1>1 DEF Rows
  <2> HIDE DEF row, r
  <2>5. /\ Ids' /\ RowsKept
    <3>1. nextId' \in Nat \ {0} /\ DOMAIN models' \subseteq 1 .. nextId' - 1
      BY <2>1, <2>2, <2>3
    <3>2. \A id \in DOMAIN models' : models'[id].parent \in DOMAIN models' \cup {0}
      BY <1>5, <2>3, <2>4 DEF IInv, Ids
    <3>3. RowsKept
      BY <2>1, <2>2, <2>3 DEF RowsKept
    <3> QED BY <3>1, <3>2, <3>3 DEF Ids
  <2>6. \A id \in DOMAIN models :
          /\ models[id] \in Rows /\ models[id].trigger \in Triggers(models[id].pipeline)
          /\ models[id].trigger < register[models[id].pipeline].trigger
          /\ models[id].trigger \in Nat /\ models[id].pipeline \in Pipelines
          /\ models[id].parent \in DOMAIN models \cup {0}
    BY DEF IInv, Ids, RowsTyped, Rows
  <2>7. RowsTyped'
    <3> SUFFICES ASSUME NEW id \in DOMAIN models'
                 PROVE  /\ models'[id] \in Rows /\ models'[id].trigger \in Triggers(models'[id].pipeline)
                        /\ models'[id].trigger < register'[models'[id].pipeline].trigger
      BY DEF RowsTyped
    <3>1. CASE id = nextId
      BY <1>1, <1>2, <1>3, <2>3, <2>4, <3>1
    <3>2. CASE id \in DOMAIN models
      <4>1. models'[id] = models[id]
        BY <2>3, <3>2
      <4>2. register[models[id].pipeline].trigger <= register'[models[id].pipeline].trigger
        <5>1. register[models[id].pipeline].trigger \in Nat
          BY <2>6, <3>2 DEF IInv, Registers, RegisterOK
        <5> QED BY <1>1, <1>2, <1>3, <2>6, <3>2, <5>1
      <4>3. /\ register[models[id].pipeline].trigger \in Nat
            /\ register'[models[id].pipeline].trigger \in Nat
        <5>1. register[models[id].pipeline].trigger \in Nat
          BY <2>6, <3>2 DEF IInv, Registers, RegisterOK
        <5> QED BY <1>2, <1>3, <2>6, <3>2, <5>1
      <4> QED BY <2>6, <3>2, <4>1, <4>2, <4>3
    <3> QED BY <2>3, <3>1, <3>2
  <2>8. \A id \in DOMAIN models : models[id].pipeline # p \/ models[id].trigger # t
    BY <1>1, <2>6
  <2>9. RowsDistinct'
    BY <2>3, <2>4, <2>8 DEF IInv, RowsDistinct
  <2>10. ParentsStoredWhole'
    <3>1. q.parent # 0 => /\ q.parent \in DOMAIN models /\ models[q.parent].parent = 0
                          /\ models[q.parent].pipeline = p /\ models[q.parent].trigger < t
      BY <1>1, <1>5 DEF RegisterOK, ParentOK
    <3> SUFFICES ASSUME NEW id \in DOMAIN models', models'[id].parent # 0
                 PROVE  /\ models'[models'[id].parent].parent = 0
                        /\ models'[models'[id].parent].pipeline = models'[id].pipeline
                        /\ models'[models'[id].parent].trigger < models'[id].trigger
      BY DEF ParentsStoredWhole
    <3>2. CASE id = nextId
      BY <2>3, <2>4, <3>1, <3>2
    <3>3. CASE id \in DOMAIN models
      <4>1. models'[id] = models[id] /\ models[id].parent \in DOMAIN models
        BY <2>3, <2>6, <3>3
      <4>2. models'[models[id].parent] = models[models[id].parent]
        BY <2>3, <4>1
      <4> QED BY <3>3, <4>1, <4>2 DEF IInv, ParentsStoredWhole
    <3> QED BY <2>3, <3>2, <3>3
  <2>11. RowsFiled'
    <3> SUFFICES ASSUME NEW id \in DOMAIN models' PROVE RowFiled(id)'
      BY DEF RowsFiled
    <3>1. CASE id = nextId
      <4>1. /\ FilesOf([pipeline |-> p, trigger |-> t]) \subseteq DOMAIN files
            /\ files[<<"model", p, t>>] = q.content /\ q.content = Content(p, t, q.parent)
        BY <1>1, <1>5 DEF RegisterOK, ContentOK
      <4>2. FilesOf(models'[id]) = FilesOf([pipeline |-> p, trigger |-> t])
        BY <2>3, <2>4, <3>1 DEF FilesOf
      <4>3. ModelFile(id)' = <<"model", p, t>>
        BY <2>3, <2>4, <3>1 DEF ModelFile
      <4>4. q.content = IF q.parent = 0 THEN StoreFull(Trained[p][t])
                        ELSE StoreDelta(Trained[p][t], Trained[p][models'[q.parent].trigger])
        BY <1>5, <2>3, <4>1 DEF Content
      <4>5. files'[ModelFile(id)'] = q.content /\ models'[id] = row
        BY <1>1, <2>3, <3>1, <4>1, <4>3
      <4> QED BY <1>1, <2>4, <4>1, <4>2, <4>4, <4>5 DEF RowFiled, Content
    <3>2. CASE id \in DOMAIN models
      <4>1. models'[id] = models[id] /\ models[id].parent \in DOMAIN models \cup {0}
        BY <2>3, <2>6, <3>2
      <4>2. models[id].parent # 0 => models'[models[id].parent] = models[models[id].parent]
        BY <2>3, <4>1
      <4>3. RowFiled(id) /\ ModelFile(id)' = ModelFile(id)
        BY <3>2, <4>1 DEF IInv, RowsFiled, ModelFile
      <4> QED BY <1>1, <4>1, <4>2, <4>3 DEF RowFiled, Content
    <3> QED BY <2>3, <3>1, <3>2
  <2>12. Registers'
    <3>1. RegisterOK(p)'
      BY <1>2, <1>3, <2>5, FreshRegister DEF r
    <3>2. ASSUME NEW o \in Pipelines, o # p
          PROVE  RegisterOK(o)'
      BY <1>1, <1>3, <2>5, <3>2, RegisterKept
    <3> QED BY <1>3, <3>1, <3>2 DEF Registers
  <2>13. DeleteOK'
    <3>1. delete.pc # "idle" => /\ delete.id \in DOMAIN models'
                                /\ ModelFile(delete.id)' = ModelFile(delete.id)
      BY <1>1, <2>3 DEF IInv, DeleteOK, ModelFile
    <3> QED BY <1>1, <3>1 DEF IInv, DeleteOK
  <2>14. Condemned'
    <3>1. accepted \cup undermined \subseteq 1 .. nextId - 1
      BY DEF IInv, Condemned
    <3>2. accepted' \cup undermined' \subseteq 1 .. nextId' - 1
      BY <1>1, <2>1, <2>2, <3>1
    <3>3. ASSUME NEW id \in DOMAIN models', models'[id].parent \in accepted'
          PROVE  id \in accepted' \cup undermined'
      <4>1. CASE id = nextId
        BY <1>1, <2>1, <2>3, <2>4, <3>3, <4>1
      <4>2. CASE id \in DOMAIN models
        BY <1>1, <2>1, <2>3, <3>3, <4>2 DEF IInv, Condemned
      <4> QED BY <2>3, <4>1, <4>2
    <3> QED BY <3>2, <3>3 DEF Condemned
  <2>15. Fetches'
    <3>1. ASSUME NEW c \in Clients
          PROVE  FetchOK(c)'
      BY <1>1, <2>5, FetchKept
    <3> QED BY <1>1, <3>1 DEF IInv, Fetches
  <2> QED BY <2>5, <2>7, <2>9, <2>10, <2>11, <2>12, <2>13, <2>14, <2>15 DEF IInv
<1> QED BY <1>4, <1>5
-----------------------------------------------------------------------------
LEMMA FetchStep ==
  ASSUME IInv, NEW c \in Clients, NEW f, fetch' = [fetch EXCEPT ![c] = f],
         GoodFetch(f, models, nextId),
         UNCHANGED <<models, nextId, files, register, delete, hist>>
  PROVE  IInv'
<1>1. /\ models' = models /\ nextId' = nextId /\ files' = files /\ register' = register
      /\ delete' = delete /\ accepted' = accepted /\ undermined' = undermined
  BY DEF hist
<1>2. Ids' /\ RowsTyped' /\ RowsDistinct' /\ ParentsStoredWhole' /\ RowsKept
  BY <1>1 DEF IInv, Ids, RowsTyped, RowsDistinct, ParentsStoredWhole, RowsKept
<1>3. RowsFiled' /\ DeleteOK' /\ Condemned'
  BY <1>1 DEF IInv, RowsFiled, RowFiled, ModelFile, Content, DeleteOK, Condemned
<1>4. Registers'
  <2>1. ASSUME NEW p \in Pipelines
        PROVE  RegisterOK(p)'
    BY <1>1, <1>2, RegisterKept
  <2> QED BY <1>1, <2>1 DEF IInv, Registers
<1>5. Fetches'
  <2>1. DOMAIN fetch = Clients /\ \A d \in Clients : FetchOK(d)
    BY DEF IInv, Fetches
  <2>2. fetch'[c] = f /\ DOMAIN fetch' = Clients /\ \A d \in Clients : d # c => fetch'[d] = fetch[d]
    BY <2>1
  <2> QED BY <1>1, <2>1, <2>2 DEF Fetches, FetchOK
<1> QED BY <1>2, <1>3, <1>4, <1>5 DEF IInv

(* A request that fails knows nothing.                                     *)
LEMMA FetchFails ==
  ASSUME IInv, NEW c \in Clients
  PROVE  GoodFetch(Failed(c), models, nextId)
<1> DEFINE f == Failed(c)
<1>1. FetchOK(c)
  BY DEF IInv, Fetches
<1>2. /\ f.pc = "failed" /\ f.id = fetch[c].id
      /\ f \in [pc : {"failed"}, id : Nat, name : {f.name}, tries : {f.tries},
                model : {f.model}, checksum : {f.checksum}]
  BY <1>1 DEF FetchOK, GoodFetch, Failed
<1> HIDE DEF f
<1>3. GoodFetch(f, models, nextId)
  BY <1>1, <1>2 DEF FetchOK, GoodFetch
<1> QED BY <1>3 DEF f

LEMMA FetchRetries ==
  ASSUME IInv, NEW c \in Clients, fetch[c].pc \in {"download", "remove"}
  PROVE  GoodFetch(Retry(c), models, nextId)
<1> DEFINE f == [fetch[c] EXCEPT !.tries = @ + 1]
<1>1. FetchOK(c)
  BY DEF IInv, Fetches
<1>2. /\ f.pc = fetch[c].pc /\ f.id = fetch[c].id /\ f.model = fetch[c].model
      /\ f.checksum = fetch[c].checksum
      /\ f \in [pc : {fetch[c].pc}, id : Nat, name : {f.name}, tries : {f.tries},
                model : {f.model}, checksum : {f.checksum}]
  BY <1>1 DEF FetchOK, GoodFetch
<1> HIDE DEF f
<1>3. GoodFetch(f, models, nextId)
  BY <1>1, <1>2 DEF FetchOK, GoodFetch
<1> QED BY <1>3, FetchFails DEF f, Retry

LEMMA FetchModelStep ==
  ASSUME IInv, NEW c \in Clients, NEW id \in 1 .. nextId - 1, FetchModel(c, id)
  PROVE  IInv'
<1> DEFINE f == [NoFetch EXCEPT !.pc = IF id \in DOMAIN models THEN "base" ELSE "failed", !.id = id]
<1>1. fetch' = [fetch EXCEPT ![c] = f] /\ UNCHANGED <<models, nextId, files, register, delete, hist>>
  BY DEF FetchModel, SetFetch
<1>2. nextId \in Nat /\ id \in Nat /\ id < nextId
  BY DEF IInv, Ids
<1>3. f.pc \in {"base", "failed"} /\ f.id = id
  BY DEF NoFetch
<1>4. f \in [pc : {"base", "failed"}, id : Nat, name : {f.name}, tries : {f.tries},
             model : {f.model}, checksum : {f.checksum}]
  BY <1>2 DEF NoFetch
<1> HIDE DEF f
<1>5. GoodFetch(f, models, nextId)
  BY <1>2, <1>3, <1>4 DEF GoodFetch
<1> QED BY <1>1, <1>5, FetchStep

(* A row's model as it was trained, for a retrieval.                       *)
LEMMA RowAsTrained ==
  ASSUME IInv, NEW id \in DOMAIN models
  PROVE  AsTrained(ModelOf(id), models, id)
<1>1. models[id].pipeline \in Pipelines /\ models[id].trigger \in Triggers(models[id].pipeline)
  BY DEF IInv, RowsTyped, Rows
<1> QED BY <1>1 DEF AsTrained, ModelOf

LEMMA LoadBaseStep ==
  ASSUME IInv, NEW c \in Clients, LoadBase(c)
  PROVE  IInv'
<1> DEFINE id == fetch[c].id
           parent == models[id].parent
           read == IF parent = 0 THEN id ELSE parent
           full == [fetch[c] EXCEPT !.pc = "serve", !.model = LoadFull(files[ModelFile(id)])]
           base == [fetch[c] EXCEPT !.pc = "delta", !.model = Reconstruct(parent)]
<1>1. /\ UNCHANGED <<models, nextId, files, register, delete, hist>>
      /\ fetch' = [fetch EXCEPT ![c] = IF id \notin DOMAIN models \/ ~Readable(read) THEN Failed(c)
                                       ELSE IF parent = 0 THEN full ELSE base]
  BY DEF LoadBase, SetFetch
<1>2. FetchOK(c)
  BY DEF IInv, Fetches
<1>3. CASE id \notin DOMAIN models \/ ~Readable(read)
  <2>1. fetch' = [fetch EXCEPT ![c] = Failed(c)]
    BY <1>1, <1>3
  <2> QED BY <1>1, <2>1, FetchFails, FetchStep
<1>4. CASE id \in DOMAIN models /\ Readable(read) /\ parent = 0
  <2>1. fetch' = [fetch EXCEPT ![c] = full]
    BY <1>1, <1>4
  <2>2. LoadFull(files[ModelFile(id)]) = ModelOf(id)
    BY <1>4, ReadableFound, ReconstructTrained
  <2>3. AsTrained(LoadFull(files[ModelFile(id)]), models, id)
    BY <1>4, <2>2, RowAsTrained
  <2>4. /\ full.pc = "serve" /\ full.id = id /\ full.model = LoadFull(files[ModelFile(id)])
        /\ full \in [pc : {"serve"}, id : Nat, name : {full.name}, tries : {full.tries},
                     model : {full.model}, checksum : {full.checksum}]
    BY <1>2 DEF FetchOK, GoodFetch
  <2> HIDE DEF full
  <2>5. GoodFetch(full, models, nextId)
    BY <1>2, <2>3, <2>4 DEF FetchOK, GoodFetch
  <2> QED BY <1>1, <2>1, <2>5, FetchStep
<1>5. CASE id \in DOMAIN models /\ Readable(read) /\ parent # 0
  <2>1. fetch' = [fetch EXCEPT ![c] = base]
    BY <1>1, <1>5
  <2>2. parent \in DOMAIN models /\ models[parent].pipeline = models[id].pipeline
    BY <1>5 DEF IInv, Ids, ParentsStoredWhole
  <2>3. Reconstruct(parent) = ModelOf(parent)
    BY <1>5, <2>2, ReadableFound, ReconstructTrained
  <2>4. BaseOf(Reconstruct(parent), models, id)
    BY <1>5, <2>2, <2>3 DEF BaseOf, ModelOf
  <2>5. /\ base.pc = "delta" /\ base.id = id /\ base.model = Reconstruct(parent)
        /\ base \in [pc : {"delta"}, id : Nat, name : {base.name}, tries : {base.tries},
                     model : {base.model}, checksum : {base.checksum}]
    BY <1>2 DEF FetchOK, GoodFetch
  <2> HIDE DEF base
  <2>6. GoodFetch(base, models, nextId)
    BY <1>2, <2>4, <2>5 DEF FetchOK, GoodFetch
  <2> QED BY <1>1, <2>1, <2>6, FetchStep
<1> QED BY <1>3, <1>4, <1>5

LEMMA LoadDifferenceStep ==
  ASSUME IInv, NEW c \in Clients, LoadDifference(c)
  PROVE  IInv'
<1> DEFINE id == fetch[c].id
           new == LoadDelta(fetch[c].model, files[ModelFile(id)])
           f == [fetch[c] EXCEPT !.pc = "serve", !.model = new]
<1>1. FetchOK(c) /\ fetch[c].pc = "delta"
  BY DEF IInv, Fetches, LoadDifference
<1>2. /\ UNCHANGED <<models, nextId, files, register, delete, hist>>
      /\ fetch' = [fetch EXCEPT ![c] = IF id \in DOMAIN models /\ ModelFile(id) \in DOMAIN files
                                       THEN f ELSE Failed(c)]
  BY <1>1 DEF LoadDifference, SetFetch
<1>3. CASE ~(id \in DOMAIN models /\ ModelFile(id) \in DOMAIN files)
  <2>1. fetch' = [fetch EXCEPT ![c] = Failed(c)]
    BY <1>2, <1>3
  <2> QED BY <1>2, <2>1, FetchFails, FetchStep
<1>4. CASE id \in DOMAIN models /\ ModelFile(id) \in DOMAIN files
  <2>1. fetch' = [fetch EXCEPT ![c] = f]
    BY <1>2, <1>4
  <2> DEFINE j == models[id].parent
             p == models[id].pipeline
             t == models[id].trigger
  <2>2. j # 0 /\ fetch[c].model = Trained[p][models[j].trigger]
    BY <1>1, <1>4 DEF FetchOK, GoodFetch, BaseOf
  <2>3. /\ p \in Pipelines /\ t \in Triggers(p) /\ j \in DOMAIN models
        /\ models[j].pipeline = p /\ models[j].trigger \in Triggers(p)
    BY <1>4, <2>2 DEF IInv, Ids, RowsTyped, Rows, ParentsStoredWhole
  <2>4. files[ModelFile(id)] = StoreDelta(Trained[p][t], Trained[p][models[j].trigger])
    BY <1>4, <2>2 DEF IInv, RowsFiled, RowFiled, Content
  <2>5. new = Trained[p][t]
    BY <2>2, <2>3, <2>4, DeltaReadBack
  <2>6. AsTrained(new, models, id)
    BY <1>4, <2>5, RowAsTrained DEF ModelOf
  <2> HIDE DEF new
  <2>7. /\ f.pc = "serve" /\ f.id = id /\ f.model = new
        /\ f \in [pc : {"serve"}, id : Nat, name : {f.name}, tries : {f.tries},
                  model : {f.model}, checksum : {f.checksum}]
    BY <1>1 DEF FetchOK, GoodFetch
  <2> HIDE DEF f
  <2>8. GoodFetch(f, models, nextId)
    BY <1>1, <2>6, <2>7 DEF FetchOK, GoodFetch
  <2> QED BY <1>2, <2>1, <2>8, FetchStep
<1> QED BY <1>3, <1>4

LEMMA ServeStep ==
  ASSUME IInv, NEW c \in Clients, Serve(c)
  PROVE  IInv'
<1> DEFINE f == [fetch[c] EXCEPT !.pc = "download", !.name = ServedName(c),
                                 !.checksum = fetch[c].model, !.model = <<>>]
<1>1. /\ FetchOK(c) /\ fetch[c].pc = "serve"
      /\ UNCHANGED <<models, nextId, files, register, delete, hist>>
      /\ fetch' = [fetch EXCEPT ![c] = f]
  BY DEF IInv, Fetches, Serve, SetFetch
<1>2. /\ f.pc = "download" /\ f.id = fetch[c].id /\ f.checksum = fetch[c].model
      /\ f \in [pc : {"download"}, id : Nat, name : {f.name}, tries : {f.tries},
                model : {f.model}, checksum : {f.checksum}]
  BY <1>1 DEF FetchOK, GoodFetch
<1> HIDE DEF f
<1>3. GoodFetch(f, models, nextId)
  BY <1>1, <1>2 DEF FetchOK, GoodFetch
<1> QED BY <1>1, <1>3, FetchStep

(* What passes the checksum is what was served.                            *)
LEMMA DownloadStep ==
  ASSUME IInv, NEW c \in Clients, Download(c)
  PROVE  IInv'
<1> DEFINE f == [fetch[c] EXCEPT !.pc = "remove", !.tries = 0, !.model = ftp[fetch[c].name]]
<1>1. /\ FetchOK(c) /\ fetch[c].pc = "download"
      /\ UNCHANGED <<models, nextId, files, register, delete, hist>>
      /\ \/ /\ ftp[fetch[c].name] = fetch[c].checksum
            /\ fetch' = [fetch EXCEPT ![c] = f]
         \/ fetch' = [fetch EXCEPT ![c] = Retry(c)]
  BY DEF IInv, Fetches, Download, SetFetch
<1>2. CASE fetch' = [fetch EXCEPT ![c] = Retry(c)]
  BY <1>1, <1>2, FetchRetries, FetchStep
<1>3. CASE ftp[fetch[c].name] = fetch[c].checksum /\ fetch' = [fetch EXCEPT ![c] = f]
  <2>1. /\ f.pc = "remove" /\ f.id = fetch[c].id /\ f.model = fetch[c].checksum
        /\ f \in [pc : {"remove"}, id : Nat, name : {f.name}, tries : {f.tries},
                  model : {f.model}, checksum : {f.checksum}]
    BY <1>1, <1>3 DEF FetchOK, GoodFetch
  <2> HIDE DEF f
  <2>2. GoodFetch(f, models, nextId)
    BY <1>1, <2>1 DEF FetchOK, GoodFetch
  <2> QED BY <1>1, <1>3, <2>2, FetchStep
<1> QED BY <1>1, <1>2, <1>3

LEMMA RemoveServedStep ==
  ASSUME IInv, NEW c \in Clients, RemoveServed(c)
  PROVE  IInv'
<1> DEFINE f == [fetch[c] EXCEPT !.pc = "done"]
<1>1. /\ FetchOK(c) /\ fetch[c].pc = "remove"
      /\ UNCHANGED <<models, nextId, files, register, delete, hist>>
      /\ \/ fetch' = [fetch EXCEPT ![c] = f]
         \/ fetch' = [fetch EXCEPT ![c] = Retry(c)]
  BY DEF IInv, Fetches, RemoveServed, SetFetch
<1>2. CASE fetch' = [fetch EXCEPT ![c] = Retry(c)]
  BY <1>1, <1>2, FetchRetries, FetchStep
<1>3. CASE fetch' = [fetch EXCEPT ![c] = f]
  <2>1. /\ f.pc = "done" /\ f.id = fetch[c].id /\ f.model = fetch[c].model
        /\ f \in [pc : {"done"}, id : Nat, name : {f.name}, tries : {f.tries},
                  model : {f.model}, checksum : {f.checksum}]
    BY <1>1 DEF FetchOK, GoodFetch
  <2> HIDE DEF f
  <2>2. GoodFetch(f, models, nextId)
    BY <1>1, <2>1 DEF FetchOK, GoodFetch
  <2> QED BY <1>1, <1>3, <2>2, FetchStep
<1> QED BY <1>1, <1>2, <1>3
-----------------------------------------------------------------------------
LEMMA DeleteModelStep ==
  ASSUME IInv, NEW id \in 1 .. nextId - 1, DeleteModel(id)
  PROVE  IInv'
<1>1. /\ models' = models /\ nextId' = nextId /\ files' = files /\ register' = register
      /\ fetch' = fetch /\ undermined' = undermined
  BY DEF DeleteModel
<1>2. \/ delete' = delete /\ accepted' = accepted
      \/ /\ id \in DOMAIN models /\ Children(id) = {}
         /\ delete' = [pc |-> "unlink", id |-> id] /\ accepted' = accepted \cup {id}
  BY DEF DeleteModel
<1>3. Ids' /\ RowsTyped' /\ RowsDistinct' /\ ParentsStoredWhole' /\ RowsKept
  BY <1>1 DEF IInv, Ids, RowsTyped, RowsDistinct, ParentsStoredWhole, RowsKept
<1>4. RowsFiled'
  BY <1>1, <1>2 DEF IInv, RowsFiled, RowFiled, ModelFile, Content
<1>5. DeleteOK'
  <2>1. DeleteOK /\ nextId \in Nat
    BY DEF IInv, Ids
  <2> QED BY <1>1, <1>2, <2>1 DEF DeleteOK, ModelFile
<1>6. Condemned'
  BY <1>1, <1>2 DEF IInv, Condemned, Children
<1>7. Registers'
  <2>1. ASSUME NEW p \in Pipelines
        PROVE  RegisterOK(p)'
    BY <1>1, <1>3, RegisterKept
  <2> QED BY <1>1, <2>1 DEF IInv, Registers
<1>8. Fetches'
  <2>1. ASSUME NEW c \in Clients
        PROVE  FetchOK(c)'
    BY <1>1, <1>3, FetchKept
  <2> QED BY <1>1, <2>1 DEF IInv, Fetches
<1> QED BY <1>3, <1>4, <1>5, <1>6, <1>7, <1>8 DEF IInv

(* The files that go are of a row whose deletion was accepted.             *)
LEMMA UnlinkFiles ==
  ASSUME IInv, Unlink
  PROVE  /\ delete.id \in DOMAIN models /\ delete.id \in accepted
         /\ DOMAIN files' = DOMAIN files \ FilesOf(models[delete.id])
         /\ \A f \in DOMAIN files' : files'[f] = files[f]
         /\ \A id \in DOMAIN models :
              /\ ModelFile(id) \in FilesOf(models[id])
              /\ id # delete.id => FilesOf(models[id]) \cap FilesOf(models[delete.id]) = {}
<1>1. delete.id \in DOMAIN models /\ delete.id \in accepted
  BY DEF IInv, DeleteOK, Unlink
<1>2. files' = Without(files, FilesOf(models[delete.id]))
  BY DEF Unlink
<1>3. /\ DOMAIN files' = DOMAIN files \ FilesOf(models[delete.id])
      /\ \A f \in DOMAIN files' : files'[f] = files[f]
  BY <1>2 DEF Without
<1>4. \A id \in DOMAIN models : ModelFile(id) \in FilesOf(models[id])
  BY DEF ModelFile, FilesOf
<1>5. ASSUME NEW id \in DOMAIN models, id # delete.id
      PROVE  FilesOf(models[id]) \cap FilesOf(models[delete.id]) = {}
  <2>1. models[id].pipeline # models[delete.id].pipeline \/ models[id].trigger # models[delete.id].trigger
    BY <1>1, <1>5 DEF IInv, RowsDistinct
  <2> QED BY <2>1, FilesApart
<1> QED BY <1>1, <1>3, <1>4, <1>5

LEMMA UnlinkStep ==
  ASSUME IInv, Unlink
  PROVE  IInv'
<1>1. /\ models' = models /\ nextId' = nextId /\ register' = register
      /\ fetch' = fetch /\ accepted' = accepted /\ undermined' = undermined
  BY DEF Unlink, hist
<1>2. Ids' /\ RowsTyped' /\ RowsDistinct' /\ ParentsStoredWhole' /\ Condemned' /\ RowsKept
  BY <1>1 DEF IInv, Ids, RowsTyped, RowsDistinct, ParentsStoredWhole, Condemned, RowsKept
<1> DEFINE d == delete.id
<1>3. /\ d \in DOMAIN models /\ d \in accepted
      /\ DOMAIN files' = DOMAIN files \ FilesOf(models[d])
      /\ \A f \in DOMAIN files' : files'[f] = files[f]
      /\ \A id \in DOMAIN models :
           /\ ModelFile(id) \in FilesOf(models[id])
           /\ id # d => FilesOf(models[id]) \cap FilesOf(models[d]) = {}
  BY UnlinkFiles
<1>4. RowsFiled'
  <2> SUFFICES ASSUME NEW id \in DOMAIN models PROVE RowFiled(id)'
    BY <1>1 DEF RowsFiled
  <2>1. RowFiled(id) /\ ModelFile(id)' = ModelFile(id)
    BY <1>1 DEF IInv, RowsFiled, ModelFile
  <2>2. id \notin accepted => FilesOf(models[id]) \subseteq DOMAIN files'
    BY <1>3, <2>1 DEF RowFiled
  <2>3. ModelFile(id) \in DOMAIN files' =>
          ModelFile(id) \in DOMAIN files /\ files'[ModelFile(id)] = files[ModelFile(id)]
    BY <1>3
  <2> QED BY <1>1, <2>1, <2>2, <2>3 DEF RowFiled, Content
<1>5. DeleteOK'
  <2>1. \/ delete' = NoDelete
        \/ delete' = [delete EXCEPT !.pc = "row"]
    BY DEF Unlink
  <2>2. CASE delete' = NoDelete
    BY <2>2 DEF DeleteOK, NoDelete
  <2>3. CASE delete' = [delete EXCEPT !.pc = "row"]
    <3>1. delete'.pc = "row" /\ delete'.id = d /\ delete' \in [pc : {"row"}, id : Nat]
      BY <2>3 DEF IInv, DeleteOK
    <3>2. ModelFile(delete.id)' \notin DOMAIN files'
      BY <1>1, <1>3, <3>1 DEF ModelFile
    <3> QED BY <1>1, <1>3, <3>1, <3>2 DEF DeleteOK
  <2> QED BY <2>1, <2>2, <2>3
<1>6. Registers'
  <2>1. ASSUME NEW p \in Pipelines
        PROVE  RegisterOK(p)'
    <3> DEFINE own == [pipeline |-> p, trigger |-> register[p].trigger]
    <3>1. own.pipeline # models[d].pipeline \/ own.trigger # models[d].trigger
      <4>1. models[d] \in Rows /\ models[d].trigger < register[models[d].pipeline].trigger
        BY <1>3 DEF IInv, RowsTyped
      <4>2. models[d].trigger \in Nat
        BY <4>1 DEF Rows
      <4> QED BY <4>1, <4>2
    <3> HIDE DEF own
    <3>2. FilesOf(own) \cap FilesOf(models[d]) = {}
      BY <3>1, FilesApart
    <3>3. \A f \in FilesOf(own) : f \in DOMAIN files => f \in DOMAIN files' /\ files'[f] = files[f]
      BY <1>3, <3>2
    <3> QED BY <1>1, <1>2, <3>3, RegisterKept DEF own
  <2> QED BY <1>1, <2>1 DEF IInv, Registers
<1>7. Fetches'
  <2>1. ASSUME NEW c \in Clients
        PROVE  FetchOK(c)'
    BY <1>1, <1>2, FetchKept
  <2> QED BY <1>1, <2>1 DEF IInv, Fetches
<1> QED BY <1>2, <1>4, <1>5, <1>6, <1>7 DEF IInv

LEMMA DeleteRowStep ==
  ASSUME IInv, DeleteRow
  PROVE  IInv'
<1>1. /\ nextId' = nextId /\ files' = files /\ register' = register
      /\ fetch' = fetch /\ accepted' = accepted /\ undermined' = undermined /\ delete' = NoDelete
  BY DEF DeleteRow, hist
<1>2. /\ DOMAIN models' \subseteq DOMAIN models
      /\ \A id \in DOMAIN models' : models'[id] = models[id]
      /\ \A id \in DOMAIN models' : models[id].parent \in DOMAIN models' \cup {0}
  <2>1. CASE Children(delete.id) = {}
    <3>1. models' = [id \in DOMAIN models \ {delete.id} |-> models[id]]
      BY <2>1 DEF DeleteRow, Without
    <3>2. \A id \in DOMAIN models : models[id].parent # delete.id
      BY <2>1 DEF Children
    <3> QED BY <3>1, <3>2 DEF IInv, Ids
  <2>2. CASE Children(delete.id) # {}
    BY <2>2 DEF DeleteRow, IInv, Ids
  <2> QED BY <2>1, <2>2
<1>3. Ids' /\ RowsKept
  BY <1>1, <1>2 DEF IInv, Ids, RowsKept
<1>4. RowsTyped' /\ RowsDistinct' /\ Condemned'
  BY <1>1, <1>2 DEF IInv, RowsTyped, RowsDistinct, Condemned
<1>5. ParentsStoredWhole'
  <2> SUFFICES ASSUME NEW id \in DOMAIN models', models[id].parent # 0
               PROVE  LET j == models[id].parent
                      IN /\ models'[j].parent = 0 /\ models'[j].pipeline = models[id].pipeline
                         /\ models'[j].trigger < models[id].trigger
    BY <1>2 DEF ParentsStoredWhole
  <2>1. models[id].parent \in DOMAIN models' /\ id \in DOMAIN models
    BY <1>2
  <2> QED BY <1>2, <2>1 DEF IInv, ParentsStoredWhole
<1>6. RowsFiled'
  <2> SUFFICES ASSUME NEW id \in DOMAIN models' PROVE RowFiled(id)'
    BY DEF RowsFiled
  <2>1. id \in DOMAIN models /\ models'[id] = models[id] /\ RowFiled(id)
    BY <1>2 DEF IInv, RowsFiled
  <2>2. ModelFile(id)' = ModelFile(id)
    BY <2>1 DEF ModelFile
  <2>3. models[id].parent # 0 => models'[models[id].parent] = models[models[id].parent]
    BY <1>2
  <2> QED BY <1>1, <2>1, <2>2, <2>3 DEF RowFiled, Content
<1>7. DeleteOK'
  BY <1>1 DEF DeleteOK, NoDelete
<1>8. Registers'
  <2>1. ASSUME NEW p \in Pipelines
        PROVE  RegisterOK(p)'
    BY <1>1, <1>3, RegisterKept
  <2> QED BY <1>1, <2>1 DEF IInv, Registers
<1>9. Fetches'
  <2>1. ASSUME NEW c \in Clients
        PROVE  FetchOK(c)'
    BY <1>1, <1>3, FetchKept
  <2> QED BY <1>1, <2>1 DEF IInv, Fetches
<1> QED BY <1>3, <1>4, <1>5, <1>6, <1>7, <1>8, <1>9 DEF IInv

LEMMA CrashStep ==
  ASSUME IInv, Crash
  PROVE  IInv'
<1>1. /\ models' = models /\ nextId' = nextId /\ files' = files
      /\ accepted' = accepted /\ undermined' = undermined /\ delete' = NoDelete
      /\ register' = [p \in Pipelines |-> IF register[p].pc = "idle" THEN register[p]
                                          ELSE NoRegister(register[p].trigger + 1)]
      /\ fetch' = [c \in Clients |-> IF fetch[c].pc \in {"base", "delta", "serve"} THEN Failed(c)
                                     ELSE fetch[c]]
  BY DEF Crash, hist
<1>2. Ids' /\ RowsDistinct' /\ ParentsStoredWhole' /\ Condemned' /\ RowsKept
  BY <1>1 DEF IInv, Ids, RowsDistinct, ParentsStoredWhole, Condemned, RowsKept
<1>3. RowsFiled' /\ DeleteOK'
  BY <1>1 DEF IInv, RowsFiled, RowFiled, ModelFile, Content, DeleteOK, NoDelete
<1>4. ASSUME NEW p \in Pipelines
      PROVE  /\ RegisterOK(p)' /\ register[p].trigger \in Nat /\ register'[p].trigger \in Nat
             /\ register[p].trigger <= register'[p].trigger
  <2>1. register[p].trigger \in Nat
    BY DEF IInv, Registers, RegisterOK
  <2>2. CASE register[p].pc = "idle"
    <3>1. register'[p] = register[p]
      BY <1>1, <2>2
    <3>2. RegisterOK(p)'
      BY <1>1, <1>2, <3>1, RegisterKept
    <3> QED BY <2>1, <3>1, <3>2
  <2>3. CASE register[p].pc # "idle"
    <3> DEFINE t == register[p].trigger + 1
    <3>1. register'[p] = NoRegister(t) /\ t \in Nat /\ register[p].trigger <= t
      BY <1>1, <2>1, <2>3
    <3> HIDE DEF t
    <3>2. RegisterOK(p)'
      BY <1>2, <3>1, FreshRegister
    <3>3. register'[p].trigger = t
      BY <3>1 DEF NoRegister
    <3> QED BY <2>1, <3>1, <3>2, <3>3
  <2> QED BY <2>2, <2>3
<1>5. RowsTyped'
  <2> SUFFICES ASSUME NEW id \in DOMAIN models
               PROVE  /\ models[id] \in Rows /\ models[id].trigger \in Triggers(models[id].pipeline)
                      /\ models[id].trigger < register'[models[id].pipeline].trigger
    BY <1>1 DEF RowsTyped
  <2>1. /\ models[id] \in Rows /\ models[id].trigger \in Triggers(models[id].pipeline)
        /\ models[id].trigger < register[models[id].pipeline].trigger
    BY DEF IInv, RowsTyped
  <2>2. models[id].pipeline \in Pipelines /\ models[id].trigger \in Nat
    BY <2>1 DEF Rows
  <2> QED BY <1>4, <2>1, <2>2
<1>6. Registers'
  BY <1>1, <1>4 DEF Registers
<1>7. Fetches'
  <2>1. ASSUME NEW c \in Clients
        PROVE  FetchOK(c)'
    <3>1. CASE fetch[c].pc \in {"base", "delta", "serve"}
      <4>1. fetch'[c] = Failed(c)
        BY <1>1, <3>1
      <4> QED BY <1>1, <4>1, FetchFails DEF FetchOK
    <3>2. CASE fetch[c].pc \notin {"base", "delta", "serve"}
      <4>1. fetch'[c] = fetch[c]
        BY <1>1, <3>2
      <4> QED BY <1>2, <4>1, FetchKept
    <3> QED BY <3>1, <3>2
  <2> QED BY <1>1, <2>1 DEF Fetches
<1> QED BY <1>2, <1>3, <1>5, <1>6, <1>7 DEF IInv
LEMMA NextIInv == IInv /\ [Next]_vars => IInv'
<1> SUFFICES ASSUME IInv, [Next]_vars PROVE IInv'
  OBVIOUS
<1>1. CASE UNCHANGED vars
  <2>1. /\ models' = models /\ nextId' = nextId /\ files' = files /\ register' = register
        /\ fetch' = fetch /\ delete' = delete /\ accepted' = accepted /\ undermined' = undermined
    BY <1>1 DEF vars, hist
  <2>2. Ids' /\ RowsTyped' /\ RowsDistinct' /\ ParentsStoredWhole' /\ RowsKept
    BY <2>1 DEF IInv, Ids, RowsTyped, RowsDistinct, ParentsStoredWhole, RowsKept
  <2>3. RowsFiled' /\ DeleteOK' /\ Condemned'
    BY <2>1 DEF IInv, RowsFiled, RowFiled, ModelFile, Content, DeleteOK, Condemned
  <2>4. ASSUME NEW p \in Pipelines
        PROVE  RegisterOK(p)'
    BY <2>1, <2>2, RegisterKept
  <2>5. ASSUME NEW c \in Clients
        PROVE  FetchOK(c)'
    BY <2>1, <2>2, FetchKept
  <2>6. Registers' /\ Fetches'
    BY <2>1, <2>4, <2>5 DEF IInv, Registers, Fetches
  <2> QED BY <2>2, <2>3, <2>6 DEF IInv
<1>2. ASSUME NEW p \in Pipelines,
             \/ RegisterModel(p) \/ HandleNewModel(p) \/ StoreDifference(p)
             \/ WriteModel(p) \/ AddTrainedModel(p)
      PROVE  IInv'
  BY <1>2, RegisterModelStep, HandleNewModelStep, StoreDifferenceStep, WriteModelStep, AddTrainedModelStep
<1>3. ASSUME NEW c \in Clients,
             \/ \E id \in 1 .. nextId - 1 : FetchModel(c, id)
             \/ LoadBase(c) \/ LoadDifference(c) \/ Serve(c) \/ Download(c) \/ RemoveServed(c)
      PROVE  IInv'
  BY <1>3, FetchModelStep, LoadBaseStep, LoadDifferenceStep, ServeStep, DownloadStep, RemoveServedStep
<1>4. CASE \E id \in 1 .. nextId - 1 : DeleteModel(id)
  BY <1>4, DeleteModelStep
<1>5. CASE Unlink \/ DeleteRow \/ Crash
  BY <1>5, UnlinkStep, DeleteRowStep, CrashStep
<1> QED BY <1>1, <1>2, <1>3, <1>4, <1>5 DEF Next

(* The inductive invariant holds in every behaviour.                       *)
THEOREM Invariance == Spec => []IInv
<1>1. Init => IInv
  BY InitIInv
<1>2. IInv /\ [Next]_vars => IInv'
  BY NextIInv
<1> QED BY <1>1, <1>2, PTL DEF Spec

(* Type correctness, and no row's parent is ever missing.                  *)
THEOREM TypeCorrect == Spec => []TypeOK
<1>1. IInv => TypeOK
  BY IInvTypeOK
<1> QED BY <1>1, Invariance, PTL

(* However registrations, deletions, lost transfers and restarts           *)
(* interleave, the model that a difference is to is stored in full, so two *)
(* files are all that reading a model takes.                               *)
THEOREM ParentsAreWhole == Spec => []ParentsStoredWhole
<1>1. IInv => ParentsStoredWhole
  BY DEF IInv
<1> QED BY <1>1, Invariance, PTL

(* A retrieval that succeeds returned the model as it was trained: for     *)
(* every class of models, split and encoding of the differences.           *)
THEOREM RetrievalsAsTrained == Spec => []FetchedAsTrained
<1>1. IInv => FetchedAsTrained
  <2> SUFFICES ASSUME IInv, NEW c \in Clients, fetch[c].pc = "done"
               PROVE  \E p \in Pipelines : \E t \in Triggers(p) :
                        /\ fetch[c].model = Trained[p][t]
                        /\ fetch[c].id \in DOMAIN models =>
                             models[fetch[c].id] = [models[fetch[c].id] EXCEPT !.pipeline = p, !.trigger = t]
    BY DEF FetchedAsTrained
  <2>1. AsTrained(fetch[c].model, models, fetch[c].id)
    BY DEF IInv, Fetches, FetchOK, GoodFetch
  <2>2. \A id \in DOMAIN models :
          models[id] = [models[id] EXCEPT !.pipeline = models[id].pipeline, !.trigger = models[id].trigger]
    <3> SUFFICES ASSUME NEW row \in Rows
                 PROVE  row = [row EXCEPT !.pipeline = row.pipeline, !.trigger = row.trigger]
      BY DEF IInv, RowsTyped
    <3> QED BY DEF Rows
  <2> QED BY <2>1, <2>2 DEF AsTrained
<1> QED BY <1>1, Invariance, PTL
-----------------------------------------------------------------------------
(* The models that ModelStore has, under the invariant.                    *)
Held == {id \in DOMAIN models : Found(id) /\ FilesOf(models[id]) \subseteq DOMAIN files}

LEMMA StoredAreHeld == IInv => StoredModels = [id \in Held |-> ModelOf(id)]
<1> SUFFICES ASSUME IInv PROVE StoredModels = [id \in Held |-> ModelOf(id)]
  OBVIOUS
<1> DEFINE D == {i \in DOMAIN models : Readable(i) /\ FilesOf(models[i]) \subseteq DOMAIN files}
<1>1. D = Held
  BY ReadableFound DEF Held
<1>2. \A id \in Held : Reconstruct(id) = ModelOf(id)
  BY ReconstructTrained DEF Held
<1>3. StoredModels = [id \in D |-> Reconstruct(id)]
  BY DEF StoredModels
<1> HIDE DEF D
<1> QED BY <1>1, <1>2, <1>3

LEMMA StoredLater == IInv' => (StoredModels = [id \in Held |-> ModelOf(id)])'
BY StoredAreHeld, PTL

LEMMA InitStore == Init => Store!Init
<1> SUFFICES ASSUME Init PROVE Store!Init
  OBVIOUS
<1>1. models = <<>> /\ accepted = {} /\ undermined = {}
  BY DEF Init
<1>2. IInv
  BY InitIInv
<1>3. Held = {}
  BY <1>1 DEF Held
<1>4. StoredModels = <<>>
  BY <1>2, <1>3, StoredAreHeld
<1> QED BY <1>1, <1>4 DEF Store!Init

(* What changes neither rows nor files, nor what is condemned, is hidden.  *)
LEMMA Unseen ==
  ASSUME IInv, IInv', UNCHANGED <<models, files>>, accepted' \cup undermined' = accepted \cup undermined
  PROVE  UNCHANGED Store!vars
<1>1. Held' = Held /\ \A id \in Held : ModelOf(id)' = ModelOf(id)
  BY DEF Held, Found, ModelOf, ModelFile
<1>2. StoredModels' = StoredModels
  BY <1>1, StoredAreHeld, StoredLater
<1> QED BY <1>2 DEF Store!vars

(* Files of a trigger that has no row yet are hidden as well.              *)
LEMMA WriteModelUnseen ==
  ASSUME IInv, IInv', NEW p \in Pipelines, WriteModel(p)
  PROVE  UNCHANGED Store!vars
<1> DEFINE t == register[p].trigger
           file == <<"model", p, t>>
           meta == <<"metadata", p, t>>
<1>1. models' = models /\ accepted' = accepted /\ undermined' = undermined
  BY DEF WriteModel, hist
<1>2. DOMAIN files' = DOMAIN files \cup {file, meta}
  BY DEF WriteModel, With
<1> HIDE DEF file, meta
<1>3. \A id \in DOMAIN models : FilesOf(models[id]) \cap {file, meta} = {} /\ ModelFile(id) \in FilesOf(models[id])
  <2> TAKE id \in DOMAIN models
  <2>1. models[id].pipeline # p \/ models[id].trigger # t
    <3>1. models[id] \in Rows /\ models[id].trigger < register[models[id].pipeline].trigger
      BY DEF IInv, RowsTyped
    <3>2. models[id].trigger \in Nat
      BY <3>1 DEF Rows
    <3> QED BY <3>1, <3>2
  <2> QED BY <2>1 DEF FilesOf, ModelFile, file, meta
<1>4. \A id \in DOMAIN models : models[id].parent \in DOMAIN models \cup {0}
  BY DEF IInv, Ids
<1>5. \A id \in DOMAIN models : ModelFile(id) \in DOMAIN files' <=> ModelFile(id) \in DOMAIN files
  BY <1>2, <1>3
<1>6. \A id \in DOMAIN models : FilesOf(models[id]) \subseteq DOMAIN files' <=> FilesOf(models[id]) \subseteq DOMAIN files
  BY <1>2, <1>3
<1>7. \A id \in DOMAIN models : ModelFile(id)' = ModelFile(id)
  BY <1>1 DEF ModelFile
<1>8. \A id \in DOMAIN models : Found(id)' <=> Found(id)
  <2> TAKE id \in DOMAIN models
  <2>1. models[id].parent # 0 => /\ models[id].parent \in DOMAIN models
                                 /\ ModelFile(models[id].parent)' = ModelFile(models[id].parent)
    BY <1>1, <1>4 DEF ModelFile
  <2> QED BY <1>1, <1>5, <1>7, <2>1 DEF Found
<1>9. Held' = Held
  BY <1>1, <1>6, <1>8 DEF Held
<1>10. \A id \in Held : ModelOf(id)' = ModelOf(id)
  BY <1>1 DEF ModelOf
<1>11. StoredModels' = StoredModels
  BY <1>9, <1>10, StoredAreHeld, StoredLater
<1> QED BY <1>1, <1>11 DEF Store!vars

LEMMA AddTrainedModelStores ==
  ASSUME IInv, IInv', NEW p \in Pipelines, AddTrainedModel(p)
  PROVE  Store!Next \/ UNCHANGED Store!vars
<1> DEFINE q == register[p]
           t == q.trigger
           row == [pipeline |-> p, trigger |-> t, parent |-> q.parent]
           c == accepted \cup undermined
<1>1. /\ RegisterOK(p) /\ q.pc = "add" /\ t \in Triggers(p)
      /\ files' = files /\ accepted' = accepted
  BY DEF IInv, Registers, RegisterOK, AddTrainedModel
<1>2. CASE q.parent \notin DOMAIN models \cup {0}
  <2>1. models' = models /\ undermined' = undermined
    BY <1>2 DEF AddTrainedModel
  <2> QED BY <1>1, <2>1, Unseen
<1>3. CASE q.parent \in DOMAIN models \cup {0}
  <2>1. /\ models' = With(models, nextId, row)
        /\ undermined' = undermined \cup {id \in {nextId} : q.parent \in accepted}
    BY <1>3 DEF AddTrainedModel
  <2>2. /\ nextId \notin DOMAIN models /\ nextId \notin c
        /\ \A id \in DOMAIN models : models[id].parent \in DOMAIN models \cup {0}
    BY DEF IInv, Ids, Condemned
  <2>3. /\ DOMAIN models' = DOMAIN models \cup {nextId} /\ models'[nextId] = row
        /\ \A id \in DOMAIN models : models'[id] = models[id]
    BY <2>1, <2>2 DEF With
  <2>4. row.pipeline = p /\ row.trigger = t /\ row.parent = q.parent
    OBVIOUS
  <2>5. FilesOf(row) \subseteq DOMAIN files /\ <<"model", p, t>> \in DOMAIN files
    <3>1. FilesOf([pipeline |-> p, trigger |-> t]) \subseteq DOMAIN files
      BY <1>1 DEF RegisterOK
    <3> QED BY <2>4, <3>1 DEF FilesOf
  <2> HIDE DEF row
  <2>6. \A id \in DOMAIN models : ModelFile(id)' = ModelFile(id) /\ ModelOf(id)' = ModelOf(id)
    BY <2>3 DEF ModelFile, ModelOf
  <2>7. \A id \in DOMAIN models : Found(id)' <=> Found(id)
    <3> TAKE id \in DOMAIN models
    <3>1. models[id].parent # 0 => ModelFile(models[id].parent)' = ModelFile(models[id].parent)
      BY <2>2, <2>3 DEF ModelFile
    <3> QED BY <1>1, <2>3, <2>6, <3>1 DEF Found
  <2>8. \A id \in DOMAIN models : id \in Held' <=> id \in Held
    BY <1>1, <2>3, <2>7 DEF Held
  <2>9. Held \subseteq DOMAIN models
    BY DEF Held
  <2>10. CASE q.parent = 0 \/ ModelFile(q.parent) \in DOMAIN files
    <3> DEFINE stored == StoredModels
               later == StoredModels'
    <3>1. nextId \in Held'
      <4>1. models'[nextId].parent # 0 =>
              <<"model", models'[models'[nextId].parent].pipeline, models'[models'[nextId].parent].trigger>>
                \in DOMAIN files'
        BY <1>1, <1>3, <2>3, <2>4, <2>10 DEF ModelFile
      <4>2. <<"model", models'[nextId].pipeline, models'[nextId].trigger>> \in DOMAIN files'
        BY <1>1, <2>3, <2>4, <2>5
      <4>3. FilesOf(models'[nextId]) \subseteq DOMAIN files'
        BY <1>1, <2>3, <2>5
      <4> QED BY <2>3, <4>1, <4>2, <4>3 DEF Held, Found, ModelFile
    <3>2. Held' = Held \cup {nextId}
      <4>1. Held' \subseteq DOMAIN models'
        BY DEF Held
      <4> QED BY <2>3, <2>8, <2>9, <3>1, <4>1
    <3>3. stored = [id \in Held |-> ModelOf(id)]
      BY StoredAreHeld
    <3>4. later = [id \in Held' |-> Trained[models'[id].pipeline][models'[id].trigger]]
      BY StoredLater DEF ModelOf
    <3>5. later = [id \in DOMAIN stored \cup {nextId} |->
                     IF id = nextId THEN Trained[p][t] ELSE stored[id]]
      <4>1. DOMAIN stored = Held /\ \A id \in Held : stored[id] = Trained[models[id].pipeline][models[id].trigger]
        BY <3>3 DEF ModelOf
      <4> HIDE DEF stored, later
      <4> QED BY <2>2, <2>3, <2>4, <2>9, <3>2, <3>4, <4>1
    <3>6. nextId \in DOMAIN later \ DOMAIN stored
      <4>1. DOMAIN stored = Held /\ DOMAIN later = Held'
        BY <3>3, <3>4
      <4> HIDE DEF stored, later
      <4> QED BY <2>2, <2>9, <3>1, <4>1
    <3>7. accepted' \cup undermined' \in {c, c \cup {nextId}}
      BY <1>1, <2>1
    <3>8. Store!Store(nextId, p, t)
      <4> HIDE DEF c
      <4>1. nextId \notin accepted \cup undermined
        BY <2>2 DEF c
      <4> QED BY <3>5, <3>7, <4>1 DEF Store!Store, c
    <3>9. t \in DOMAIN Trained[p]
      BY <1>1 DEF Triggers
    <3> QED BY <3>6, <3>8, <3>9 DEF Store!Next
  <2>11. CASE q.parent # 0 /\ ModelFile(q.parent) \notin DOMAIN files
    <3>1. q.parent \in DOMAIN models /\ q.parent \in accepted
      <4>1. q.parent \in DOMAIN models /\ RowFiled(q.parent)
        BY <1>3, <2>11 DEF IInv, RowsFiled
      <4>2. ModelFile(q.parent) \in FilesOf(models[q.parent])
        BY DEF ModelFile, FilesOf
      <4> QED BY <2>11, <4>1, <4>2 DEF RowFiled
    <3>2. nextId \notin Held'
      <4>1. models'[nextId].parent = q.parent /\ models'[q.parent] = models[q.parent]
        BY <2>3, <2>4, <3>1
      <4> QED BY <1>1, <2>11, <4>1 DEF Held, Found, ModelFile
    <3>3. Held' = Held
      <4>1. Held' \subseteq DOMAIN models'
        BY DEF Held
      <4> QED BY <2>3, <2>8, <2>9, <3>2, <4>1
    <3>4. StoredModels' = StoredModels
      BY <2>6, <2>9, <3>3, StoredAreHeld, StoredLater
    <3>5. accepted' \cup undermined' = c \cup {nextId}
      BY <1>1, <2>1, <3>1
    <3> QED BY <3>4, <3>5 DEF Store!Next, Store!Condemn
  <2> QED BY <2>10, <2>11
<1> QED BY <1>2, <1>3
LEMMA DeleteModelCondemns ==
  ASSUME IInv, IInv', NEW id \in 1 .. nextId - 1, DeleteModel(id)
  PROVE  Store!Next \/ UNCHANGED Store!vars
<1>1. models' = models /\ files' = files /\ undermined' = undermined
  BY DEF DeleteModel
<1>2. CASE accepted' = accepted
  BY <1>1, <1>2, Unseen
<1>3. CASE accepted' = accepted \cup {id}
  <2>1. Held' = Held /\ \A i \in Held : ModelOf(i)' = ModelOf(i)
    BY <1>1 DEF Held, Found, ModelOf, ModelFile
  <2>2. StoredModels' = StoredModels
    BY <2>1, StoredAreHeld, StoredLater
  <2>3. /\ id \in accepted' \cup undermined'
        /\ accepted' \cup undermined' = (accepted \cup undermined) \cup {id}
    BY <1>1, <1>3
  <2> QED BY <2>2, <2>3 DEF Store!Next, Store!Condemn
<1> QED BY <1>2, <1>3 DEF DeleteModel

LEMMA UnlinkLoses ==
  ASSUME IInv, IInv', Unlink
  PROVE  Store!Next
<1> DEFINE d == delete.id
           lost == {d} \cup Children(d)
<1>1. models' = models /\ accepted' = accepted /\ undermined' = undermined
  BY DEF Unlink, hist
<1>2. /\ d \in DOMAIN models /\ d \in accepted
      /\ DOMAIN files' = DOMAIN files \ FilesOf(models[d])
      /\ \A id \in DOMAIN models :
           /\ ModelFile(id) \in FilesOf(models[id])
           /\ id # d => FilesOf(models[id]) \cap FilesOf(models[d]) = {}
  BY UnlinkFiles
<1> HIDE DEF d
<1>3. lost \subseteq accepted \cup undermined
  BY <1>2 DEF IInv, Condemned, Children
<1>4. d # 0 /\ \A id \in DOMAIN models : models[id].parent \in DOMAIN models \cup {0}
  BY <1>2 DEF IInv, Ids
<1>5. \A id \in DOMAIN models : ModelFile(id)' = ModelFile(id) /\ ModelOf(id)' = ModelOf(id)
  BY <1>1 DEF ModelFile, ModelOf
<1>6. /\ ModelFile(d) \notin DOMAIN files'
      /\ \A id \in DOMAIN models : id # d =>
           /\ ModelFile(id) \in DOMAIN files' <=> ModelFile(id) \in DOMAIN files
           /\ FilesOf(models[id]) \subseteq DOMAIN files' <=> FilesOf(models[id]) \subseteq DOMAIN files
  BY <1>2
<1>7. \A id \in lost : id \notin Held'
  <2>1. d \notin Held'
    BY <1>2, <1>5, <1>6 DEF Held, Found
  <2>2. ASSUME NEW id \in Children(d)
        PROVE  id \notin Held'
    <3>1. models'[id].parent = d
      BY <1>1 DEF Children
    <3>2. <<"model", models'[d].pipeline, models'[d].trigger>> \notin DOMAIN files'
      BY <1>1, <1>6 DEF ModelFile
    <3> QED BY <1>4, <3>1, <3>2 DEF Held, Found, ModelFile
  <2> QED BY <2>1, <2>2
<1>8. \A id \in DOMAIN models \ lost : id \in Held' <=> id \in Held
  <2> TAKE id \in DOMAIN models \ lost
  <2>1. id # d /\ models[id].parent # d
    BY DEF Children
  <2>2. models[id].parent # 0 =>
          /\ ModelFile(models[id].parent)' = ModelFile(models[id].parent)
          /\ ModelFile(models[id].parent) \in DOMAIN files' <=> ModelFile(models[id].parent) \in DOMAIN files
    BY <1>1, <1>4, <1>6, <2>1 DEF ModelFile
  <2>3. Found(id)' <=> Found(id)
    BY <1>1, <1>5, <1>6, <2>1, <2>2 DEF Found
  <2> QED BY <1>1, <1>6, <2>1, <2>3 DEF Held
<1>9. Held' = Held \ lost
  <2>1. Held' \subseteq DOMAIN models /\ Held \subseteq DOMAIN models
    BY <1>1 DEF Held
  <2> HIDE DEF lost
  <2> QED BY <1>7, <1>8, <2>1
<1> DEFINE stored == StoredModels
           later == StoredModels'
<1>10. stored = [id \in Held |-> ModelOf(id)]
  BY StoredAreHeld
<1>11. later = [id \in Held' |-> Trained[models'[id].pipeline][models'[id].trigger]]
  BY StoredLater DEF ModelOf
<1>12. later = [id \in DOMAIN stored \ lost |-> stored[id]]
  <2>1. DOMAIN stored = Held /\ \A id \in Held : stored[id] = Trained[models[id].pipeline][models[id].trigger]
    BY <1>10 DEF ModelOf
  <2> HIDE DEF stored, later, lost
  <2> QED BY <1>1, <1>9, <1>11, <2>1
<1> HIDE DEF lost
<1>13. Store!Lose(lost)
  BY <1>1, <1>3, <1>12 DEF Store!Lose
<1> QED BY <1>3, <1>13 DEF Store!Next

LEMMA DeleteRowUnseen ==
  ASSUME IInv, IInv', DeleteRow
  PROVE  UNCHANGED Store!vars
<1> DEFINE d == delete.id
<1>1. files' = files /\ accepted' = accepted /\ undermined' = undermined
  BY DEF DeleteRow, hist
<1>2. CASE Children(d) # {}
  <2>1. models' = models
    BY <1>2 DEF DeleteRow
  <2> QED BY <1>1, <2>1, Unseen
<1>3. CASE Children(d) = {}
  <2>1. models' = [id \in DOMAIN models \ {d} |-> models[id]]
    BY <1>3 DEF DeleteRow, Without
  <2>2. /\ DOMAIN models' = DOMAIN models \ {d}
        /\ \A id \in DOMAIN models \ {d} : models'[id] = models[id]
    BY <2>1
  <2>3. d \in DOMAIN models /\ ModelFile(d) \notin DOMAIN files
    BY DEF IInv, DeleteOK, DeleteRow
  <2>4. \A id \in DOMAIN models : models[id].parent # d /\ models[id].parent \in DOMAIN models \cup {0}
    BY <1>3 DEF IInv, Ids, Children
  <2> HIDE DEF d
  <2>5. d \notin Held
    BY <2>3 DEF Held, Found
  <2>6. \A id \in DOMAIN models \ {d} : ModelFile(id)' = ModelFile(id) /\ ModelOf(id)' = ModelOf(id)
    BY <2>2 DEF ModelFile, ModelOf
  <2>7. \A id \in DOMAIN models \ {d} : Found(id)' <=> Found(id)
    <3> TAKE id \in DOMAIN models \ {d}
    <3>1. models[id].parent # 0 => ModelFile(models[id].parent)' = ModelFile(models[id].parent)
      BY <2>2, <2>4 DEF ModelFile
    <3> QED BY <1>1, <2>2, <2>6, <3>1 DEF Found
  <2>8. Held' = Held
    BY <1>1, <2>2, <2>5, <2>7 DEF Held
  <2>9. Held \subseteq DOMAIN models \ {d}
    BY <2>5 DEF Held
  <2>10. StoredModels' = StoredModels
    BY <2>6, <2>8, <2>9, StoredAreHeld, StoredLater
  <2> QED BY <1>1, <2>10 DEF Store!vars
<1> QED BY <1>2, <1>3

(* Model storage keeps what ModelStore promises: a registered model is     *)
(* there, as it was trained, until a deletion condemns it; every step is   *)
(* one of ModelStore's or hidden.                                          *)
THEOREM ImplementsModelStore == Spec => RefinesModelStore
<1>1. Init => Store!Init
  BY InitStore
<1>2. IInv /\ IInv' /\ [Next]_vars => [Store!Next]_(Store!vars)
  <2> SUFFICES ASSUME IInv, IInv', [Next]_vars
               PROVE  Store!Next \/ UNCHANGED Store!vars
    OBVIOUS
  <2>1. CASE UNCHANGED vars
    <3>1. UNCHANGED <<models, files>> /\ accepted' \cup undermined' = accepted \cup undermined
      BY <2>1 DEF vars, hist
    <3> QED BY <3>1, Unseen
  <2>2. ASSUME NEW p \in Pipelines, RegisterModel(p) \/ HandleNewModel(p) \/ StoreDifference(p)
        PROVE  UNCHANGED Store!vars
    <3>1. UNCHANGED <<models, files>> /\ accepted' \cup undermined' = accepted \cup undermined
      BY <2>2 DEF RegisterModel, HandleNewModel, StoreDifference, hist
    <3> QED BY <3>1, Unseen
  <2>3. ASSUME NEW p \in Pipelines, WriteModel(p) \/ AddTrainedModel(p)
        PROVE  Store!Next \/ UNCHANGED Store!vars
    BY <2>3, WriteModelUnseen, AddTrainedModelStores
  <2>4. ASSUME NEW c \in Clients,
               \/ \E id \in 1 .. nextId - 1 : FetchModel(c, id)
               \/ LoadBase(c) \/ LoadDifference(c) \/ Serve(c) \/ Download(c) \/ RemoveServed(c)
        PROVE  UNCHANGED Store!vars
    <3>1. UNCHANGED <<models, files>> /\ accepted' \cup undermined' = accepted \cup undermined
      BY <2>4 DEF FetchModel, LoadBase, LoadDifference, Serve, Download, RemoveServed, hist
    <3> QED BY <3>1, Unseen
  <2>5. CASE \E id \in 1 .. nextId - 1 : DeleteModel(id)
    BY <2>5, DeleteModelCondemns
  <2>6. CASE Unlink
    BY <2>6, UnlinkLoses
  <2>7. CASE DeleteRow
    BY <2>7, DeleteRowUnseen
  <2>8. CASE Crash
    <3>1. UNCHANGED <<models, files>> /\ accepted' \cup undermined' = accepted \cup undermined
      BY <2>8 DEF Crash, hist
    <3> QED BY <3>1, Unseen
  <2> QED BY <2>1, <2>2, <2>3, <2>4, <2>5, <2>6, <2>7, <2>8 DEF Next
<1> QED BY <1>1, <1>2, Invariance, PTL DEF Spec, RefinesModelStore, Store!Spec
=============================================================================
