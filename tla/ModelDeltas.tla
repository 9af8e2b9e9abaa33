---------------------------- MODULE ModelDeltas ----------------------------
(***************************************************************************)
(* How model storage writes a model to a file and reads it back            *)
(* (modyn/model_storage/internal/storage_strategies): BinaryFullModel      *)
(* writes every tensor, WeightsDifference the difference to another model, *)
(* by xor, if configured with the exponents of floats apart and run-length *)
(* encoded.                                                                *)
(*                                                                         *)
(* A model is a sequence of tensors, a tensor one of words.  Of the 32     *)
(* bits of a float a word keeps one for each part the code tells apart:    *)
(* fraction and the last bit of the exponent are in its first three bytes, *)
(* sign and the rest of the exponent in its last.                          *)
(***************************************************************************)
EXTENDS Integers, SequencesExt

CONSTANTS
  Shape,             \* the tensors of the model class: [float : BOOLEAN, words : Nat]
  split_exponent, rle,
  MaxCount           \* 255: the longest run a byte can count

ASSUME DeltaAssumption ==
  /\ Shape \in Seq([float : BOOLEAN, words : Nat])
  /\ split_exponent \in BOOLEAN /\ rle \in BOOLEAN /\ MaxCount \in Nat \ {0}

Word == [fraction : 0 .. 1, last : 0 .. 1, sign : 0 .. 1, exponent : 0 .. 1]

(* The states of a model of this class.                                    *)
IsModel(model) ==
  /\ model \in Seq(Seq(Word)) /\ Len(model) = Len(Shape)
  /\ \A i \in DOMAIN Shape : Len(model[i]) = Shape[i].words
-----------------------------------------------------------------------------
(* XorDifferenceOperator: calculate_difference and restore are the same.   *)
XorBit(a, b) == (a + b) % 2
Xor(w, v) ==
  [fraction |-> XorBit(w.fraction, v.fraction), last |-> XorBit(w.last, v.last),
   sign |-> XorBit(w.sign, v.sign), exponent |-> XorBit(w.exponent, v.exponent)]

(* "exchange sign bit with last exponent bit"                              *)
ReorderBuffer(w) == [w EXCEPT !.sign = w.last, !.last = w.sign]

(* Run-length encoding: a byte of the count, then the byte.                *)
Push(enc) == Append(enc.out, [count |-> enc.count, byte |-> enc.curr])
EncodeByte(enc, byte) ==
  IF byte = enc.curr /\ enc.count < MaxCount THEN [enc EXCEPT !.count = @ + 1]
  ELSE [out |-> Push(enc), curr |-> byte, count |-> 1]
EncodeBytes(bytes) ==
  LET after[n \in 0 .. Len(bytes)] ==
        IF n = 0 THEN [out |-> <<>>, curr |-> bytes[1], count |-> 0]
        ELSE LET enc == after[n - 1] IN EncodeByte(enc, bytes[n])
  IN IF bytes = <<>> THEN bytes ELSE Push(after[Len(bytes)])

DecodeBytes(runs) == FlattenSeq([i \in DOMAIN runs |-> [k \in 1 .. runs[i].count |-> runs[i].byte]])
-----------------------------------------------------------------------------
(* Files are streams: a tensor starts where those before it end.           *)
Before(i, T) ==
  LET words[k \in Nat] ==
        IF k = 0 THEN 0 ELSE words[k - 1] + (IF k \in T THEN Shape[k].words ELSE 0)
  IN words[i - 1]

StoreFullModel(model) == FlattenSeq(model)

LoadFullModel(file) ==
  [i \in DOMAIN Shape |-> SubSeq(file, Before(i, DOMAIN Shape) + 1, Before(i + 1, DOMAIN Shape))]

(* The tensors whose exponents are written to a stream of their own.       *)
Split == {i \in DOMAIN Shape : split_exponent /\ Shape[i].float}

StoreDelta(model, prev) ==
  LET diff(i) == [j \in DOMAIN model[i] |-> Xor(model[i][j], prev[i][j])]
      body(i) == IF i \notin Split THEN diff(i)
                 ELSE [j \in DOMAIN diff(i) |->
                         LET w == ReorderBuffer(diff(i)[j]) IN [fraction |-> w.fraction, last |-> w.last]]
      tail(i) == IF i \notin Split THEN <<>>
                 ELSE [j \in DOMAIN diff(i) |->
                         LET w == ReorderBuffer(diff(i)[j]) IN [sign |-> w.sign, exponent |-> w.exponent]]
      exponents == FlattenSeq([i \in DOMAIN model |-> tail(i)])
  IN [exponents |-> IF rle THEN EncodeBytes(exponents) ELSE exponents,
      stream |-> FlattenSeq([i \in DOMAIN model |-> body(i)])]

LoadDelta(prev, file) ==
  LET exponents == IF rle THEN DecodeBytes(file.exponents) ELSE file.exponents
      body(i, j) == file.stream[Before(i, DOMAIN Shape) + j]
      exponent(i, j) == exponents[Before(i, Split) + j]
      word(i, j) == IF i \notin Split THEN body(i, j)
                    ELSE ReorderBuffer([fraction |-> body(i, j).fraction, last |-> body(i, j).last,
                                        sign |-> exponent(i, j).sign,
                                        exponent |-> exponent(i, j).exponent])
  IN [i \in DOMAIN Shape |-> [j \in DOMAIN prev[i] |-> Xor(prev[i][j], word(i, j))]]
=============================================================================
