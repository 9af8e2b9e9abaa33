--------------------------- MODULE MCModelStorage ---------------------------
(* A float of two words and a tensor of another type; models of the triggers 0, 1, ...       *)
EXTENDS ModelStorage
CONSTANT MaxTrigger

MCShape == <<[float |-> TRUE, words |-> 2], [float |-> FALSE, words |-> 1]>>
Bits(a, b, c, d) == [fraction |-> a, last |-> b, sign |-> c, exponent |-> d]
MCTrained ==
  [p \in Pipelines |-> [t \in 0 .. MaxTrigger |->
     LET i == p + t
     IN << <<Bits(i % 2, (i \div 2) % 2, 1, 0), Bits(0, 1, i % 2, (i \div 2) % 2)>>,
           <<Bits(1, i % 2, 0, 1)>> >>]]
=============================================================================
