------------------------- MODULE MCStorageService -------------------------
(* A file of two records and one of one: a label of two bytes, then one byte of data.  *)
EXTENDS StorageService

MCRows == [p \in Paths |-> [i \in 1 .. 3 - p |-> [label |-> 300 * p + i, data |-> <<10 * p + i>>]]]
=============================================================================
