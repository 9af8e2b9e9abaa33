--------------------------- MODULE MCOnlineDataset ---------------------------
(* OnlineDataset on up to three partitions of up to two items. *)
EXTENDS OnlineDataset
=============================================================================
