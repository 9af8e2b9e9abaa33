--------------------------- MODULE MCFileWatcher ---------------------------
(* FileWatcher on two files of two and three samples. *)
EXTENDS FileWatcher
CONSTANTS f1, f2
MCNumSamples == [f \in Files |-> IF f = f1 THEN 2 ELSE 3]
=============================================================================
