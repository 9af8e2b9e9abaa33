----------------------------- MODULE ModelStore -----------------------------
(***************************************************************************)
(* What model storage promises: a model that was registered is kept as it  *)
(* was trained until it is condemned by a deletion, which the detailed     *)
(* specification says.                                                     *)
(***************************************************************************)
CONSTANTS
  Pipelines,
  Trained      \* Trained[p][t]: the model of pipeline p for trigger t

VARIABLES
  stored,      \* model id -> model
  condemned    \* ids that may be lost

vars == <<stored, condemned>>

Init == stored = <<>> /\ condemned = {}

(* The id of the new model was never used.                                 *)
Store(id, p, t) ==
  /\ id \notin condemned
  /\ stored' = [i \in DOMAIN stored \cup {id} |-> IF i = id THEN Trained[p][t] ELSE stored[i]]
  /\ condemned' \in {condemned, condemned \cup {id}}

Condemn ==
  /\ \E id \in condemned' : condemned' = condemned \cup {id}
  /\ UNCHANGED stored

Lose(S) ==
  /\ S \subseteq condemned
  /\ stored' = [id \in DOMAIN stored \ S |-> stored[id]]
  /\ UNCHANGED condemned

Next ==
  \/ \E id \in DOMAIN stored' \ DOMAIN stored, p \in Pipelines :
       \E t \in DOMAIN Trained[p] : Store(id, p, t)
  \/ Condemn
  \/ \E S \in SUBSET condemned : Lose(S)

Spec == Init /\ [][Next]_vars
=============================================================================
