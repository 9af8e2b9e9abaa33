---------------------------- MODULE ModelStorage ----------------------------
(***************************************************************************)
(* Model storage (modyn/model_storage): models of pipelines, kept in files *)
(* on its disk and rows of the metadata database, in full or as the        *)
(* difference to an earlier one; their registration by the supervisor,     *)
(* their retrieval by trainer servers and evaluators over FTP, and their   *)
(* deletion.  Requests run in threads that nothing keeps apart.            *)
(*                                                                         *)
(* A pipeline registers its models one after the other, and one deletion   *)
(* runs at a time.                                                         *)
(***************************************************************************)
EXTENDS ModelDeltas

CONSTANTS
  Pipelines,
  Trained,               \* Trained[p][t]: the model of pipeline p for trigger t
  FullModelStrategy,     \* "BinaryFullModel" or "PyTorchFullModel"
  incremental,           \* does the pipelines' policy have an incremental strategy?
  full_model_interval,   \* of the policy; 0 for None
  Clients,               \* trainer servers and evaluators that fetch models
  SameMillisecond,       \* may two retrievals get the same millisecond as their time?
  MaxFetches, MaxDeletes, MaxFailures   \* bounds: requests; lost transfers and ends of the process

ASSUME ModelStorageAssumption ==
  /\ FullModelStrategy \in {"BinaryFullModel", "PyTorchFullModel"}
  /\ incremental \in BOOLEAN /\ full_model_interval \in Nat
  /\ SameMillisecond \in BOOLEAN
  /\ \A p \in Pipelines : /\ DOMAIN Trained[p] \subseteq Nat
                          /\ \A t \in DOMAIN Trained[p] : IsModel(Trained[p][t])

VARIABLES
  models,      \* table trained_models: id -> [pipeline, trigger, parent (0: none)]
  nextId,      \* its next id
  files,       \* the storage directory: <<kind, pipeline, trigger>> -> content
  ftp,         \* the files served to clients
  register,    \* pipeline -> its request RegisterModel
  fetch,       \* client -> its request FetchModel and the transfer
  delete,      \* the request DeleteModel
  used,        \* how many fetches, deletes and failures there were
  accepted,    \* history: models whose deletion was accepted
  undermined   \* history: models registered as the difference to one of those

hist == <<accepted, undermined>>
vars == <<models, nextId, files, ftp, register, fetch, delete, used, hist>>

Triggers(p) == DOMAIN Trained[p]
FilesOf(m) == {<<"model", m.pipeline, m.trigger>>, <<"metadata", m.pipeline, m.trigger>>}
ModelFile(id) == <<"model", models[id].pipeline, models[id].trigger>>
Children(id) == {c \in DOMAIN models : models[c].parent = id}
Without(fun, S) == [x \in DOMAIN fun \ S |-> fun[x]]
With(fun, x, value) == [y \in DOMAIN fun \cup {x} |-> IF y = x THEN value ELSE fun[y]]
Use(what, max) == used[what] < max /\ used' = [used EXCEPT ![what] = @ + 1]

(* A pipeline's row in the metadata database, and the policy read from it. *)
PipelineRow ==
  [full_model_strategy_name |-> FullModelStrategy, full_model_interval |-> full_model_interval,
   inc_model_strategy_name |-> IF incremental THEN "WeightsDifference" ELSE "None"]
Policy ==
  [full |-> PipelineRow.full_model_strategy_name,
   incremental |-> PipelineRow.inc_model_strategy_name # "None",
   interval |-> PipelineRow.full_model_interval]

StoreFull(model) == IF Policy.full = "BinaryFullModel" THEN StoreFullModel(model) ELSE model
LoadFull(file) == IF Policy.full = "BinaryFullModel" THEN LoadFullModel(file) ELSE file

NoRegister(t) == [pc |-> "idle", trigger |-> t, parent |-> 0, content |-> <<>>]
NoFetch == [pc |-> "idle", id |-> 0, name |-> <<>>, tries |-> 0, model |-> <<>>, checksum |-> <<>>]
NoDelete == [pc |-> "idle", id |-> 0]
-----------------------------------------------------------------------------
(* RegisterModel: the download from the trainer server, whose checksum may *)
(* not match.  The trigger is then without a model.                        *)
RegisterModel(p) ==
  /\ register[p].pc = "idle" /\ register[p].trigger \in Triggers(p)
  /\ \/ register' = [register EXCEPT ![p].pc = "downloaded"] /\ UNCHANGED used
     \/ register' = [register EXCEPT ![p] = NoRegister(@.trigger + 1)] /\ Use("failures", MaxFailures)
  /\ UNCHANGED <<models, nextId, files, ftp, fetch, delete, hist>>

(* _determine_parent_model_id: the model of the trigger before, or that    *)
(* one's parent; 0 if there is none.                                       *)
DeterminePrevious(p, t) ==   \* mutant: the previous model itself, full or not
  LET previous == {id \in DOMAIN models : models[id].pipeline = p /\ models[id].trigger = t - 1}
  IN IF previous = {} THEN 0 ELSE CHOOSE id \in previous : TRUE
DetermineParent(p, t) ==
  LET previous == {id \in DOMAIN models : models[id].pipeline = p /\ models[id].trigger = t - 1}
      one == CHOOSE id \in previous : TRUE
  IN IF previous = {} THEN 0 ELSE IF models[one].parent = 0 THEN one ELSE models[one].parent

(* _handle_new_model.                                                      *)
Incremental(t) == Policy.incremental /\ (Policy.interval = 0 \/ t % Policy.interval # 0)

HandleNewModel(p) ==
  /\ register[p].pc = "downloaded"
  /\ LET t == register[p].trigger
         parent == IF Incremental(t) THEN DetermineParent(p, t) ELSE 0
     IN register' = [register EXCEPT ![p] =
          IF parent # 0 THEN [@ EXCEPT !.pc = "parent", !.parent = parent]
          ELSE [@ EXCEPT !.pc = "write", !.content = StoreFull(Trained[p][t])]]
  /\ UNCHANGED <<models, nextId, files, ftp, fetch, delete, used, hist>>

(* _reconstruct_model_state: a model is its file, or its parent's state    *)
(* with the difference in its file.  Readable tells whether it finds the   *)
(* rows and the files it needs; else it throws.                            *)
Readable(id) ==
  LET readable[i \in DOMAIN models] ==
        /\ ModelFile(i) \in DOMAIN files
        /\ models[i].parent # 0 => models[i].parent \in DOMAIN models /\ readable[models[i].parent]
  IN id \in DOMAIN models /\ readable[id]
Reconstruct(id) ==
  LET state[i \in DOMAIN models] ==
        IF models[i].parent = 0 THEN LoadFull(files[ModelFile(i)])
        ELSE LoadDelta(state[models[i].parent], files[ModelFile(i)])
  IN state[id]

(* An exception ends the request: the trigger stays without a model.       *)
StoreDifference(p) ==
  /\ register[p].pc = "parent"
  /\ LET r == register[p]
     IN register' = [register EXCEPT ![p] =
          IF ~Readable(r.parent) THEN NoRegister(r.trigger + 1)
          ELSE [r EXCEPT !.pc = "write",
                         !.content = StoreDelta(Trained[p][r.trigger], Reconstruct(r.parent))]]
  /\ UNCHANGED <<models, nextId, files, ftp, fetch, delete, used, hist>>

WriteModel(p) ==
  /\ register[p].pc = "write"
  /\ LET written == With(files, <<"model", p, register[p].trigger>>, register[p].content)
     IN files' = With(written, <<"metadata", p, register[p].trigger>>, <<>>)
  /\ register' = [register EXCEPT ![p].pc = "add"]
  /\ UNCHANGED <<models, nextId, ftp, fetch, delete, used, hist>>

(* add_trained_model: the row of the parent has to be there still.         *)
AddTrainedModel(p) ==
  /\ register[p].pc = "add"
  /\ IF register[p].parent \in DOMAIN models \cup {0}
     THEN /\ models' = With(models, nextId, [pipeline |-> p, trigger |-> register[p].trigger,
                                            parent |-> register[p].parent])
          /\ nextId' = nextId + 1
          /\ undermined' = undermined \cup {id \in {nextId} : register[p].parent \in accepted}
     ELSE UNCHANGED <<models, nextId, undermined>>
  /\ register' = [register EXCEPT ![p] = NoRegister(@.trigger + 1)]
  /\ UNCHANGED <<files, ftp, fetch, delete, used, accepted>>
-----------------------------------------------------------------------------
(* FetchModel.                                                             *)
SetFetch(c, f) == fetch' = [fetch EXCEPT ![c] = f]
Failed(c) == [fetch[c] EXCEPT !.pc = "failed"]

FetchModel(c, id) ==
  /\ fetch[c].pc \in {"idle", "done", "failed"} /\ Use("fetches", MaxFetches)
  /\ SetFetch(c, [NoFetch EXCEPT !.pc = IF id \in DOMAIN models THEN "base" ELSE "failed", !.id = id])
  /\ UNCHANGED <<models, nextId, files, ftp, register, delete, hist>>

LoadBase(c) ==
  /\ fetch[c].pc = "base"
  /\ LET id == fetch[c].id
         parent == models[id].parent
     IN SetFetch(c,
          IF id \notin DOMAIN models \/ ~Readable(IF parent = 0 THEN id ELSE parent) THEN Failed(c)
          ELSE IF parent = 0 THEN [fetch[c] EXCEPT !.pc = "serve", !.model = LoadFull(files[ModelFile(id)])]
          ELSE [fetch[c] EXCEPT !.pc = "delta", !.model = Reconstruct(parent)])
  /\ UNCHANGED <<models, nextId, files, ftp, register, delete, used, hist>>

LoadDifference(c) ==
  /\ fetch[c].pc = "delta"
  /\ LET id == fetch[c].id
     IN SetFetch(c, IF id \in DOMAIN models /\ ModelFile(id) \in DOMAIN files
                    THEN [fetch[c] EXCEPT !.pc = "serve", !.model = LoadDelta(@, files[ModelFile(id)])]
                    ELSE Failed(c))
  /\ UNCHANGED <<models, nextId, files, ftp, register, delete, used, hist>>

(* The file served is named by the millisecond and the id.                 *)
ServedName(c) == IF SameMillisecond THEN <<fetch[c].id>> ELSE <<fetch[c].id, c>>

Serve(c) ==
  /\ fetch[c].pc = "serve"
  /\ ftp' = With(ftp, ServedName(c), fetch[c].model)
  /\ SetFetch(c, [fetch[c] EXCEPT !.pc = "download", !.name = ServedName(c), !.checksum = fetch[c].model,
                                  !.model = <<>>])
  /\ UNCHANGED <<models, nextId, files, register, delete, used, hist>>

(* download_trained_model: three tries to get the file with its checksum,  *)
(* three to remove it from the server.                                     *)
Retry(c) == IF fetch[c].tries < 2 THEN [fetch[c] EXCEPT !.tries = @ + 1] ELSE Failed(c)

DownloadUnchecked(c) ==   \* mutant: the last try is taken whatever its checksum
  /\ fetch[c].pc = "download"
  /\ \/ /\ fetch[c].name \in DOMAIN ftp
        /\ SetFetch(c, [fetch[c] EXCEPT !.pc = "remove", !.tries = 0, !.model = ftp[fetch[c].name]])
        /\ UNCHANGED used
     \/ /\ Use("failures", MaxFailures)
        /\ SetFetch(c, [fetch[c] EXCEPT !.pc = "remove", !.tries = 0, !.model = <<"garbage">>])
  /\ UNCHANGED <<models, nextId, files, ftp, register, delete, hist>>
Download(c) ==
  /\ fetch[c].pc = "download"
  /\ \/ /\ fetch[c].name \in DOMAIN ftp /\ ftp[fetch[c].name] = fetch[c].checksum
        /\ SetFetch(c, [fetch[c] EXCEPT !.pc = "remove", !.tries = 0, !.model = ftp[fetch[c].name]])
        /\ UNCHANGED used
     \/ fetch[c].name \notin DOMAIN ftp /\ SetFetch(c, Retry(c)) /\ UNCHANGED used
     \/ Use("failures", MaxFailures) /\ SetFetch(c, Retry(c))
  /\ UNCHANGED <<models, nextId, files, ftp, register, delete, hist>>

DeleteServedFile(name) == ftp' = Without(ftp, {name})

RemoveServed(c) ==
  /\ fetch[c].pc = "remove"
  /\ IF fetch[c].name \in DOMAIN ftp
     THEN SetFetch(c, [fetch[c] EXCEPT !.pc = "done"]) /\ DeleteServedFile(fetch[c].name)
     ELSE SetFetch(c, Retry(c)) /\ UNCHANGED ftp
  /\ UNCHANGED <<models, nextId, files, register, delete, used, hist>>
-----------------------------------------------------------------------------
(* DeleteModel: not of a model that others are differences to; first the   *)
(* files, then the row.                                                    *)
DeleteModelAnyway(id) ==   \* mutant: the children are not looked at
  /\ delete.pc = "idle" /\ id \in DOMAIN models
  /\ Use("deletes", MaxDeletes)
  /\ delete' = [pc |-> "unlink", id |-> id] /\ accepted' = accepted \cup {id}
  /\ UNCHANGED <<models, nextId, files, ftp, register, fetch, undermined>>
DeleteModel(id) ==
  /\ delete.pc = "idle"
  /\ Use("deletes", MaxDeletes)
  /\ IF id \in DOMAIN models /\ Children(id) = {}
     THEN delete' = [pc |-> "unlink", id |-> id] /\ accepted' = accepted \cup {id}
     ELSE UNCHANGED <<delete, accepted>>
  /\ UNCHANGED <<models, nextId, files, ftp, register, fetch, undermined>>

Unlink ==
  /\ delete.pc = "unlink"
  /\ IF FilesOf(models[delete.id]) \subseteq DOMAIN files
     THEN delete' = [delete EXCEPT !.pc = "row"]
     ELSE delete' = NoDelete                          \* FileNotFoundError
  /\ files' = Without(files, FilesOf(models[delete.id]))
  /\ UNCHANGED <<models, nextId, ftp, register, fetch, used, hist>>

(* A row that came to refer to this one meanwhile: IntegrityError.         *)
DeleteRow ==
  /\ delete.pc = "row"
  /\ models' = IF Children(delete.id) = {} THEN Without(models, {delete.id}) ELSE models
  /\ delete' = NoDelete
  /\ UNCHANGED <<nextId, files, ftp, register, fetch, used, hist>>

(* The process ends and is started again; its requests fail.               *)
Crash ==
  /\ Use("failures", MaxFailures)
  /\ register' = [p \in Pipelines |-> IF register[p].pc = "idle" THEN register[p]
                                      ELSE NoRegister(register[p].trigger + 1)]
  /\ fetch' = [c \in Clients |-> IF fetch[c].pc \in {"base", "delta", "serve"} THEN Failed(c) ELSE fetch[c]]
  /\ delete' = NoDelete
  /\ UNCHANGED <<models, nextId, files, ftp, hist>>

Init ==
  /\ models = <<>> /\ nextId = 1 /\ files = <<>> /\ ftp = <<>> /\ accepted = {} /\ undermined = {}
  /\ register = [p \in Pipelines |-> NoRegister(0)]
  /\ fetch = [c \in Clients |-> NoFetch]
  /\ delete = NoDelete
  /\ used = [fetches |-> 0, deletes |-> 0, failures |-> 0]

Next ==
  \/ \E p \in Pipelines : \/ RegisterModel(p) \/ HandleNewModel(p) \/ StoreDifference(p)
                          \/ WriteModel(p) \/ AddTrainedModel(p)
  \/ \E c \in Clients : \/ \E id \in 1 .. nextId - 1 : FetchModel(c, id)
                        \/ LoadBase(c) \/ LoadDifference(c) \/ Serve(c) \/ Download(c) \/ RemoveServed(c)
  \/ \E id \in 1 .. nextId - 1 : DeleteModel(id)
  \/ Unlink \/ DeleteRow \/ Crash

Spec == Init /\ [][Next]_vars
-----------------------------------------------------------------------------
TypeOK ==
  /\ DOMAIN models \subseteq 1 .. nextId - 1 /\ nextId \in Nat \ {0}
  /\ \A id \in DOMAIN models : models[id].parent \in DOMAIN models \cup {0}
  /\ \A p \in Pipelines : register[p].pc \in {"idle", "downloaded", "parent", "write", "add"}
  /\ \A c \in Clients : fetch[c].pc \in {"idle", "base", "delta", "serve", "download", "remove",
                                         "done", "failed"}
  /\ delete.pc \in {"idle", "unlink", "row"}

(* The parent of a model is stored in full, so reading a model takes at    *)
(* most two files, and it is of the same pipeline and an earlier trigger.  *)
ParentsStoredWhole ==
  \A id \in DOMAIN models :
    LET parent == models[id].parent
    IN parent # 0 => /\ models[parent].parent = 0
                     /\ models[parent].pipeline = models[id].pipeline
                     /\ models[parent].trigger < models[id].trigger

(* A retrieval that succeeds has the model as it was trained, whatever was *)
(* registered and deleted while it ran and however its transfer failed.    *)
FetchedAsTrained ==
  \A c \in Clients : fetch[c].pc = "done" =>
    \E p \in Pipelines : \E t \in Triggers(p) :
      /\ fetch[c].model = Trained[p][t]
      /\ fetch[c].id \in DOMAIN models =>
           models[fetch[c].id] = [models[fetch[c].id] EXCEPT !.pipeline = p, !.trigger = t]

(* The models that can be read, the abstract ModelStore's.                 *)
StoredModels == [id \in {i \in DOMAIN models : Readable(i) /\ FilesOf(models[i]) \subseteq DOMAIN files}
                   |-> Reconstruct(id)]

Store == INSTANCE ModelStore WITH stored <- StoredModels, condemned <- accepted \cup undermined

(* Model storage implements ModelStore: a registered model is there, as it *)
(* was trained, until its own deletion is accepted, or unless that of the  *)
(* model it is the difference to was accepted before it had a row.         *)
RefinesModelStore == Store!Spec
=============================================================================
