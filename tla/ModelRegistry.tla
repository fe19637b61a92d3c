---------------------------- MODULE ModelRegistry ----------------------------
(***************************************************************************)
(* ModelRegistry (production/models/model_registry.py): the versions of    *)
(* each model and their stages in memory, registry.json, which every call  *)
(* writes anew at its end, and the pickled model of each version in a      *)
(* directory of its own.  A write may fail, which is logged and forgotten, *)
(* and the process may stop at any step and start again from the file.     *)
(* One process uses the directory.                                         *)
(***************************************************************************)
EXTENDS Integers, FiniteSets

CONSTANTS Names,      \* of models
          EarlyStages, \* "DEVELOPMENT" and "STAGING", or one of them: no code
                      \* tells them apart
          MaxVersion, \* bound on the versions of a name
          MaxModels   \* bound on the models ever logged

ASSUME RegistryAssumption == MaxVersion \in Nat /\ MaxModels \in Nat

Versions == 1..MaxVersion
Ids == 1..MaxModels  \* model ids (uuid4); the model itself goes by its id
Stages == EarlyStages \union {"PRODUCTION", "ARCHIVED"}

VARIABLES models,    \* self.models; id 0 for a version that is not there
          file,      \* registry.json; a file that is cut loads as no models
          artifacts, \* model.pkl of each version, 0 if missing or cut
          pc,        \* "idle", "save" (the end of a call) or "down"
          made,      \* history: models logged
          promoted,  \* history: models logged with the stage PRODUCTION
          deleted,   \* history: versions deleted
          unsaved,   \* history: versions changed since the file was written
          cut        \* history: versions whose last change failed half way

history == <<made, promoted, deleted>>
vars == <<models, file, artifacts, pc, history, unsaved, cut>>

Record == [id : Ids \union {0}, stage : Stages]
InStage(r, stage) == [id |-> r.id, stage |-> stage]
Absent == [id |-> 0, stage |-> "ARCHIVED"]
Empty == [n \in Names |-> [v \in Versions |-> Absent]]
Registered(m, n) == {v \in Versions : m[n][v].id # 0}
Production(m, n) == {v \in Registered(m, n) : m[n][v].stage = "PRODUCTION"}

TypeOK ==
  /\ models \in [Names -> [Versions -> Record]]
  /\ file \in [Names -> [Versions -> Record]]
  /\ artifacts \in [Names -> [Versions -> Ids \union {0}]]
  /\ pc \in {"idle", "save", "down"}
  /\ made \in 0..MaxModels /\ promoted \subseteq 1..made
  /\ deleted \in [Names -> SUBSET Versions]
  /\ unsaved \subseteq Names \X Versions /\ cut \subseteq Names \X Versions

Init ==
  /\ models = Empty /\ file = Empty
  /\ artifacts = [n \in Names |-> [v \in Versions |-> 0]]
  /\ pc = "idle"
  /\ made = 0 /\ promoted = {}
  /\ deleted = [n \in Names |-> {}]
  /\ unsaved = {} /\ cut = {}

-----------------------------------------------------------------------------
(* Mutant of the number: the newest one again.                             *)
NextVersionAgain(n) ==
  IF Registered(models, n) = {} THEN 1 ELSE Cardinality(Registered(models, n))

(* len + 1, which after a deletion may be a version that is there.         *)
NextVersion(n) == Cardinality(Registered(models, n)) + 1

(* Mutant of log_model: a record that is there stays.                      *)
LogModelKeeping(n, stage) ==
  LET v == NextVersion(n) IN
  /\ pc = "idle" /\ made < MaxModels /\ v <= MaxVersion
  /\ made' = made + 1
  /\ models' = IF v \in Registered(models, n) THEN models
               ELSE [models EXCEPT ![n][v] = [id |-> made + 1, stage |-> stage]]
  /\ artifacts' = [artifacts EXCEPT ![n][v] = made + 1]
  /\ pc' = "save" /\ cut' = cut \ {<<n, v>>} /\ unsaved' = unsaved \union {<<n, v>>}
  /\ UNCHANGED <<promoted, file, deleted>>

(* The record is in memory before the artifact is written.  When that      *)
(* fails the call raises: the record stays, for a later call to save.      *)
LogModel(n, stage) ==
  LET v == NextVersion(n) IN
  /\ pc = "idle" /\ made < MaxModels /\ v <= MaxVersion
  /\ made' = made + 1
  /\ models' = [models EXCEPT ![n][v] = [id |-> made + 1, stage |-> stage]]
  /\ promoted' = IF stage = "PRODUCTION" THEN promoted \union {made + 1} ELSE promoted
  /\ \/ /\ artifacts' = [artifacts EXCEPT ![n][v] = made + 1]
        /\ pc' = "save" /\ cut' = cut \ {<<n, v>>} /\ unsaved' = unsaved \union {<<n, v>>}
     \/ /\ artifacts' \in {artifacts, [artifacts EXCEPT ![n][v] = 0]}
        /\ cut' = cut \union {<<n, v>>} /\ UNCHANGED <<pc, unsaved>>
  /\ UNCHANGED <<file, deleted>>

(* _archive_current_production                                             *)
Archived(n) ==
  [v \in Versions |-> IF v \in Production(models, n)
                      THEN InStage(models[n][v], "ARCHIVED") ELSE models[n][v]]

(* Mutant of transition_model_stage: nothing is archived.                  *)
TransitionOnly(n, v, stage) ==
  /\ pc = "idle" /\ v \in Registered(models, n)
  /\ models' = [models EXCEPT ![n][v] = InStage(@, stage)]
  /\ pc' = "save"
  /\ UNCHANGED <<file, artifacts, history, unsaved, cut>>

(* rollback_model archives, and then does this with the stage PRODUCTION.  *)
TransitionModelStage(n, v, stage) ==
  /\ pc = "idle" /\ v \in Registered(models, n)
  /\ LET others == IF stage = "PRODUCTION" THEN Archived(n) ELSE models[n]
     IN models' = [models EXCEPT ![n] = [others EXCEPT ![v] = InStage(@, stage)]]
  /\ pc' = "save"
  /\ UNCHANGED <<file, artifacts, history, unsaved, cut>>

(* rmtree comes first; when it fails, all or nothing may be left.          *)
DeleteModel(n, v) ==
  /\ pc = "idle" /\ v \in Registered(models, n)
  /\ \/ /\ artifacts' = [artifacts EXCEPT ![n][v] = 0]
        /\ models' = [models EXCEPT ![n][v] = Absent]
        /\ deleted' = [deleted EXCEPT ![n] = @ \union {v}]
        /\ pc' = "save" /\ unsaved' = unsaved \union {<<n, v>>} /\ UNCHANGED cut
     \/ /\ artifacts' \in {artifacts, [artifacts EXCEPT ![n][v] = 0]}
        /\ cut' = cut \union {<<n, v>>}
        /\ UNCHANGED <<models, deleted, pc, unsaved>>
  /\ UNCHANGED <<file, made, promoted>>

SaveRegistry ==
  /\ pc = "save" /\ pc' = "idle"
  /\ \/ file' = models /\ unsaved' = {}
     \/ file' \in {file, Empty} /\ UNCHANGED unsaved
  /\ UNCHANGED <<models, artifacts, history, cut>>

(* The process stops; a crash in the middle of log_model or delete_model   *)
(* leaves what one of their failures and a crash leave.                    *)
Crash ==
  /\ pc # "down" /\ pc' = "down"
  /\ models' = Empty
  /\ file' \in IF pc = "save" THEN {file, Empty} ELSE {file}
  /\ cut' = cut \union unsaved /\ unsaved' = {}
  /\ UNCHANGED <<artifacts, history>>

(* __init__                                                                *)
LoadRegistry ==
  /\ pc = "down" /\ pc' = "idle"
  /\ models' = file
  /\ UNCHANGED <<file, artifacts, history, unsaved, cut>>

Next ==
  \/ \E n \in Names, stage \in Stages :
       \/ LogModel(n, stage)
       \/ \E v \in Versions : TransitionModelStage(n, v, stage)
  \/ \E n \in Names, v \in Versions : DeleteModel(n, v)
  \/ SaveRegistry \/ Crash \/ LoadRegistry

Spec == Init /\ [][Next]_vars

-----------------------------------------------------------------------------
(* At most one version of a name is in production besides those that were  *)
(* logged in that stage, in memory and in the file, through rollbacks and  *)
(* restarts from a file that is older than the memory was.                 *)
OneProduction ==
  \A m \in {models, file} : \A n \in Names : \A v, w \in Production(m, n) :
    v = w \/ m[n][v].id \in promoted \/ m[n][w].id \in promoted

(* The artifact of a version is the model logged as that version, unless   *)
(* its last change failed half way or was cut off by a crash.              *)
ArtifactsMatch ==
  \A n \in Names : \A v \in Registered(models, n) :
    <<n, v>> \in cut \/ artifacts[n][v] = models[n][v].id

(* A version is overwritten by another model only if a version below it    *)
(* was deleted before.                                                     *)
NoOverwrite ==
  [][\A n \in Names, v \in Versions :
       models[n][v].id # 0 /\ models'[n][v].id \notin {0, models[n][v].id} =>
         \E w \in deleted[n] : w < v]_vars
==============================================================================
