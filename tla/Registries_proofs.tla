-------------------------- MODULE Registries_proofs --------------------------
(***************************************************************************)
(* The two registries.  ModelRegistry: its types and its three properties, *)
(* for any number of names, versions and models.  PredictionRegistry, from *)
(* PredictionTypes on: its types and its two properties, for any number of *)
(* threads and predictions and any horizon.                                *)
(***************************************************************************)
EXTENDS ModelRegistry, PredictionRegistry, FiniteSetTheorems, TLAPS

(* The next version is a number: what is registered is finite.             *)
LEMMA NextVersionNat ==
  ASSUME TypeOK, NEW n \in Names
  PROVE  NextVersion(n) \in Nat \ {0}
<1>1. Registered(models, n) \subseteq 1..MaxVersion
  BY DEF Registered, Versions
<1>2. IsFiniteSet(1..MaxVersion)
  BY FS_Interval, RegistryAssumption
<1>3. Cardinality(Registered(models, n)) \in Nat
  BY <1>1, <1>2, FS_Subset, FS_CardinalityType
<1> QED
  BY <1>3 DEF NextVersion

-----------------------------------------------------------------------------
LEMMA TypeInit == Init => TypeOK
BY RegistryAssumption DEF Init, TypeOK, Empty, Absent, Record, Stages

LEMMA TypeNext == TypeOK /\ [Next]_vars => TypeOK'
<1> SUFFICES ASSUME TypeOK, [Next]_vars PROVE TypeOK'
  OBVIOUS
<1> USE RegistryAssumption
<1>1. ASSUME NEW n \in Names, NEW stage \in Stages, LogModel(n, stage)
      PROVE  TypeOK'
  <2> DEFINE v == NextVersion(n)
  <2>1. v \in Versions
    BY <1>1, NextVersionNat DEF LogModel, Versions
  <2>2. made + 1 \in Ids /\ made' = made + 1 /\ made' \in 0..MaxModels
    BY <1>1 DEF LogModel, TypeOK, Ids
  <2>3. models' \in [Names -> [Versions -> Record]]
    BY <1>1, <2>1, <2>2 DEF LogModel, TypeOK, Record
  <2>4. promoted' \subseteq 1..made'
    BY <1>1, <2>2 DEF LogModel, TypeOK
  <2>5. artifacts' \in [Names -> [Versions -> Ids \union {0}]]
    <3>1. \A id \in Ids \union {0} :
            [artifacts EXCEPT ![n][v] = id] \in [Names -> [Versions -> Ids \union {0}]]
      BY <2>1 DEF TypeOK
    <3> HIDE DEF v
    <3>2. CASE artifacts' = [artifacts EXCEPT ![n][v] = made + 1]
      BY <2>2, <3>1, <3>2
    <3>3. CASE artifacts' = [artifacts EXCEPT ![n][v] = 0]
      BY <3>1, <3>3
    <3>4. CASE artifacts' = artifacts
      BY <3>4 DEF TypeOK
    <3> QED
      BY <1>1, <3>2, <3>3, <3>4 DEF LogModel, v
  <2>6. unsaved' \subseteq Names \X Versions /\ cut' \subseteq Names \X Versions
    BY <1>1, <2>1 DEF LogModel, TypeOK
  <2> HIDE DEF v
  <2> QED
    BY <1>1, <2>2, <2>3, <2>4, <2>5, <2>6 DEF LogModel, TypeOK
<1>2. ASSUME NEW n \in Names, NEW v \in Versions, NEW stage \in Stages,
             TransitionModelStage(n, v, stage)
      PROVE  TypeOK'
  <2>1. \A r \in Record, s \in Stages : InStage(r, s) \in Record
    BY DEF InStage, Record
  <2>2. Archived(n) \in [Versions -> Record]
    BY <2>1 DEF Archived, TypeOK, Stages
  <2> QED
    BY <1>2, <2>1, <2>2 DEF TransitionModelStage, TypeOK, history
<1>3. ASSUME NEW n \in Names, NEW v \in Versions, DeleteModel(n, v)
      PROVE  TypeOK'
  <2>1. Absent \in Record
    BY DEF Absent, Record, Stages
  <2> QED
    BY <1>3, <2>1 DEF DeleteModel, TypeOK
<1>4. Empty \in [Names -> [Versions -> Record]]
  BY DEF Empty, Absent, Record, Stages
<1>5. CASE SaveRegistry
  BY <1>4, <1>5 DEF SaveRegistry, TypeOK, history
<1>6. CASE Crash
  BY <1>4, <1>6 DEF Crash, TypeOK, history
<1>7. CASE LoadRegistry
  BY <1>7 DEF LoadRegistry, TypeOK, history
<1>8. CASE UNCHANGED vars
  BY <1>8 DEF vars, history, TypeOK
<1> QED
  BY <1>1, <1>2, <1>3, <1>5, <1>6, <1>7, <1>8 DEF Next

(* Every variable keeps its type, the number of the next version included. *)
THEOREM TypeCorrect == Spec => []TypeOK
BY TypeInit, TypeNext, PTL DEF Spec

-----------------------------------------------------------------------------
(* Below a version that is there, the versions that are not were deleted.  *)
HolesDeleted(m) ==
  \A n \in Names : \A v \in Registered(m, n) : \A w \in 1..v-1 :
    w \in Registered(m, n) \union deleted[n]
NumberInv ==
  /\ TypeOK
  /\ HolesDeleted(models) /\ HolesDeleted(file)
  /\ pc = "down" => models = Empty

(* The next version leaves no hole that is not a deleted version, and is   *)
(* one that is there only if there is such a hole.                         *)
LEMMA NextVersionHoles ==
  ASSUME NumberInv, NEW n \in Names
  PROVE  /\ \A w \in 1..NextVersion(n)-1 : w \in Registered(models, n) \union deleted[n]
         /\ NextVersion(n) \in Registered(models, n) =>
              \E w \in deleted[n] : w < NextVersion(n)
<1> DEFINE R == Registered(models, n)
           v == NextVersion(n)
<1>1. R \subseteq 1..MaxVersion /\ R \subseteq Nat \ {0}
  BY RegistryAssumption DEF Registered, Versions
<1>2. IsFiniteSet(R) /\ Cardinality(R) \in Nat /\ v = Cardinality(R) + 1
  <2>1. IsFiniteSet(1..MaxVersion)
    BY FS_Interval, RegistryAssumption
  <2>2. v = Cardinality(R) + 1
    BY DEF NextVersion
  <2> HIDE DEF R, v
  <2> QED
    BY <1>1, <2>1, <2>2, FS_Subset, FS_CardinalityType
<1>3. ASSUME NEW w \in 1..v-1, w \notin R PROVE w \in deleted[n]
  <2>1. PICK x \in R : w < x
    <3> SUFFICES ASSUME \A x \in R : ~ w < x PROVE FALSE
      OBVIOUS
    <3>1. R \subseteq 1..w-1
      BY <1>1, <1>2, <1>3
    <3>2. w - 1 \in Nat
      BY <1>2
    <3> HIDE DEF R
    <3>3. IsFiniteSet(1..w-1) /\ Cardinality(1..w-1) = w - 1
      BY <3>2, FS_Interval
    <3>4. Cardinality(R) <= w - 1
      BY <3>1, <3>3, FS_Subset
    <3> QED
      BY <1>2, <3>2, <3>4
  <2> QED
    BY <1>1, <1>3, <2>1 DEF NumberInv, HolesDeleted
<1>4. ASSUME v \in R PROVE \E w \in deleted[n] : w < v
  <2>1. PICK w \in 1..v-1 : w \notin R
    <3> SUFFICES ASSUME \A w \in 1..v-1 : w \in R PROVE FALSE
      OBVIOUS
    <3>1. 1..v \subseteq R
      BY <1>2, <1>4
    <3> HIDE DEF R
    <3>2. Cardinality(1..v) = v
      BY <1>2, FS_Interval
    <3>3. Cardinality(1..v) <= Cardinality(R)
      BY <1>2, <3>1, FS_Subset
    <3> QED
      BY <1>2, <3>2, <3>3
  <2> QED
    BY <1>2, <1>3, <2>1
<1> QED
  BY <1>3, <1>4

LEMMA NumberInit == Init => NumberInv
BY TypeInit DEF Init, NumberInv, HolesDeleted, Registered, Empty, Absent

LEMMA NumberNext == NumberInv /\ [Next]_vars => NumberInv'
<1> SUFFICES ASSUME NumberInv, [Next]_vars PROVE NumberInv'
  OBVIOUS
<1>0. (pc = "down" => models = Empty)'
  <2>1. ASSUME UNCHANGED vars PROVE (pc = "down" => models = Empty)'
    <3>1. pc' = pc /\ models' = models
      BY <2>1 DEF vars
    <3> QED
      BY <3>1 DEF NumberInv, Empty
  <2>2. ASSUME Next, pc' = "down" PROVE Crash
    <3>1. \A n \in Names, stage \in Stages : ~ LogModel(n, stage)
      BY <2>2 DEF LogModel
    <3>2. \A n \in Names, v \in Versions, stage \in Stages : ~ TransitionModelStage(n, v, stage)
      BY <2>2 DEF TransitionModelStage
    <3>3. \A n \in Names, v \in Versions : ~ DeleteModel(n, v)
      BY <2>2 DEF DeleteModel
    <3>4. ~ SaveRegistry /\ ~ LoadRegistry
      BY <2>2 DEF SaveRegistry, LoadRegistry
    <3> QED
      BY <2>2, <3>1, <3>2, <3>3, <3>4 DEF Next
  <2> QED
    BY <2>1, <2>2 DEF Crash, Empty
<1> USE DEF NumberInv
<1>1. ASSUME NEW n \in Names, NEW stage \in Stages, LogModel(n, stage)
      PROVE  HolesDeleted(models)' /\ HolesDeleted(file)'
  <2> DEFINE v == NextVersion(n)
  <2>1. v \in Versions
    BY <1>1, NextVersionNat, RegistryAssumption DEF LogModel, Versions
  <2>2. Registered(models, n)' = Registered(models, n) \union {v}
    BY <1>1, <2>1 DEF LogModel, Registered, TypeOK
  <2>3. \A k \in Names \ {n} : Registered(models, k)' = Registered(models, k)
    BY <1>1 DEF LogModel, Registered, TypeOK
  <2>4. deleted' = deleted /\ file' = file
    BY <1>1 DEF LogModel
  <2>5. \A w \in 1..v-1 : w \in Registered(models, n) \union deleted[n]
    BY NextVersionHoles
  <2> HIDE DEF v
  <2> QED
    BY <2>2, <2>3, <2>4, <2>5 DEF HolesDeleted, Registered
<1>2. ASSUME NEW n \in Names, NEW v \in Versions, NEW stage \in Stages,
             TransitionModelStage(n, v, stage)
      PROVE  HolesDeleted(models)' /\ HolesDeleted(file)'
  <2>1. \A k \in Names, x \in Versions : models'[k][x].id = models[k][x].id
    BY <1>2 DEF TransitionModelStage, TypeOK, Archived, InStage
  <2> QED
    BY <1>2, <2>1 DEF TransitionModelStage, history, HolesDeleted, Registered
<1>3. ASSUME NEW n \in Names, NEW v \in Versions, DeleteModel(n, v)
      PROVE  HolesDeleted(models)' /\ HolesDeleted(file)'
  <2>1. CASE UNCHANGED <<models, deleted>>
    BY <1>3, <2>1 DEF DeleteModel, HolesDeleted, Registered
  <2>2. CASE /\ models' = [models EXCEPT ![n][v] = Absent]
             /\ deleted' = [deleted EXCEPT ![n] = @ \union {v}]
    <3>1. Registered(models, n)' = Registered(models, n) \ {v}
      BY <2>2 DEF Registered, TypeOK, Absent
    <3>2. \A k \in Names \ {n} : Registered(models, k)' = Registered(models, k)
      BY <2>2 DEF Registered, TypeOK
    <3>3. deleted'[n] = deleted[n] \union {v} /\ \A k \in Names \ {n} : deleted'[k] = deleted[k]
      BY <2>2 DEF TypeOK
    <3>4. file' = file
      BY <1>3 DEF DeleteModel
    <3> QED
      BY <3>1, <3>2, <3>3, <3>4 DEF HolesDeleted, Registered
  <2> QED
    BY <1>3, <2>1, <2>2 DEF DeleteModel
<1>4. HolesDeleted(Empty)
  BY DEF HolesDeleted, Registered, Empty, Absent
<1>5. ASSUME SaveRegistry PROVE HolesDeleted(models)' /\ HolesDeleted(file)'
  BY <1>4, <1>5 DEF SaveRegistry, history, HolesDeleted, Registered
<1>6. ASSUME Crash PROVE HolesDeleted(models)' /\ HolesDeleted(file)'
  BY <1>4, <1>6 DEF Crash, history, HolesDeleted, Registered
<1>7. ASSUME LoadRegistry PROVE HolesDeleted(models)' /\ HolesDeleted(file)'
  BY <1>7 DEF LoadRegistry, history, HolesDeleted, Registered
<1>8. ASSUME UNCHANGED vars PROVE HolesDeleted(models)' /\ HolesDeleted(file)'
  BY <1>8 DEF vars, history, HolesDeleted, Registered
<1>9. HolesDeleted(models)' /\ HolesDeleted(file)'
  BY <1>1, <1>2, <1>3, <1>5, <1>6, <1>7, <1>8 DEF Next
<1> QED
  BY <1>0, <1>9, TypeNext

(* Only a version above a deleted one is ever overwritten.                 *)
THEOREM Overwriting == Spec => NoOverwrite
<1> DEFINE Step == \A n \in Names, v \in Versions :
                     models[n][v].id # 0 /\ models'[n][v].id \notin {0, models[n][v].id} =>
                       \E w \in deleted[n] : w < v
<1>1. NumberInv /\ [Next]_vars => [Step]_vars
  <2> SUFFICES ASSUME NumberInv, [Next]_vars, NEW n \in Names, NEW v \in Versions,
                      models[n][v].id # 0, models'[n][v].id \notin {0, models[n][v].id}
               PROVE  \E w \in deleted[n] : w < v
    OBVIOUS
  <2> USE DEF NumberInv, TypeOK
  <2>1. ASSUME NEW k \in Names, NEW stage \in Stages, LogModel(k, stage)
        PROVE  \E w \in deleted[n] : w < v
    <3>1. NextVersion(k) \in Versions
      BY <2>1, NextVersionNat, RegistryAssumption DEF LogModel, Versions
    <3>2. k = n /\ v = NextVersion(n)
      BY <2>1, <3>1 DEF LogModel
    <3> QED
      BY <3>2, NextVersionHoles DEF Registered
  <2>2. ASSUME NEW k \in Names, NEW x \in Versions, NEW stage \in Stages,
               TransitionModelStage(k, x, stage)
        PROVE  FALSE
    BY <2>2 DEF TransitionModelStage, Archived, InStage
  <2>3. ASSUME NEW k \in Names, NEW x \in Versions, DeleteModel(k, x) PROVE FALSE
    <3>1. models' = models \/ models' = [models EXCEPT ![k][x] = Absent]
      BY <2>3 DEF DeleteModel
    <3>2. models'[n][v] = models[n][v] \/ models'[n][v] = Absent
      <4>1. CASE k = n /\ x = v
        BY <3>1, <4>1
      <4>2. CASE ~ (k = n /\ x = v)
        BY <3>1, <4>2
      <4> QED
        BY <4>1, <4>2
    <3> QED
      BY <3>2 DEF Absent
  <2>4. CASE SaveRegistry \/ Crash
    BY <2>4 DEF SaveRegistry, Crash, Empty, Absent
  <2>5. CASE LoadRegistry
    BY <2>5 DEF LoadRegistry, Empty, Absent
  <2>6. CASE UNCHANGED vars
    BY <2>6 DEF vars
  <2> QED
    BY <2>1, <2>2, <2>3, <2>4, <2>5, <2>6 DEF Next
<1> QED
  BY <1>1, NumberInit, NumberNext, PTL DEF Spec, NoOverwrite

-----------------------------------------------------------------------------
(* One version in production that was not logged so, of one set of models. *)
One(m) ==
  \A n \in Names : \A v, w \in Production(m, n) :
    v = w \/ m[n][v].id \in promoted \/ m[n][w].id \in promoted

LEMMA OneEmpty == One(Empty)
BY DEF One, Production, Registered, Empty, Absent

LEMMA OneNext ==
  ASSUME NumberInv, One(models), One(file), [Next]_vars
  PROVE  One(models)' /\ One(file)'
<1> USE DEF NumberInv, TypeOK
<1>1. ASSUME NEW n \in Names, NEW stage \in Stages, LogModel(n, stage)
      PROVE  One(models)' /\ One(file)'
  <2> DEFINE v == NextVersion(n)
  <2>1. v \in Versions
    BY <1>1, NextVersionNat, RegistryAssumption DEF LogModel, Versions
  <2>2. file' = file /\ promoted \subseteq promoted'
    BY <1>1 DEF LogModel
  <2>3. models'[n][v].stage = "PRODUCTION" => models'[n][v].id \in promoted'
    BY <1>1, <2>1 DEF LogModel
  <2>4. \A k \in Names, x \in Versions : (k # n \/ x # v) => models'[k][x] = models[k][x]
    BY <1>1, <2>1 DEF LogModel
  <2> HIDE DEF v, TypeOK
  <2>5. One(file)'
    BY <2>2 DEF One, Production, Registered
  <2>6. One(models)'
    BY <2>1, <2>2, <2>3, <2>4 DEF One, Production, Registered
  <2> QED
    BY <2>5, <2>6
<1>2. ASSUME NEW n \in Names, NEW v \in Versions, NEW stage \in Stages,
             TransitionModelStage(n, v, stage)
      PROVE  One(models)' /\ One(file)'
  <2>1. \A k \in Names, x \in Versions :
          /\ models'[k][x].id = models[k][x].id
          /\ k # n => models'[k][x] = models[k][x]
          /\ x # v => models'[k][x].stage \in {models[k][x].stage, "ARCHIVED"}
    BY <1>2 DEF TransitionModelStage, Archived, InStage
  <2>2. stage = "PRODUCTION" =>
          \A x \in Registered(models, n) \ {v} : models'[n][x].stage # "PRODUCTION"
    BY <1>2 DEF TransitionModelStage, Archived, InStage, Registered, Production
  <2>3. models'[n][v].stage = stage
    BY <1>2 DEF TransitionModelStage, Archived, InStage
  <2>4. UNCHANGED <<file, promoted>>
    BY <1>2 DEF TransitionModelStage, history
  <2> HIDE DEF TypeOK
  <2>5. One(models)'
    BY <2>1, <2>2, <2>3, <2>4 DEF One, Production, Registered
  <2> QED
    BY <2>4, <2>5 DEF One, Production, Registered
<1>3. ASSUME NEW n \in Names, NEW v \in Versions, DeleteModel(n, v)
      PROVE  One(models)' /\ One(file)'
  <2>1. models' = models \/ models' = [models EXCEPT ![n][v] = Absent]
    BY <1>3 DEF DeleteModel
  <2>2. \A k \in Names, x \in Versions : models'[k][x] \in {models[k][x], Absent}
    <3>1. \A k \in Names, x \in Versions :
            [models EXCEPT ![n][v] = Absent][k][x] \in {models[k][x], Absent}
      OBVIOUS
    <3> QED
      BY <2>1, <3>1
  <2>3. UNCHANGED <<file, promoted>>
    BY <1>3 DEF DeleteModel
  <2> HIDE DEF TypeOK
  <2> QED
    BY <2>2, <2>3 DEF One, Production, Registered, Absent
<1>4. ASSUME SaveRegistry PROVE One(models)' /\ One(file)'
  BY <1>4, OneEmpty DEF SaveRegistry, history, One, Production, Registered
<1>5. ASSUME Crash PROVE One(models)' /\ One(file)'
  BY <1>5, OneEmpty DEF Crash, history, One, Production, Registered
<1>6. ASSUME LoadRegistry PROVE One(models)' /\ One(file)'
  BY <1>6 DEF LoadRegistry, history, One, Production, Registered
<1>7. ASSUME UNCHANGED vars PROVE One(models)' /\ One(file)'
  BY <1>7 DEF vars, history, One, Production, Registered
<1> QED
  BY <1>1, <1>2, <1>3, <1>4, <1>5, <1>6, <1>7 DEF Next

(* A promotion leaves one version in production, also after restarts.      *)
THEOREM Promotion == Spec => []OneProduction
<1>1. OneProduction <=> One(models) /\ One(file)
  BY DEF OneProduction, One
<1>2. Init => One(models) /\ One(file)
  BY OneEmpty DEF Init
<1>3. NumberInv /\ One(models) /\ One(file) /\ [Next]_vars => One(models)' /\ One(file)'
  BY OneNext
<1> QED
  BY <1>1, <1>2, <1>3, NumberInit, NumberNext, PTL DEF Spec

-----------------------------------------------------------------------------
(* What the file says of a version that has not changed since it was       *)
(* written holds on disk; a crash forgets all the rest.                    *)
ArtifactInv ==
  /\ NumberInv
  /\ ArtifactsMatch
  /\ \A n \in Names : \A v \in Registered(file, n) :
       <<n, v>> \in cut \union unsaved \/ artifacts[n][v] = file[n][v].id
  /\ pc = "down" => unsaved = {}

Matches(m, lost) ==
  \A n \in Names : \A v \in Registered(m, n) :
    <<n, v>> \in lost \/ artifacts[n][v] = m[n][v].id

LEMMA ArtifactParts ==
  ArtifactInv <=> /\ NumberInv
                  /\ Matches(models, cut) /\ Matches(file, cut \union unsaved)
                  /\ pc = "down" => unsaved = {}
BY DEF ArtifactInv, ArtifactsMatch, Matches

LEMMA ArtifactNext == ArtifactInv /\ [Next]_vars => ArtifactInv'
<1> SUFFICES ASSUME ArtifactInv, [Next]_vars PROVE ArtifactInv'
  OBVIOUS
<1> DEFINE Goal == /\ Matches(models, cut)' /\ Matches(file, cut \union unsaved)'
                   /\ (pc = "down" => unsaved = {})'
<1>0. /\ NumberInv /\ TypeOK
      /\ Matches(models, cut) /\ Matches(file, cut \union unsaved)
      /\ pc = "down" => unsaved = {}
  BY ArtifactParts DEF NumberInv
<1>1. ASSUME NEW n \in Names, NEW stage \in Stages, LogModel(n, stage) PROVE Goal
  <2> DEFINE v == NextVersion(n)
  <2>1. v \in Versions
    BY <1>0, <1>1, NextVersionNat, RegistryAssumption DEF LogModel, Versions
  <2>2. /\ models'[n][v].id = made + 1
        /\ \A k \in Names, x \in Versions : (k # n \/ x # v) => models'[k][x] = models[k][x]
    BY <1>0, <1>1, <2>1 DEF LogModel, TypeOK
  <2>3. file' = file /\ (pc = "down" => unsaved = {})'
    BY <1>1 DEF LogModel
  <2>4. CASE /\ artifacts' = [artifacts EXCEPT ![n][v] = made + 1]
             /\ cut' = cut \ {<<n, v>>} /\ unsaved' = unsaved \union {<<n, v>>}
    <3>1. /\ artifacts'[n][v] = made + 1
          /\ \A k \in Names, x \in Versions :
               (k # n \/ x # v) => artifacts'[k][x] = artifacts[k][x]
      BY <1>0, <2>1, <2>4 DEF TypeOK
    <3> HIDE DEF v
    <3> QED
      BY <1>0, <2>1, <2>2, <2>3, <2>4, <3>1 DEF Matches, Registered
  <2>5. CASE /\ artifacts' = artifacts \/ artifacts' = [artifacts EXCEPT ![n][v] = 0]
             /\ cut' = cut \union {<<n, v>>} /\ unsaved' = unsaved
    <3>1. \A k \in Names, x \in Versions :
            (k # n \/ x # v) => artifacts'[k][x] = artifacts[k][x]
      <4>1. \A k \in Names, x \in Versions : (k # n \/ x # v) =>
              [artifacts EXCEPT ![n][v] = 0][k][x] = artifacts[k][x]
        BY <1>0, <2>1 DEF TypeOK
      <4> QED
        BY <2>5, <4>1
    <3> HIDE DEF v
    <3> QED
      BY <1>0, <2>1, <2>2, <2>3, <2>5, <3>1 DEF Matches, Registered
  <2> QED
    BY <1>1, <2>4, <2>5 DEF LogModel
<1>2. ASSUME NEW n \in Names, NEW v \in Versions, NEW stage \in Stages,
             TransitionModelStage(n, v, stage)
      PROVE  Goal
  <2>1. \A k \in Names, x \in Versions : models'[k][x].id = models[k][x].id
    BY <1>0, <1>2 DEF TransitionModelStage, Archived, InStage, TypeOK
  <2> QED
    BY <1>0, <1>2, <2>1 DEF TransitionModelStage, history, Matches, Registered
<1>3. ASSUME NEW n \in Names, NEW v \in Versions, DeleteModel(n, v) PROVE Goal
  <2>1. file' = file /\ (pc = "down" => unsaved = {})'
    BY <1>3 DEF DeleteModel
  <2>2. \A k \in Names, x \in Versions :
          (k # n \/ x # v) => /\ artifacts'[k][x] = artifacts[k][x]
                             /\ models'[k][x] = models[k][x]
    <3>1. \A k \in Names, x \in Versions : (k # n \/ x # v) =>
            /\ [artifacts EXCEPT ![n][v] = 0][k][x] = artifacts[k][x]
            /\ [models EXCEPT ![n][v] = Absent][k][x] = models[k][x]
      BY <1>0 DEF TypeOK
    <3>2. artifacts' = artifacts \/ artifacts' = [artifacts EXCEPT ![n][v] = 0]
      BY <1>3 DEF DeleteModel
    <3>3. models' = models \/ models' = [models EXCEPT ![n][v] = Absent]
      BY <1>3 DEF DeleteModel
    <3>4. \A k \in Names, x \in Versions : (k # n \/ x # v) => artifacts'[k][x] = artifacts[k][x]
      <4>1. CASE artifacts' = [artifacts EXCEPT ![n][v] = 0]
        BY <3>1, <4>1
      <4> QED
        BY <3>2, <4>1
    <3>5. \A k \in Names, x \in Versions : (k # n \/ x # v) => models'[k][x] = models[k][x]
      <4>1. CASE models' = [models EXCEPT ![n][v] = Absent]
        BY <3>1, <4>1
      <4> QED
        BY <3>3, <4>1
    <3> QED
      BY <3>4, <3>5
  <2>3. CASE models'[n][v] = Absent /\ unsaved' = unsaved \union {<<n, v>>} /\ cut' = cut
    BY <1>0, <2>1, <2>2, <2>3 DEF Matches, Registered, Absent
  <2>4. CASE models' = models /\ unsaved' = unsaved /\ cut' = cut \union {<<n, v>>}
    BY <1>0, <2>1, <2>2, <2>4 DEF Matches, Registered
  <2>5. models' = [models EXCEPT ![n][v] = Absent] => models'[n][v] = Absent
    BY <1>0 DEF TypeOK
  <2> QED
    BY <1>3, <2>3, <2>4, <2>5 DEF DeleteModel
<1>4. Matches(Empty, {})' /\ \A n \in Names : Registered(Empty, n) = {}
  BY DEF Matches, Registered, Empty, Absent
<1>5. ASSUME SaveRegistry PROVE Goal
  BY <1>0, <1>4, <1>5 DEF SaveRegistry, history, Matches, Registered
<1>6. ASSUME Crash PROVE Goal
  BY <1>0, <1>4, <1>6 DEF Crash, history, Matches, Registered
<1>7. ASSUME LoadRegistry PROVE Goal
  BY <1>0, <1>7 DEF LoadRegistry, history, Matches, Registered
<1>8. ASSUME UNCHANGED vars PROVE Goal
  BY <1>0, <1>8 DEF vars, history, Matches, Registered
<1>9. Goal
  BY <1>1, <1>2, <1>3, <1>5, <1>6, <1>7, <1>8 DEF Next
<1>10. NumberInv'
  BY <1>0, NumberNext
<1> QED
  BY <1>9, <1>10, ArtifactParts, PTL

(* The artifact on disk is that of the version, whatever was interrupted   *)
(* elsewhere.                                                              *)
THEOREM Artifacts == Spec => []ArtifactsMatch
<1>1. Init => ArtifactInv
  BY NumberInit DEF ArtifactInv, ArtifactsMatch, Init, Registered, Empty, Absent
<1>2. ArtifactInv => ArtifactsMatch
  BY DEF ArtifactInv
<1> QED
  BY <1>1, <1>2, ArtifactNext, PTL DEF Spec

-----------------------------------------------------------------------------
(* PredictionRegistry.  The rows are numbered from one; a thread sweeps    *)
(* under the lock, over rows that nobody resolves meanwhile.               *)
PredictionTypes ==
  /\ rows \in Tables /\ saved \in Tables
  /\ lock \subseteq Threads
  /\ doing \in [Threads -> {"idle", "waiting", "sweeping", "demoting"}]
  /\ since \in [Threads -> Times]
  /\ todo \in [Threads -> SUBSET DOMAIN rows]
  /\ demotions \in Nat
  /\ now \in 0..MaxTime

LEMMA RowNumbers ==
  ASSUME NEW r \in Tables
  PROVE  \E k \in 0..MaxPredictions : /\ r \in [1..k -> Row]
                                      /\ Cardinality(DOMAIN r) = k
<1>1. PICK k \in 0..MaxPredictions : r \in [1..k -> Row]
  BY DEF Tables
<1>2. Cardinality(1..k) = k
  BY <1>1, FS_Interval, PredictionAssumption
<1>3. QED BY <1>1, <1>2

LEMMA ResolvedTypes ==
  ASSUME PredictionTypes, NEW p \in DOMAIN rows, NEW time \in Times,
         NEW who \in {"caller", "sweep"}
  PROVE  /\ Resolved(p, who, time) \in Tables
         /\ DOMAIN Resolved(p, who, time) = DOMAIN rows
         /\ Resolved(p, who, time)[p].by = who
         /\ \A q \in DOMAIN rows \ {p} : Resolved(p, who, time)[q] = rows[q]
<1>1. PICK k \in 0..MaxPredictions : rows \in [1..k -> Row]
  BY DEF PredictionTypes, Tables
<1>2. Resolved(p, who, time) \in [1..k -> Row]
  BY <1>1 DEF Resolved, Row
<1>3. Resolved(p, who, time) \in Tables
  BY <1>2 DEF Tables
<1>4. QED BY <1>1, <1>3 DEF Resolved, Row

LEMMA PredictionTypesInit == PredictionsInit => PredictionTypes
<1> SUFFICES ASSUME PredictionsInit PROVE PredictionTypes
  OBVIOUS
<1>1. rows \in [1..0 -> Row]
  BY DEF PredictionsInit
<1>2. rows \in Tables
  BY <1>1, PredictionAssumption DEF Tables
<1>3. 0 \in Times /\ 0 \in 0..MaxTime
  BY PredictionAssumption DEF Times
<1>4. QED BY <1>2, <1>3 DEF PredictionsInit, PredictionTypes

LEMMA PredictionTypesNext ==
  PredictionTypes /\ [PredictionsNext]_predictionVars => PredictionTypes'
<1> SUFFICES ASSUME PredictionTypes, [PredictionsNext]_predictionVars PROVE PredictionTypes'
  OBVIOUS
<1> USE PredictionAssumption
<1>1. ASSUME NEW t \in Threads, NEW stamp \in Times, RecordPrediction(t, stamp)
      PROVE  PredictionTypes'
  <2>1. PICK k \in 0..MaxPredictions : rows \in [1..k -> Row] /\ Cardinality(DOMAIN rows) = k
    BY RowNumbers DEF PredictionTypes
  <2>2. k + 1 \in 0..MaxPredictions
    BY <1>1, <2>1 DEF RecordPrediction
  <2>3. [made |-> stamp, by |-> "nobody", at |-> 0] \in Row
    BY DEF Row, Times
  <2>4. rows' \in [1..(k + 1) -> Row] /\ DOMAIN rows \subseteq DOMAIN rows'
    BY <1>1, <2>1, <2>3 DEF RecordPrediction
  <2>5. rows' \in Tables
    BY <2>2, <2>4 DEF Tables
  <2>6. QED BY <1>1, <2>4, <2>5 DEF RecordPrediction, Commit, PredictionTypes
<1>2. ASSUME NEW t \in Threads, NEW p \in DOMAIN rows, NEW time \in Times,
             ResolvePrediction(t, p, time)
      PROVE  PredictionTypes'
  BY <1>2, ResolvedTypes DEF ResolvePrediction, Commit, PredictionTypes
<1>3. ASSUME NEW t \in Threads, ResolveExpired(t) PROVE PredictionTypes'
  <2>1. now \in Times
    BY DEF PredictionTypes, Times
  <2>2. QED BY <1>3, <2>1 DEF ResolveExpired, PredictionTypes
<1>4. ASSUME NEW t \in Threads, NEW priced \in SUBSET DOMAIN rows, SelectExpired(t, priced)
      PROVE  PredictionTypes'
  BY <1>4 DEF SelectExpired, Expired, PredictionTypes
<1>5. ASSUME NEW t \in Threads, NEW p \in DOMAIN rows, UpdateRow(t, p)
      PROVE  PredictionTypes'
  <2>1. since[t] \in Times
    BY DEF PredictionTypes
  <2>2. rows' \in Tables /\ DOMAIN rows' = DOMAIN rows
    BY <1>5, <2>1, ResolvedTypes DEF UpdateRow
  <2>3. QED BY <1>5, <2>2 DEF UpdateRow, PredictionTypes
<1>6. ASSUME NEW t \in Threads, CommitSweep(t) \/ FailSweep(t) PROVE PredictionTypes'
  BY <1>6 DEF CommitSweep, FailSweep, Commit, PredictionTypes
<1>7. ASSUME NEW t \in Threads, CheckDemotions(t) \/ LogDemotion(t) PROVE PredictionTypes'
  BY <1>7 DEF CheckDemotions, LogDemotion, Commit, PredictionTypes
<1>8. CASE Tick
  BY <1>8 DEF Tick, PredictionTypes
<1>9. CASE CrashRestart
  BY <1>9 DEF CrashRestart, PredictionTypes
<1>10. CASE UNCHANGED predictionVars
  BY <1>10 DEF predictionVars, PredictionTypes
<1>11. QED
  BY <1>1, <1>2, <1>3, <1>4, <1>5, <1>6, <1>7, <1>8, <1>9, <1>10 DEF PredictionsNext

SweepInv ==
  /\ PredictionTypes
  /\ \A t \in Threads : doing[t] = "sweeping" => lock = {t}
  /\ \A t \in Threads : todo[t] # {} => doing[t] = "sweeping"
  /\ \A t \in Threads : \A p \in todo[t] : rows[p].by = "nobody"
  /\ SavedUnlessSwept

LEMMA SweepNext == SweepInv /\ [PredictionsNext]_predictionVars => SweepInv'
<1> SUFFICES ASSUME SweepInv, [PredictionsNext]_predictionVars PROVE SweepInv'
  OBVIOUS
<1>1. PredictionTypes /\ PredictionTypes'
  BY PredictionTypesNext DEF SweepInv
<1>2. ASSUME NEW t \in Threads, NEW stamp \in Times, RecordPrediction(t, stamp)
      PROVE  SweepInv'
  <2>1. \A u \in Threads : todo[u] = {}
    BY <1>1, <1>2 DEF RecordPrediction, SweepInv
  <2>2. QED BY <1>1, <1>2, <2>1 DEF RecordPrediction, Commit, SweepInv, SavedUnlessSwept
<1>3. ASSUME NEW t \in Threads, NEW p \in DOMAIN rows, NEW time \in Times,
             ResolvePrediction(t, p, time)
      PROVE  SweepInv'
  <2>1. \A u \in Threads : todo[u] = {}
    BY <1>1, <1>3 DEF ResolvePrediction, SweepInv
  <2>2. QED BY <1>1, <1>3, <2>1 DEF ResolvePrediction, Commit, SweepInv, SavedUnlessSwept
<1>4. ASSUME NEW t \in Threads, ResolveExpired(t) PROVE SweepInv'
  BY <1>1, <1>4 DEF ResolveExpired, SweepInv, SavedUnlessSwept, PredictionTypes
<1>5. ASSUME NEW t \in Threads, NEW priced \in SUBSET DOMAIN rows, SelectExpired(t, priced)
      PROVE  SweepInv'
  <2>1. todo' = [todo EXCEPT ![t] = Expired(t) \intersect priced]
    BY <1>5 DEF SelectExpired
  <2>2. \A u \in Threads : \A p \in todo'[u] : rows[p].by = "nobody"
    BY <1>1, <2>1 DEF Expired, SweepInv, PredictionTypes
  <2>3. QED
    BY <1>1, <1>5, <2>2 DEF SelectExpired, SweepInv, SavedUnlessSwept, PredictionTypes
<1>6. ASSUME NEW t \in Threads, NEW p \in DOMAIN rows, UpdateRow(t, p)
      PROVE  SweepInv'
  <2>1. /\ DOMAIN rows' = DOMAIN rows
        /\ rows'[p].by = "sweep"
        /\ \A q \in DOMAIN rows \ {p} : rows'[q] = rows[q]
    <3>1. since[t] \in Times
      BY <1>1 DEF PredictionTypes
    <3>2. QED BY <1>1, <1>6, <3>1, ResolvedTypes DEF UpdateRow
  <2>2. lock = {t} /\ \A u \in Threads \ {t} : todo[u] = {}
    BY <1>1, <1>6 DEF UpdateRow, SweepInv
  <2>3. todo' = [todo EXCEPT ![t] = @ \ {p}]
    BY <1>6 DEF UpdateRow
  <2>4. rows[p].by = "nobody"
    BY <1>6 DEF UpdateRow, SweepInv
  <2>5. saved[p].by = "nobody"
    BY <2>4 DEF SweepInv, SavedUnlessSwept
  <2>6. SavedUnlessSwept'
    BY <1>6, <2>1, <2>5 DEF UpdateRow, SweepInv, SavedUnlessSwept
  <2>7. \A u \in Threads : \A q \in todo'[u] : rows'[q].by = "nobody"
    BY <1>1, <2>1, <2>2, <2>3 DEF SweepInv, PredictionTypes
  <2>8. \A u \in Threads : /\ doing'[u] = "sweeping" => lock' = {u}
                           /\ todo'[u] # {} => doing'[u] = "sweeping"
    BY <1>1, <1>6, <2>2, <2>3 DEF UpdateRow, SweepInv, PredictionTypes
  <2>9. QED BY <1>1, <2>6, <2>7, <2>8 DEF SweepInv
<1>7. ASSUME NEW t \in Threads, CommitSweep(t) PROVE SweepInv'
  BY <1>1, <1>7 DEF CommitSweep, Commit, SweepInv, SavedUnlessSwept, PredictionTypes
<1>8. ASSUME NEW t \in Threads, FailSweep(t) PROVE SweepInv'
  BY <1>1, <1>8 DEF FailSweep, SweepInv, SavedUnlessSwept, PredictionTypes
<1>9. ASSUME NEW t \in Threads, CheckDemotions(t) PROVE SweepInv'
  BY <1>1, <1>9 DEF CheckDemotions, SweepInv, SavedUnlessSwept, PredictionTypes
<1>10. ASSUME NEW t \in Threads, LogDemotion(t) PROVE SweepInv'
  BY <1>1, <1>10 DEF LogDemotion, Commit, SweepInv, SavedUnlessSwept, PredictionTypes
<1>11. CASE Tick
  BY <1>1, <1>11 DEF Tick, SweepInv, SavedUnlessSwept
<1>12. CASE CrashRestart
  BY <1>1, <1>12 DEF CrashRestart, SweepInv, SavedUnlessSwept
<1>13. CASE UNCHANGED predictionVars
  BY <1>1, <1>13 DEF predictionVars, SweepInv, SavedUnlessSwept
<1>14. QED
  BY <1>2, <1>3, <1>4, <1>5, <1>6, <1>7, <1>8, <1>9, <1>10, <1>11, <1>12, <1>13
     DEF PredictionsNext

LEMMA SweepInit == PredictionsInit => SweepInv
BY PredictionTypesInit DEF PredictionsInit, SweepInv, SavedUnlessSwept

(* Only what a sweep found is ever not committed.                          *)
THEOREM SavedButSweeps == PredictionsSpec => []SavedUnlessSwept
<1>1. SweepInv => SavedUnlessSwept
  BY DEF SweepInv
<1>2. QED BY <1>1, SweepInit, SweepNext, PTL DEF PredictionsSpec

(* No sweep and no crash takes away an outcome that a caller gave.         *)
THEOREM CallersOutcomes == PredictionsSpec => OutcomesKept
<1> DEFINE Kept == \A p \in DOMAIN rows :
                     rows[p].by = "caller" => p \in DOMAIN rows' /\ rows'[p].by = "caller"
<1>1. SweepInv /\ [PredictionsNext]_predictionVars => [Kept]_predictionVars
  <2> SUFFICES ASSUME SweepInv, PredictionsNext,
                      NEW p \in DOMAIN rows, rows[p].by = "caller"
               PROVE  p \in DOMAIN rows' /\ rows'[p].by = "caller"
    OBVIOUS
  <2>1. PredictionTypes
    BY DEF SweepInv
  <2>2. ASSUME NEW t \in Threads, NEW stamp \in Times, RecordPrediction(t, stamp)
        PROVE  p \in DOMAIN rows' /\ rows'[p].by = "caller"
    <3>1. PICK k \in 0..MaxPredictions : rows \in [1..k -> Row] /\ Cardinality(DOMAIN rows) = k
      BY <2>1, RowNumbers DEF PredictionTypes
    <3>2. rows' = [q \in 1..(k + 1) |->
                     IF q = k + 1 THEN [made |-> stamp, by |-> "nobody", at |-> 0] ELSE rows[q]]
      BY <2>2, <3>1 DEF RecordPrediction
    <3>3. QED BY <3>1, <3>2
  <2>3. ASSUME NEW t \in Threads, NEW q \in DOMAIN rows, NEW time \in Times,
               ResolvePrediction(t, q, time)
        PROVE  p \in DOMAIN rows' /\ rows'[p].by = "caller"
    <3>1. /\ DOMAIN rows' = DOMAIN rows
          /\ rows'[q].by = "caller"
          /\ \A r \in DOMAIN rows \ {q} : rows'[r] = rows[r]
      BY <2>1, <2>3, ResolvedTypes DEF ResolvePrediction
    <3>2. QED BY <3>1
  <2>4. ASSUME NEW t \in Threads, NEW q \in DOMAIN rows, UpdateRow(t, q)
        PROVE  p \in DOMAIN rows' /\ rows'[p].by = "caller"
    <3>1. q # p /\ since[t] \in Times
      BY <2>1, <2>4 DEF UpdateRow, SweepInv, PredictionTypes
    <3>2. /\ DOMAIN rows' = DOMAIN rows
          /\ \A r \in DOMAIN rows \ {q} : rows'[r] = rows[r]
      BY <2>1, <2>4, <3>1, ResolvedTypes DEF UpdateRow
    <3>3. QED BY <3>1, <3>2
  <2>5. CASE CrashRestart
    BY <2>5 DEF CrashRestart, SweepInv, SavedUnlessSwept
  <2>6. CASE UNCHANGED rows
    BY <2>6
  <2>7. QED
    BY <2>2, <2>3, <2>4, <2>5, <2>6
       DEF PredictionsNext, ResolveExpired, SelectExpired, CommitSweep, FailSweep,
           CheckDemotions, LogDemotion, Tick
<1>2. QED BY <1>1, SweepInit, SweepNext, PTL DEF PredictionsSpec, OutcomesKept

(* As many demotions are logged or about to be as there are threads: they  *)
(* are those that looked before the first was logged.                      *)
Demoting == {t \in Threads : doing[t] = "demoting"}
DemotionInv == demotions + Cardinality(Demoting) <= Cardinality(Threads)

LEMMA DemotionNext ==
  SweepInv /\ DemotionInv /\ [PredictionsNext]_predictionVars => DemotionInv'
<1> SUFFICES ASSUME SweepInv, DemotionInv, [PredictionsNext]_predictionVars
             PROVE  DemotionInv'
  OBVIOUS
<1>1. PredictionTypes
  BY DEF SweepInv
<1>2. \A S \in SUBSET Threads :
        IsFiniteSet(S) /\ Cardinality(S) \in Nat /\ Cardinality(S) <= Cardinality(Threads)
  BY PredictionAssumption, FS_Subset, FS_CardinalityType
<1>3. Demoting \in SUBSET Threads /\ Demoting' \in SUBSET Threads /\ Cardinality(Threads) \in Nat
  BY <1>2 DEF Demoting
<1>4. ASSUME demotions' = demotions, Demoting' \subseteq Demoting
      PROVE  DemotionInv'
  <2>1. Cardinality(Demoting') <= Cardinality(Demoting)
    BY <1>2, <1>3, <1>4, FS_Subset
  <2>2. QED BY <1>1, <1>2, <1>3, <1>4, <2>1 DEF DemotionInv, PredictionTypes
<1>5. ASSUME NEW t \in Threads, CheckDemotions(t) PROVE DemotionInv'
  <2>1. demotions' = 0
    BY <1>5 DEF CheckDemotions
  <2>2. QED BY <1>2, <1>3, <2>1 DEF DemotionInv
<1>6. ASSUME NEW t \in Threads, LogDemotion(t) PROVE DemotionInv'
  <2>1. t \in Demoting /\ Demoting' = Demoting \ {t} /\ demotions' = demotions + 1
    BY <1>1, <1>6 DEF LogDemotion, Demoting, PredictionTypes
  <2>2. Cardinality(Demoting') = Cardinality(Demoting) - 1
    BY <1>2, <1>3, <2>1, FS_RemoveElement
  <2>3. QED BY <1>1, <1>2, <1>3, <2>1, <2>2 DEF DemotionInv, PredictionTypes
<1>7. ASSUME NEW t \in Threads, NEW priced \in SUBSET DOMAIN rows,
             ResolveExpired(t) \/ SelectExpired(t, priced) \/ CommitSweep(t) \/ FailSweep(t)
      PROVE  DemotionInv'
  BY <1>1, <1>4, <1>7
     DEF ResolveExpired, SelectExpired, CommitSweep, FailSweep, Demoting, PredictionTypes
<1>8. CASE UNCHANGED <<doing, demotions>>
  BY <1>4, <1>8 DEF Demoting
<1>9. CASE CrashRestart
  BY <1>4, <1>9 DEF CrashRestart, Demoting
<1>10. QED
  BY <1>5, <1>6, <1>7, <1>8, <1>9
     DEF PredictionsNext, RecordPrediction, ResolvePrediction, UpdateRow, Tick, predictionVars

OneHolder == Cardinality(lock) <= 1

(* Every variable of the registry keeps its type; each thread logs at most *)
(* one demotion, and one thread at most holds the lock.                    *)
THEOREM PredictionsTypes == PredictionsSpec => []PredictionsTypeOK
<1>1. PredictionsInit => DemotionInv /\ OneHolder
  <2> SUFFICES ASSUME PredictionsInit PROVE DemotionInv /\ OneHolder
    OBVIOUS
  <2>1. Demoting = {} /\ demotions = 0 /\ lock = {}
    BY DEF PredictionsInit, Demoting
  <2>2. Cardinality(Threads) \in Nat
    BY PredictionAssumption, FS_CardinalityType
  <2>3. QED BY <2>1, <2>2, FS_EmptySet DEF DemotionInv, OneHolder
<1>2. SweepInv /\ OneHolder /\ [PredictionsNext]_predictionVars => OneHolder'
  <2> SUFFICES ASSUME SweepInv, OneHolder, [PredictionsNext]_predictionVars
               PROVE  OneHolder'
    OBVIOUS
  <2>1. lock' = lock \/ lock' = {} \/ \E t \in Threads : lock' = {t}
    BY DEF PredictionsNext, RecordPrediction, ResolvePrediction, ResolveExpired, SelectExpired,
           UpdateRow, CommitSweep, FailSweep, CheckDemotions, LogDemotion, Tick, CrashRestart,
           predictionVars, SweepInv
  <2>2. CASE lock' = lock
    BY <2>2 DEF OneHolder
  <2>3. CASE lock' = {}
    <3>1. Cardinality(lock') = 0
      BY <2>3, FS_EmptySet
    <3>2. QED BY <3>1 DEF OneHolder
  <2>4. ASSUME NEW t \in Threads, lock' = {t} PROVE OneHolder'
    <3>1. Cardinality(lock') = 1
      BY <2>4, FS_Singleton
    <3>2. QED BY <3>1 DEF OneHolder
  <2>5. QED BY <2>1, <2>2, <2>3, <2>4
<1>3. SweepInv /\ DemotionInv /\ OneHolder => PredictionsTypeOK
  <2> SUFFICES ASSUME SweepInv, DemotionInv, OneHolder PROVE PredictionsTypeOK
    OBVIOUS
  <2>1. Cardinality(Demoting) \in Nat /\ Cardinality(Threads) \in Nat
    BY PredictionAssumption, FS_Subset, FS_CardinalityType DEF Demoting
  <2>2. demotions \in 0..Cardinality(Threads)
    BY <2>1 DEF DemotionInv, SweepInv, PredictionTypes
  <2>3. QED BY <2>2 DEF SweepInv, PredictionTypes, PredictionsTypeOK, OneHolder
<1>4. QED
  BY <1>1, <1>2, <1>3, SweepInit, SweepNext, DemotionNext, PTL DEF PredictionsSpec
=============================================================================
