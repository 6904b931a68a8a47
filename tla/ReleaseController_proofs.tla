----------------------- MODULE ReleaseController_proofs -----------------------
(***************************************************************************)
(* Theorems about ReleaseController, for every value of its constants: the *)
(* type invariant, that no Secret or Deployment is ever orphaned, that the *)
(* controller undoes nobody's write, that a pod's report always fits, and  *)
(* that the controller keeps the promise of ReleaseHome.                   *)
(***************************************************************************)
EXTENDS ReleaseController, TLAPS

-----------------------------------------------------------------------------
(* The pure decisions return what they should. *)

LEMMA TemplateType == ASSUME NEW spec \in Specs
                      PROVE  Template(spec) \in Templates /\ Template(spec).work \in Works
  BY DEF Template, Templates, Works

LEMMA TemplateWork == ASSUME NEW t \in Templates PROVE t.work \in Works
  BY DEF Template, Templates, Works

LEMMA AppendType == ASSUME NEW c \in Conditions, NEW type \in CondTypes
                    PROVE  AppendCondition(c, type) \in Conditions
  BY DEF AppendCondition, Conditions

LEMMA PruneType == ASSUME NEW c \in Conditions, NEW phase
                   PROVE  PruneConditions(c, phase) \in Conditions
  BY DEF PruneConditions, Conditions

LEMMA ReleasePhaseType == ASSUME NEW r PROVE ReleasePhase(r) \in Phases
  BY DEF ReleasePhase, Phases

LEMMA DeployerPhaseType == ASSUME NEW d PROVE DeployerPhase(d) \in DeployerPhases
  BY DEF DeployerPhase, DeployerPhases

LEMMA WantedType ==
  ASSUME NEW d \in Deployments, NEW r \in Releases, NEW s \in Secrets
  PROVE  /\ Wanted(d, r, s) \in Deployments
         /\ Wanted(d, r, s).ns = d.ns
         /\ Wanted(d, r, s).name = d.name
  <1>1. Template(r.spec) \in Templates
    BY TemplateType DEF Releases
  <1>2. Replicas(r) \in 0..1
    BY DEF Replicas
  <1>3. s.name \in ObjectNames
    BY DEF Secrets
  <1>4. QED
    BY <1>1, <1>2, <1>3 DEF Wanted, Deployments

LEMMA StatusUpdateType ==
  ASSUME TypeOK, NEW status \in Statuses, UpdateStatus(status)
  PROVE  rel' \in Releases /\ relStale' \in BOOLEAN
  BY DEF TypeOK, UpdateStatus, Releases

LEMMA CascadeType == ASSUME TypeOK, Cascade
                     PROVE  pods' \subseteq Pods /\ deployStale' \subseteq ObjectNames
  BY DEF TypeOK, Cascade, Deployments

LEMMA CleanupType ==
  ASSUME TypeOK, NEW ns, Cleanup(ns)
  PROVE  /\ secrets' \subseteq Secrets /\ deploys' \subseteq Deployments
         /\ pods' \subseteq Pods /\ deployStale' \subseteq ObjectNames
  BY CascadeType DEF TypeOK, Cleanup

LEMMA SetDeploymentType ==
  ASSUME TypeOK, NEW d \in deploys, NEW e \in Deployments, SetDeployment(d, e)
  PROVE  deploys' \subseteq Deployments /\ deployStale' \subseteq ObjectNames
  BY DEF TypeOK, SetDeployment, Deployments

LEMMA PatchType ==
  ASSUME TypeOK, NEW applied \in Works \cup {Nothing}, NEW type \in CondTypes,
         Patch(applied, type)
  PROVE  rel' \in Releases /\ relStale' \in BOOLEAN
  <1>1. rel.status \in Statuses /\ rel.status.conditions \in Conditions
    BY DEF TypeOK, Releases, Statuses
  <1>2. AppendCondition(rel.status.conditions, type) \in Conditions
    BY <1>1, AppendType
  <1>3. [rel.status EXCEPT !.applied = applied,
                           !.conditions = AppendCondition(rel.status.conditions, type)] \in Statuses
    BY <1>1, <1>2 DEF Statuses
  <1>4. QED
    BY <1>1, <1>2, <1>3 DEF TypeOK, Patch, Releases, Statuses

-----------------------------------------------------------------------------
(* Type correctness. *)

LEMMA SyncType == ASSUME TypeOK, Sync PROVE TypeOK'
  <1>0. /\ UNCHANGED <<relC, secretsC, deploysC, ref, budget>>
        /\ relC \in Releases /\ relC.status \in Statuses /\ relC.status.conditions \in Conditions
    BY DEF Sync, caches, TypeOK, Releases, Statuses
  <1>1. CASE SyncNothing
    BY <1>0, <1>1 DEF TypeOK, SyncNothing, objects
  <1>2. CASE SyncDelete
    <2>1. rel' \in Releases /\ relStale' \in BOOLEAN
      BY <1>0, <1>2 DEF TypeOK, SyncDelete, Update, Releases
    <2>2. /\ secrets' \subseteq Secrets /\ deploys' \subseteq Deployments
          /\ pods' \subseteq Pods /\ deployStale' \subseteq ObjectNames
      BY <1>2, CleanupType DEF TypeOK, SyncDelete
    <2>3. QED
      BY <1>0, <1>2, <2>1, <2>2 DEF TypeOK, SyncDelete, Done
  <1>3. CASE SyncCleanupFails
    <2>1. Cascade
      BY <1>3 DEF SyncCleanupFails
    <2>2. secrets' \subseteq secrets /\ deploys' \subseteq deploys /\ UNCHANGED <<rel, relStale, queued>>
      BY <1>3 DEF SyncCleanupFails
    <2>3. QED
      BY <1>0, <2>1, <2>2, CascadeType DEF TypeOK
  <1>4. CASE SyncFinalizer
    <2>1. rel' \in Releases /\ relStale' \in BOOLEAN
      BY <1>0, <1>4 DEF TypeOK, SyncFinalizer, Update, Releases
    <2>2. QED
      BY <1>0, <1>4, <2>1 DEF TypeOK, SyncFinalizer, Done
  <1>5. CASE SyncNamespace
    <2> DEFINE status == [relC.status EXCEPT
                            !.ns = PodNamespace(relC),
                            !.deployerPhase = IF relC.status.ns = "" THEN "Pending" ELSE @]
    <2>1. status \in Statuses /\ UpdateStatus(status)
      BY <1>0, <1>5 DEF SyncNamespace, Statuses, PodNamespace, Namespaces, DeployerPhases
    <2>2. /\ secrets' \subseteq Secrets /\ deploys' \subseteq Deployments
          /\ pods' \subseteq Pods /\ deployStale' \subseteq ObjectNames
      BY <1>5, CleanupType DEF TypeOK, SyncNamespace
    <2>3. QED
      BY <1>0, <1>5, <2>1, <2>2, StatusUpdateType DEF TypeOK, SyncNamespace, Done
  <1>6. CASE SyncPhase
    <2> DEFINE phase == ReleasePhase(relC)
               status == [relC.status EXCEPT
                            !.phase = phase,
                            !.conditions = IF phase = "Running"
                                           THEN AppendCondition(@, "DeployerReady") ELSE @]
    <2>1. AppendCondition(relC.status.conditions, "DeployerReady") \in Conditions
      BY <1>0, AppendType DEF CondTypes
    <2>2. status \in Statuses
      BY <1>0, <2>1, ReleasePhaseType DEF Statuses
    <2>3. UpdateStatus(status)
      BY <1>6 DEF SyncPhase
    <2>4. QED
      BY <1>0, <1>6, <2>2, <2>3, StatusUpdateType DEF TypeOK, SyncPhase, Done
  <1>7. CASE SyncCreateSecret
    <2>1. ref \in Contents
      BY <1>7, RefAssumption DEF TypeOK, SyncCreateSecret, Phased
    <2>2. PICK n \in ObjectNames, t \in 1..SecretAges :
            secrets' = secrets \cup {[name |-> n, created |-> t, ns |-> PodNamespace(relC), data |-> ref]}
      BY <1>7 DEF SyncCreateSecret, NewName, NewAge
    <2>3. secrets' \subseteq Secrets
      BY <2>1, <2>2 DEF TypeOK, Secrets, PodNamespace, Namespaces
    <2>4. QED
      BY <1>0, <1>7, <2>3 DEF TypeOK, SyncCreateSecret, Done
  <1>8. CASE SyncRecordSecret
    <2>1. PICK s \in secretsC : UpdateStatus([relC.status EXCEPT !.secret = s.name])
      BY <1>8 DEF SyncRecordSecret
    <2>2. s.name \in 0..Names
      BY BoundsAssumption DEF TypeOK, Secrets, ObjectNames
    <2>3. [relC.status EXCEPT !.secret = s.name] \in Statuses
      BY <1>0, <2>2 DEF Statuses
    <2>4. QED
      BY <1>0, <1>8, <2>1, <2>3, StatusUpdateType DEF TypeOK, SyncRecordSecret, Done
  <1>9. CASE SyncCreateDeployment
    <2> DEFINE Blank(n, t) == [name |-> n, created |-> t, ns |-> PodNamespace(relC),
                               template |-> Template(relC.spec), secret |-> 0, replicas |-> 0,
                               first |-> TRUE, observed |-> FALSE, available |-> FALSE]
    <2>1. PICK s \in secretsC, n \in ObjectNames, t \in 1..DeployAges :
            deploys' = deploys \cup {Wanted(Blank(n, t), relC, s)}
      BY <1>9 DEF SyncCreateDeployment, NewName, NewAge
    <2>2. Wanted(Blank(n, t), relC, s) \in Deployments
      <3>1. Template(relC.spec) \in Templates /\ Replicas(relC) \in 0..1
        BY <1>0, TemplateType DEF Releases, Replicas
      <3>2. s.name \in ObjectNames /\ PodNamespace(relC) \in Namespaces
        BY DEF TypeOK, Secrets, PodNamespace, Namespaces
      <3>3. QED
        BY <3>1, <3>2 DEF Wanted, Deployments
    <2>3. QED
      BY <1>0, <1>9, <2>1, <2>2 DEF TypeOK, SyncCreateDeployment, Done
  <1>10. CASE SyncUpdateDeployment
    <2>1. PICK s \in secretsC, d \in deploysC :
            /\ deploys' = {e \in deploys : e.name # d.name} \cup
                            {[Wanted(d, relC, s) EXCEPT !.first = FALSE, !.observed = FALSE]}
            /\ deployStale' = deployStale \cup {d.name}
      BY <1>10 DEF SyncUpdateDeployment
    <2>2. Wanted(d, relC, s) \in Deployments
      BY <1>0, WantedType DEF TypeOK
    <2>3. [Wanted(d, relC, s) EXCEPT !.first = FALSE, !.observed = FALSE] \in Deployments
      BY <2>2 DEF Deployments
    <2>4. d.name \in ObjectNames
      BY DEF TypeOK, Deployments
    <2>5. QED
      BY <1>0, <1>10, <2>1, <2>3, <2>4 DEF TypeOK, SyncUpdateDeployment, Done
  <1>11. CASE SyncObserve
    <2>1. PICK s \in secretsC, d \in deploysC : UpdateStatus(ObservedStatus(relC, d))
      BY <1>11 DEF SyncObserve
    <2>2. d.name \in 0..Names /\ DeployerPhase(d) \in DeployerPhases
      BY DeployerPhaseType, BoundsAssumption DEF TypeOK, Deployments, ObjectNames
    <2>3. ObservedStatus(relC, d) \in Statuses
      BY <1>0, <2>2 DEF ObservedStatus, Statuses, Releases
    <2>4. QED
      BY <1>0, <1>11, <2>1, <2>3, StatusUpdateType DEF TypeOK, SyncObserve, Done
  <1>12. CASE SyncDeleteSecret
    BY <1>0, <1>12 DEF TypeOK, SyncDeleteSecret, Done
  <1>13. CASE SyncPrune
    <2>1. PICK s \in secretsC, d \in deploysC :
            LET pruned == PruneConditions(relC.status.conditions, DeployerPhase(d)) IN
              IF pruned = relC.status.conditions
              THEN UNCHANGED <<rel, relStale>> /\ queued' = FALSE
              ELSE UpdateStatus([relC.status EXCEPT !.conditions = pruned]) /\ Done
      BY <1>13 DEF SyncPrune
    <2>2. [relC.status EXCEPT !.conditions =
             PruneConditions(relC.status.conditions, DeployerPhase(d))] \in Statuses
      BY <1>0, PruneType DEF Statuses
    <2>3. rel' \in Releases /\ relStale' \in BOOLEAN /\ queued' \in BOOLEAN
      BY <2>1, <2>2, StatusUpdateType DEF TypeOK, Done
    <2>4. QED
      BY <1>0, <1>13, <2>3 DEF TypeOK, SyncPrune
  <1>14. QED
    BY <1>1, <1>2, <1>3, <1>4, <1>5, <1>6, <1>7, <1>8, <1>9, <1>10, <1>11, <1>12, <1>13 DEF Sync

LEMMA OthersType == ASSUME TypeOK, Informers \/ Restart \/ User PROVE TypeOK'
  <1>1. CASE Informers
    BY <1>1 DEF TypeOK, Informers, RefreshRelease, RefreshSecrets, RefreshDeployments, objects
  <1>2. CASE Restart
    <2>1. queued' \in BOOLEAN
      BY <1>2 DEF Restart
    <2>2. budget' \in Nat
      BY <1>2 DEF TypeOK, Restart
    <2>3. /\ relC' = rel /\ relStale' = FALSE /\ secretsC' = secrets /\ deploysC' = deploys
          /\ deployStale' = {} /\ UNCHANGED <<rel, secrets, deploys, pods, ref>>
      BY <1>2 DEF Restart, objects
    <2>4. QED
      BY <2>1, <2>2, <2>3 DEF TypeOK
  <1>3. CASE Edit
    <2>0. PICK spec \in Specs : rel' = [rel EXCEPT !.spec = spec, !.generation = @ + 1]
      BY <1>3 DEF Edit
    <2>a. rel \in Releases /\ rel.generation + 1 \in Nat
      BY DEF TypeOK, Releases
    <2>1. rel' \in Releases
      BY <2>0, <2>a DEF Releases
    <2>2. QED
      BY <1>3, <2>1 DEF TypeOK, Edit, Spend, caches
  <1>4. CASE SwitchNamespace
    <2>1. rel' \in Releases
      BY <1>4 DEF TypeOK, SwitchNamespace, Releases
    <2>2. QED
      BY <1>4, <2>1 DEF TypeOK, SwitchNamespace, Spend, caches
  <1>5. CASE Delete
    <2>1. rel \in Releases /\ rel.generation + 1 \in Nat
      BY DEF TypeOK, Releases
    <2>2. CASE rel.finalizer
      <3>1. rel' = [rel EXCEPT !.deleting = TRUE, !.generation = @ + 1]
        BY <1>5, <2>2 DEF Delete
      <3>2. QED
        BY <1>5, <2>1, <3>1 DEF TypeOK, Delete, Releases, caches
    <2>3. CASE ~rel.finalizer
      <3>1. rel' = [rel EXCEPT !.exists = FALSE]
        BY <1>5, <2>3 DEF Delete
      <3>2. QED
        BY <1>5, <2>1, <3>1 DEF TypeOK, Delete, Releases, caches
    <2>4. QED
      BY <2>2, <2>3
  <1>6. CASE ChangeRefSecret
    BY <1>6 DEF TypeOK, ChangeRefSecret, Spend, objects, caches
  <1>7. QED
    BY <1>1, <1>2, <1>3, <1>4, <1>5, <1>6 DEF User

LEMMA KubeType == ASSUME TypeOK, Kube \/ PodFails PROVE TypeOK'
  <1>1. CASE KubeObserve
    <2>1. PICK d \in deploys :
            LET stay == {p \in pods : p.of = d.name => Fits(p, d)} IN
              /\ pods' = stay
              /\ SetDeployment(d, [d EXCEPT !.observed = TRUE, !.available = @ /\ pods = stay])
      BY <1>1 DEF KubeObserve
    <2> DEFINE stay == {p \in pods : p.of = d.name => Fits(p, d)}
               e == [d EXCEPT !.observed = TRUE, !.available = @ /\ pods = stay]
    <2>2. e \in Deployments
      BY DEF TypeOK, Deployments
    <2>3. SetDeployment(d, e) /\ pods' \subseteq pods
      BY <2>1
    <2>4. deploys' \subseteq Deployments /\ deployStale' \subseteq ObjectNames
      BY <2>2, <2>3, SetDeploymentType
    <2>5. QED
      BY <1>1, <2>3, <2>4 DEF TypeOK, KubeObserve, caches
  <1>2. CASE KubeStart
    <2>1. PICK d \in deploys :
            pods' = pods \cup {[of |-> d.name, template |-> d.template, secret |-> d.secret,
                               state |-> "waiting"]}
      BY <1>2 DEF KubeStart
    <2>2. pods' \subseteq Pods
      BY <2>1 DEF TypeOK, Deployments, Pods
    <2>3. QED
      BY <1>2, <2>2 DEF TypeOK, KubeStart, objects, caches
  <1>3. CASE KubeReady
    <2>1. PICK d \in deploys : SetDeployment(d, [d EXCEPT !.available = TRUE])
      BY <1>3 DEF KubeReady
    <2>2. [d EXCEPT !.available = TRUE] \in Deployments
      BY DEF TypeOK, Deployments
    <2>3. deploys' \subseteq Deployments /\ deployStale' \subseteq ObjectNames
      BY <2>1, <2>2, SetDeploymentType
    <2>4. QED
      BY <1>3, <2>3 DEF TypeOK, KubeReady, caches
  <1>4. CASE PodFails
    <2>1. PICK p \in pods, d \in deploys :
            /\ pods' = (pods \ {p}) \cup {[p EXCEPT !.state = "waiting"]}
            /\ IF d.available THEN SetDeployment(d, [d EXCEPT !.available = FALSE])
                              ELSE UNCHANGED <<deploys, deployStale>>
      BY <1>4 DEF PodFails
    <2>2. [d EXCEPT !.available = FALSE] \in Deployments
      BY DEF TypeOK, Deployments
    <2>3. deploys' \subseteq Deployments /\ deployStale' \subseteq ObjectNames
      BY <2>1, <2>2, SetDeploymentType DEF TypeOK
    <2>4. pods' \subseteq Pods
      BY <2>1 DEF TypeOK, Pods
    <2>5. QED
      BY <1>4, <2>3, <2>4 DEF TypeOK, PodFails, Spend, caches
  <1>5. QED
    BY <1>1, <1>2, <1>3, <1>4 DEF Kube

LEMMA TurnType ==
  ASSUME TypeOK, NEW p \in pods, NEW state \in {"waiting", "idle", "testing"}, Turn(p, state)
  PROVE  pods' \subseteq Pods
  BY DEF TypeOK, Turn, Pods

LEMMA DeployerType == ASSUME TypeOK, Deployer PROVE TypeOK'
  <1>0. \A p \in pods : p.template.work \in Works \cup {Nothing}
    BY TemplateWork DEF TypeOK, Pods
  <1>a. rel.status.applied \in Works \cup {Nothing}
    BY DEF TypeOK, Releases, Statuses
  <1>1. CASE PodBegins
    <2>1. pods' \subseteq Pods
      BY <1>1, TurnType DEF PodBegins
    <2>2. QED
      BY <1>1, <2>1 DEF TypeOK, PodBegins, objects, caches
  <1>2. CASE PodDeploys
    <2>1. PICK p \in pods : Patch(p.template.work, "ReleaseDeployed") /\ Turn(p, "testing")
      BY <1>2 DEF PodDeploys
    <2>2. rel' \in Releases /\ relStale' \in BOOLEAN /\ pods' \subseteq Pods
      BY <1>0, <2>1, PatchType, TurnType DEF CondTypes
    <2>3. QED
      BY <2>1, <2>2 DEF TypeOK, Patch, caches
  <1>3. CASE PodChecks
    <2>1. PICK p \in pods : Patch(rel.status.applied, "ReleaseChecked") /\ Turn(p, "idle")
      BY <1>3 DEF PodChecks
    <2>2. rel' \in Releases /\ relStale' \in BOOLEAN /\ pods' \subseteq Pods
      BY <1>a, <2>1, PatchType, TurnType DEF CondTypes
    <2>3. QED
      BY <2>1, <2>2 DEF TypeOK, Patch, caches
  <1>4. CASE PodRechecks
    <2>1. pods' \subseteq Pods
      BY <1>4, TurnType DEF PodRechecks
    <2>2. QED
      BY <1>4, <2>1 DEF TypeOK, PodRechecks, objects, caches
  <1>5. CASE PodTestFails
    <2>1. pods' \subseteq Pods
      BY <1>5, TurnType DEF PodTestFails
    <2>2. QED
      BY <1>5, <2>1 DEF TypeOK, PodTestFails, objects, caches
  <1>6. QED
    BY <1>1, <1>2, <1>3, <1>4, <1>5 DEF Deployer

(* The type invariant of every behaviour. *)
THEOREM TypeCorrect == Spec => []TypeOK
  <1>1. Init => TypeOK
    <2> SUFFICES ASSUME Init PROVE TypeOK
      OBVIOUS
    <2>1. NoConditions \in Conditions
      BY DEF NoConditions, Conditions, CondTypes
    <2>2. NewStatus \in Statuses
      BY <2>1, BoundsAssumption DEF NewStatus, Statuses, Phases, DeployerPhases
    <2>3. rel \in Releases
      BY <2>2 DEF Init, Releases
    <2>4. QED
      BY <2>3, BoundsAssumption DEF Init, TypeOK
  <1>2. TypeOK /\ [Next]_vars => TypeOK'
    <2> SUFFICES ASSUME TypeOK, [Next]_vars PROVE TypeOK'
      OBVIOUS
    <2>1. CASE Next
      BY <2>1, SyncType, OthersType, KubeType, DeployerType DEF Next
    <2>2. CASE UNCHANGED vars
      BY <2>2 DEF TypeOK, vars
    <2>3. QED
      BY <2>1, <2>2
  <1>3. QED
    BY <1>1, <1>2, PTL DEF Spec

-----------------------------------------------------------------------------
(* No orphans.  NoOrphans is not inductive: a call creates objects in the  *)
(* namespace its cached Release names (CreatesAtHome), and the updates     *)
(* that move or remove the home are accepted only from a current copy.     *)

CacheCurrent == ~relStale => relC = rel

HomeInv == CacheCurrent /\ CreatesAtHome /\ NoOrphans

(* A call that an update of the Release accepts read the Release itself. *)
LEMMA AcceptedIsCurrent == ASSUME CacheCurrent, Accepted PROVE relC = rel
  BY DEF CacheCurrent, Accepted

(* An update of the status that leaves the namespace alone. *)
LEMMA StatusKeepsHome ==
  ASSUME TypeOK, HomeInv, NEW status \in Statuses, UpdateStatus(status),
         status.ns = relC.status.ns,
         UNCHANGED relC, secrets' = secrets, deploys' = deploys
  PROVE  HomeInv'
  <1>1. relC = rel
    BY AcceptedIsCurrent DEF HomeInv, UpdateStatus
  <1>2. rel' = [rel EXCEPT !.status = status] /\ relStale' = TRUE
    BY DEF UpdateStatus
  <1>3. /\ rel'.exists = rel.exists /\ rel'.finalizer = rel.finalizer
        /\ rel'.status.ns = rel.status.ns
    BY <1>1, <1>2 DEF TypeOK, Releases
  <1>4. Placed(relC)' = Placed(relC)
    BY DEF Placed, Valid, PodNamespace
  <1>5. QED
    BY <1>2, <1>3, <1>4 DEF HomeInv, CacheCurrent, CreatesAtHome, NoOrphans

(* Objects come and go, the Release stays: enough if the new are at home.  *)
LEMMA ObjectsKeepHome ==
  ASSUME HomeInv, UNCHANGED <<rel, relC, relStale>>,
         \A x \in secrets' \cup deploys' :
            x \in secrets \cup deploys \/ (Placed(relC) /\ x.ns = relC.status.ns)
  PROVE  HomeInv'
  <1>1. Placed(relC)' = Placed(relC) /\ PodNamespace(relC)' = PodNamespace(relC)
    BY DEF Placed, Valid, PodNamespace
  <1>2. Placed(relC) => relC.status.ns = PodNamespace(relC)
    BY DEF Placed
  <1>3. QED
    BY <1>1, <1>2 DEF HomeInv, CacheCurrent, CreatesAtHome, NoOrphans

(* All the objects there are go with a cleanup of the home.                *)
LEMMA CleanupLeavesNothing ==
  ASSUME NoOrphans, rel.status.ns # "" => Cleanup(rel.status.ns),
         TypeOK
  PROVE  rel.status.ns # "" => secrets' = {} /\ deploys' = {}
  BY DEF NoOrphans, Cleanup

LEMMA NothingWithoutHome ==
  ASSUME NoOrphans, TypeOK, rel.status.ns = ""
  PROVE  secrets = {} /\ deploys = {}
  BY DEF NoOrphans, TypeOK, Secrets, Deployments, Namespaces

LEMMA SyncHome == ASSUME TypeOK, HomeInv, Sync PROVE HomeInv'
  <1>0. /\ UNCHANGED relC
        /\ relC \in Releases /\ relC.status \in Statuses /\ relC.status.conditions \in Conditions
    BY DEF Sync, caches, TypeOK, Releases, Statuses
  <1>a. Placed(relC)' = Placed(relC)
    BY <1>0 DEF Placed, Valid, PodNamespace
  <1>1. CASE SyncNothing
    BY <1>0, <1>1, ObjectsKeepHome DEF SyncNothing, objects
  <1>2. CASE SyncDelete
    <2>1. relC = rel /\ rel'.status = rel.status /\ relStale' = TRUE /\ relC.deleting
      BY <1>0, <1>2, AcceptedIsCurrent DEF HomeInv, SyncDelete, Update, Releases
    <2>2. secrets' = {} /\ deploys' = {}
      BY <1>2, <2>1, CleanupLeavesNothing, NothingWithoutHome DEF HomeInv, SyncDelete
    <2>3. ~Placed(relC)
      BY <2>1 DEF Placed, Valid
    <2>4. QED
      BY <1>a, <2>1, <2>2, <2>3 DEF HomeInv, CacheCurrent, CreatesAtHome, NoOrphans
  <1>3. CASE SyncCleanupFails
    <2>1. secrets' \subseteq secrets /\ deploys' \subseteq deploys /\ UNCHANGED <<rel, relStale>>
      BY <1>3 DEF SyncCleanupFails
    <2>2. QED
      BY <1>0, <2>1, ObjectsKeepHome
  <1>4. CASE SyncFinalizer
    <2>1. /\ relC = rel /\ ~relC.finalizer /\ relStale' = TRUE
          /\ UNCHANGED <<secrets, deploys>>
      BY <1>4, AcceptedIsCurrent DEF HomeInv, SyncFinalizer, Update
    <2>2. ~Placed(relC) /\ secrets = {} /\ deploys = {}
      BY <2>1 DEF Placed, HomeInv, NoOrphans
    <2>3. QED
      BY <1>a, <2>1, <2>2 DEF HomeInv, CacheCurrent, CreatesAtHome, NoOrphans
  <1>5. CASE SyncNamespace
    <2>1. relC = rel /\ relStale' = TRUE
      BY <1>5, AcceptedIsCurrent DEF HomeInv, SyncNamespace, UpdateStatus
    <2>2. secrets' = {} /\ deploys' = {}
      BY <1>5, <2>1, CleanupLeavesNothing, NothingWithoutHome DEF HomeInv, SyncNamespace
    <2>3. ~Placed(relC)
      BY <1>5 DEF Placed, SyncNamespace
    <2>4. QED
      BY <1>a, <2>1, <2>2, <2>3 DEF HomeInv, CacheCurrent, CreatesAtHome, NoOrphans
  <1>6. CASE SyncPhase
    <2> DEFINE phase == ReleasePhase(relC)
               status == [relC.status EXCEPT
                            !.phase = phase,
                            !.conditions = IF phase = "Running"
                                           THEN AppendCondition(@, "DeployerReady") ELSE @]
    <2>1. AppendCondition(relC.status.conditions, "DeployerReady") \in Conditions
      BY <1>0, AppendType DEF CondTypes
    <2>2. status \in Statuses /\ status.ns = relC.status.ns
      BY <1>0, <2>1, ReleasePhaseType DEF Statuses
    <2>3. UpdateStatus(status) /\ UNCHANGED <<secrets, deploys>>
      BY <1>6 DEF SyncPhase
    <2>4. QED
      BY <1>0, <2>2, <2>3, StatusKeepsHome
  <1>7. CASE SyncCreateSecret
    <2>1. PICK n, t :
            secrets' = secrets \cup {[name |-> n, created |-> t, ns |-> PodNamespace(relC), data |-> ref]}
      BY <1>7 DEF SyncCreateSecret
    <2>2. Placed(relC) /\ PodNamespace(relC) = relC.status.ns /\ UNCHANGED <<rel, relStale, deploys>>
      BY <1>7 DEF SyncCreateSecret, Phased, Placed
    <2>3. QED
      BY <1>0, <2>1, <2>2, ObjectsKeepHome
  <1>8. CASE SyncRecordSecret
    <2>1. PICK s \in secretsC : UpdateStatus([relC.status EXCEPT !.secret = s.name])
      BY <1>8 DEF SyncRecordSecret
    <2>2. s.name \in 0..Names
      BY BoundsAssumption DEF TypeOK, Secrets, ObjectNames
    <2>3. /\ [relC.status EXCEPT !.secret = s.name] \in Statuses
          /\ [relC.status EXCEPT !.secret = s.name].ns = relC.status.ns
      BY <1>0, <2>2 DEF Statuses
    <2>4. UNCHANGED <<secrets, deploys>>
      BY <1>8 DEF SyncRecordSecret
    <2>5. QED
      BY <1>0, <2>1, <2>3, <2>4, StatusKeepsHome
  <1>9. CASE SyncCreateDeployment
    <2> DEFINE Blank(n, t) == [name |-> n, created |-> t, ns |-> PodNamespace(relC),
                               template |-> Template(relC.spec), secret |-> 0, replicas |-> 0,
                               first |-> TRUE, observed |-> FALSE, available |-> FALSE]
    <2>1. PICK s \in secretsC, n \in ObjectNames, t \in 1..DeployAges :
            deploys' = deploys \cup {Wanted(Blank(n, t), relC, s)}
      BY <1>9 DEF SyncCreateDeployment, NewName, NewAge
    <2>2. Placed(relC) /\ PodNamespace(relC) = relC.status.ns /\ UNCHANGED <<rel, relStale, secrets>>
      BY <1>9 DEF SyncCreateDeployment, Recorded, Equipped, Phased, Placed
    <2>3. Wanted(Blank(n, t), relC, s).ns = PodNamespace(relC)
      BY DEF Wanted
    <2>4. QED
      BY <1>0, <2>1, <2>2, <2>3, ObjectsKeepHome
  <1>10. CASE SyncUpdateDeployment
    <2>1. PICK s \in secretsC, d \in deploysC :
            /\ Recorded(relC, s) /\ d \in OwnDeploys(relC)
            /\ deploys' = {e \in deploys : e.name # d.name} \cup
                            {[Wanted(d, relC, s) EXCEPT !.first = FALSE, !.observed = FALSE]}
      BY <1>10 DEF SyncUpdateDeployment, Youngest
    <2>2. Placed(relC) /\ d.ns = relC.status.ns /\ UNCHANGED <<rel, relStale, secrets>>
      BY <1>10, <2>1 DEF SyncUpdateDeployment, Recorded, Equipped, Phased, Placed, OwnDeploys
    <2>3. Wanted(d, relC, s) \in Deployments /\ Wanted(d, relC, s).ns = d.ns
      BY <1>0, WantedType DEF TypeOK
    <2>4. [Wanted(d, relC, s) EXCEPT !.first = FALSE, !.observed = FALSE].ns = d.ns
      BY <2>3 DEF Deployments
    <2>5. QED
      BY <1>0, <2>1, <2>2, <2>4, ObjectsKeepHome
  <1>11. CASE SyncObserve
    <2>1. PICK s \in secretsC, d \in deploysC : UpdateStatus(ObservedStatus(relC, d))
      BY <1>11 DEF SyncObserve
    <2>2. d.name \in 0..Names /\ DeployerPhase(d) \in DeployerPhases
      BY DeployerPhaseType, BoundsAssumption DEF TypeOK, Deployments, ObjectNames
    <2>3. ObservedStatus(relC, d) \in Statuses /\ ObservedStatus(relC, d).ns = relC.status.ns
      BY <1>0, <2>2 DEF ObservedStatus, Statuses, Releases
    <2>4. UNCHANGED <<secrets, deploys>>
      BY <1>11 DEF SyncObserve
    <2>5. QED
      BY <1>0, <2>1, <2>3, <2>4, StatusKeepsHome
  <1>12. CASE SyncDeleteSecret
    <2>1. secrets' \subseteq secrets /\ UNCHANGED <<rel, relStale, deploys>>
      BY <1>12 DEF SyncDeleteSecret
    <2>2. QED
      BY <1>0, <2>1, ObjectsKeepHome
  <1>13. CASE SyncPrune
    <2>1. PICK s \in secretsC, d \in deploysC :
            LET pruned == PruneConditions(relC.status.conditions, DeployerPhase(d)) IN
              IF pruned = relC.status.conditions
              THEN UNCHANGED <<rel, relStale>> /\ queued' = FALSE
              ELSE UpdateStatus([relC.status EXCEPT !.conditions = pruned]) /\ Done
      BY <1>13 DEF SyncPrune
    <2> DEFINE status == [relC.status EXCEPT !.conditions =
                            PruneConditions(relC.status.conditions, DeployerPhase(d))]
    <2>2. status \in Statuses /\ status.ns = relC.status.ns
      BY <1>0, PruneType DEF Statuses
    <2>3. UNCHANGED <<secrets, deploys>>
      BY <1>13 DEF SyncPrune
    <2>4. CASE UNCHANGED <<rel, relStale>>
      BY <1>0, <2>3, <2>4, ObjectsKeepHome
    <2>5. CASE UpdateStatus(status)
      BY <1>0, <2>2, <2>3, <2>5, StatusKeepsHome
    <2>6. QED
      BY <2>1, <2>4, <2>5
  <1>14. QED
    BY <1>1, <1>2, <1>3, <1>4, <1>5, <1>6, <1>7, <1>8, <1>9, <1>10, <1>11, <1>12, <1>13 DEF Sync

(* Nobody else makes objects, or moves the Release: the user may delete it *)
(* (at once only if no finalizer holds it), the informers catch up.        *)
LEMMA ReleaseKeepsHome ==
  ASSUME HomeInv, UNCHANGED <<relC, secrets, deploys>>, relStale' = TRUE,
         rel'.finalizer = rel.finalizer, rel'.status.ns = rel.status.ns,
         rel'.exists = rel.exists \/ ~rel.finalizer
  PROVE  HomeInv'
  <1>1. Placed(relC)' = Placed(relC)
    BY DEF Placed, Valid, PodNamespace
  <1>2. QED
    BY <1>1 DEF HomeInv, CacheCurrent, CreatesAtHome, NoOrphans

LEMMA OthersHome == ASSUME TypeOK, HomeInv, Informers \/ Restart \/ User PROVE HomeInv'
  <1>0. Placed(rel) => rel.exists /\ rel.finalizer /\ rel.status.ns = PodNamespace(rel)
    BY DEF Placed, Valid
  <1>1. CASE RefreshRelease \/ Restart
    <2>1. relC' = rel /\ relStale' = FALSE /\ UNCHANGED <<rel, secrets, deploys>>
      BY <1>1 DEF RefreshRelease, Restart, objects
    <2>2. Placed(relC)' => rel.exists /\ rel.finalizer /\ rel.status.ns = PodNamespace(relC)'
      BY <2>1, <1>0 DEF Placed, Valid, PodNamespace
    <2>3. QED
      BY <2>1, <2>2 DEF HomeInv, CacheCurrent, CreatesAtHome, NoOrphans
  <1>2. CASE RefreshSecrets \/ RefreshDeployments
    BY <1>2, ObjectsKeepHome DEF RefreshSecrets, RefreshDeployments, objects
  <1>3. CASE Edit
    <2>1. PICK spec : rel' = [rel EXCEPT !.spec = spec, !.generation = @ + 1]
      BY <1>3 DEF Edit
    <2>2. rel'.finalizer = rel.finalizer /\ rel'.exists = rel.exists /\ rel'.status = rel.status
      BY <2>1 DEF TypeOK, Releases
    <2>3. QED
      BY <1>3, <2>2, ReleaseKeepsHome DEF Edit, caches
  <1>4. CASE SwitchNamespace
    <2>1. rel'.finalizer = rel.finalizer /\ rel'.exists = rel.exists /\ rel'.status = rel.status
      BY <1>4 DEF SwitchNamespace, TypeOK, Releases
    <2>2. QED
      BY <1>4, <2>1, ReleaseKeepsHome DEF SwitchNamespace, caches
  <1>5. CASE Delete
    <2>1. /\ rel'.finalizer = rel.finalizer /\ rel'.status = rel.status
          /\ rel'.exists = rel.exists \/ ~rel.finalizer
      BY <1>5 DEF Delete, TypeOK, Releases
    <2>2. QED
      BY <1>5, <2>1, ReleaseKeepsHome DEF Delete, caches
  <1>6. CASE ChangeRefSecret
    BY <1>6, ObjectsKeepHome DEF ChangeRefSecret, objects, caches
  <1>7. QED
    BY <1>1, <1>2, <1>3, <1>4, <1>5, <1>6 DEF Informers, User

(* A Deployment whose status changes stays where it is. *)
LEMMA SetDeploymentKeepsHome ==
  ASSUME HomeInv, NEW d \in deploys, NEW e, e.ns = d.ns, SetDeployment(d, e),
         UNCHANGED <<rel, relC, relStale, secrets>>
  PROVE  HomeInv'
  <1>1. Placed(relC)' = Placed(relC)
    BY DEF Placed, Valid, PodNamespace
  <1>2. QED
    BY <1>1 DEF HomeInv, CacheCurrent, CreatesAtHome, NoOrphans, SetDeployment

LEMMA KubeHome == ASSUME TypeOK, HomeInv, Kube \/ PodFails PROVE HomeInv'
  <1>1. CASE KubeObserve
    <2>1. PICK d \in deploys :
            LET stay == {p \in pods : p.of = d.name => Fits(p, d)} IN
              SetDeployment(d, [d EXCEPT !.observed = TRUE, !.available = @ /\ pods = stay])
      BY <1>1 DEF KubeObserve
    <2> DEFINE stay == {p \in pods : p.of = d.name => Fits(p, d)}
               e == [d EXCEPT !.observed = TRUE, !.available = @ /\ pods = stay]
    <2>2. e.ns = d.ns
      BY DEF TypeOK, Deployments
    <2>3. SetDeployment(d, e)
      BY <2>1
    <2>4. UNCHANGED <<rel, relC, relStale, secrets>>
      BY <1>1 DEF KubeObserve, caches
    <2> HIDE DEF e
    <2>5. QED
      BY <2>2, <2>3, <2>4, SetDeploymentKeepsHome
  <1>2. CASE KubeStart
    BY <1>2, ObjectsKeepHome DEF KubeStart, objects, caches
  <1>3. CASE KubeReady
    <2>1. PICK d \in deploys : SetDeployment(d, [d EXCEPT !.available = TRUE])
      BY <1>3 DEF KubeReady
    <2>2. [d EXCEPT !.available = TRUE].ns = d.ns
      BY DEF TypeOK, Deployments
    <2>3. QED
      BY <1>3, <2>1, <2>2, SetDeploymentKeepsHome DEF KubeReady, caches
  <1>4. CASE PodFails
    <2>1. PICK d \in deploys :
            IF d.available THEN SetDeployment(d, [d EXCEPT !.available = FALSE])
                           ELSE UNCHANGED <<deploys, deployStale>>
      BY <1>4 DEF PodFails
    <2>2. [d EXCEPT !.available = FALSE].ns = d.ns
      BY DEF TypeOK, Deployments
    <2>3. UNCHANGED <<rel, relC, relStale, secrets>>
      BY <1>4 DEF PodFails, caches
    <2>4. CASE UNCHANGED deploys
      BY <2>3, <2>4, ObjectsKeepHome
    <2>5. CASE SetDeployment(d, [d EXCEPT !.available = FALSE])
      BY <2>2, <2>3, <2>5, SetDeploymentKeepsHome
    <2>6. QED
      BY <2>1, <2>4, <2>5
  <1>5. QED
    BY <1>1, <1>2, <1>3, <1>4 DEF Kube

LEMMA DeployerHome == ASSUME TypeOK, HomeInv, Deployer PROVE HomeInv'
  <1>1. ASSUME NEW applied, NEW type, Patch(applied, type) PROVE HomeInv'
    <2>1. rel'.finalizer = rel.finalizer /\ rel'.exists = rel.exists /\ rel'.status.ns = rel.status.ns
      BY <1>1 DEF Patch, TypeOK, Releases, Statuses
    <2>2. QED
      BY <1>1, <2>1, ReleaseKeepsHome DEF Patch, caches
  <1>2. CASE PodDeploys \/ PodChecks
    BY <1>1, <1>2 DEF PodDeploys, PodChecks
  <1>3. CASE PodBegins \/ PodRechecks \/ PodTestFails
    BY <1>3, ObjectsKeepHome DEF PodBegins, PodRechecks, PodTestFails, objects, caches
  <1>4. QED
    BY <1>2, <1>3 DEF Deployer

THEOREM HomeCorrect == Spec => []HomeInv
  <1>1. Init => HomeInv
    BY DEF Init, HomeInv, CacheCurrent, CreatesAtHome, NoOrphans, Placed, Valid
  <1>2. TypeOK /\ HomeInv /\ [Next]_vars => HomeInv'
    <2> SUFFICES ASSUME TypeOK, HomeInv, [Next]_vars PROVE HomeInv'
      OBVIOUS
    <2>1. CASE Next
      BY <2>1, SyncHome, OthersHome, KubeHome, DeployerHome DEF Next
    <2>2. CASE UNCHANGED vars
      BY <2>2, ObjectsKeepHome DEF vars
    <2>3. QED
      BY <2>1, <2>2
  <1>3. QED
    BY <1>1, <1>2, TypeCorrect, PTL DEF Spec

(* No Secret or Deployment outlives its Release or is left behind in a     *)
(* namespace the Release moved away from, whatever is stale or fails.      *)
THEOREM NeverOrphans == Spec => []NoOrphans
  <1>1. HomeInv => NoOrphans
    BY DEF HomeInv
  <1>2. QED
    BY <1>1, HomeCorrect, PTL

(* What a call reads may be old; where it creates objects is not.          *)
THEOREM AlwaysCreatesAtHome == Spec => []CreatesAtHome
  <1>1. HomeInv => CreatesAtHome
    BY DEF HomeInv
  <1>2. QED
    BY <1>1, HomeCorrect, PTL

-----------------------------------------------------------------------------
(* What the user and the pods wrote, and a call must leave alone.          *)

Kept ==
    /\ rel'.spec = rel.spec /\ rel'.userns = rel.userns
    /\ rel'.deleting = rel.deleting /\ rel'.generation = rel.generation
    /\ rel'.status.applied = rel.status.applied
    /\ rel.status.conditions.has \subseteq rel'.status.conditions.has
    /\ rel'.status.conditions.last \in {rel.status.conditions.last, "DeployerReady"}

(* An entry added to the list of conditions, or the list cut down to one   *)
(* entry per type: no type that was there is lost.                         *)
LEMMA AppendGrows ==
  ASSUME NEW c, NEW type
  PROVE  /\ c.has \subseteq AppendCondition(c, type).has
         /\ AppendCondition(c, type).has # {}
         /\ AppendCondition(c, type).last = type
  BY DEF AppendCondition

LEMMA PruneKeeps ==
  ASSUME NEW c \in Conditions, NEW phase
  PROVE  PruneConditions(c, phase).has = c.has /\ PruneConditions(c, phase).last = c.last
  BY DEF PruneConditions, Conditions

(* A status made from the cached one: accepted only if that is current.    *)
LEMMA StatusKeepsWrites ==
  ASSUME TypeOK, CacheCurrent, NEW status \in Statuses, UpdateStatus(status),
         status.applied = relC.status.applied,
         relC.status.conditions.has \subseteq status.conditions.has,
         status.conditions.last \in {relC.status.conditions.last, "DeployerReady"}
  PROVE  Kept
  <1>1. relC = rel
    BY AcceptedIsCurrent DEF UpdateStatus
  <1>2. /\ rel'.status = status /\ rel'.spec = rel.spec /\ rel'.userns = rel.userns
        /\ rel'.deleting = rel.deleting /\ rel'.generation = rel.generation
    BY DEF UpdateStatus, TypeOK, Releases
  <1>3. QED
    BY <1>1, <1>2 DEF Kept

LEMMA StatusKeepsConditions ==
  ASSUME TypeOK, CacheCurrent, NEW status \in Statuses, UpdateStatus(status),
         status.applied = relC.status.applied,
         status.conditions = relC.status.conditions
  PROVE  Kept
  BY StatusKeepsWrites

LEMMA SyncKeepsWrites ==
  ASSUME TypeOK, CacheCurrent, Sync, rel'.exists
  PROVE  Kept
  <1>0. /\ relC \in Releases /\ relC.status \in Statuses /\ relC.status.conditions \in Conditions
    BY DEF TypeOK, Releases, Statuses
  <1>a. ASSUME UNCHANGED rel PROVE Kept
    BY <1>a DEF Kept
  <1>1. CASE SyncNothing \/ SyncCleanupFails
    BY <1>1, <1>a DEF SyncNothing, SyncCleanupFails, objects
  <1>2. CASE SyncDelete
    <2>1. rel'.exists = FALSE
      BY <1>0, <1>2 DEF SyncDelete, Update, Releases
    <2>2. QED
      BY <2>1
  <1>3. CASE SyncFinalizer
    <2>1. relC = rel
      BY <1>3, AcceptedIsCurrent DEF SyncFinalizer, Update
    <2>2. /\ rel'.status = rel.status /\ rel'.spec = rel.spec /\ rel'.userns = rel.userns
          /\ rel'.deleting = rel.deleting /\ rel'.generation = rel.generation
      BY <1>0, <1>3, <2>1 DEF SyncFinalizer, Update, Releases
    <2>3. QED
      BY <2>2 DEF Kept
  <1>4. CASE SyncNamespace
    <2> DEFINE status == [relC.status EXCEPT
                            !.ns = PodNamespace(relC),
                            !.deployerPhase = IF relC.status.ns = "" THEN "Pending" ELSE @]
    <2>1. UpdateStatus(status)
      BY <1>4 DEF SyncNamespace
    <2>2. /\ status \in Statuses /\ status.applied = relC.status.applied
          /\ status.conditions = relC.status.conditions
      BY <1>0 DEF Statuses, PodNamespace, Namespaces, DeployerPhases
    <2>3. QED
      BY <2>1, <2>2, StatusKeepsConditions
  <1>5. CASE SyncPhase
    <2> DEFINE phase == ReleasePhase(relC)
               status == [relC.status EXCEPT
                            !.phase = phase,
                            !.conditions = IF phase = "Running"
                                           THEN AppendCondition(@, "DeployerReady") ELSE @]
    <2>1. AppendCondition(relC.status.conditions, "DeployerReady") \in Conditions
      BY <1>0, AppendType DEF CondTypes
    <2>2. status \in Statuses
      BY <1>0, <2>1, ReleasePhaseType DEF Statuses
    <2>3. UpdateStatus(status)
      BY <1>5 DEF SyncPhase
    <2>4. status.applied = relC.status.applied
      BY <1>0 DEF Statuses
    <2>5. status.conditions \in {relC.status.conditions,
                                 AppendCondition(relC.status.conditions, "DeployerReady")}
      BY <1>0 DEF Statuses
    <2>6. /\ relC.status.conditions.has \subseteq status.conditions.has
          /\ status.conditions.last \in {relC.status.conditions.last, "DeployerReady"}
      BY <2>5, AppendGrows
    <2>7. QED
      BY <2>2, <2>3, <2>4, <2>6, StatusKeepsWrites
  <1>6. CASE SyncRecordSecret
    <2>1. PICK s \in secretsC : UpdateStatus([relC.status EXCEPT !.secret = s.name])
      BY <1>6 DEF SyncRecordSecret
    <2> DEFINE status == [relC.status EXCEPT !.secret = s.name]
    <2>2. s.name \in 0..Names
      BY BoundsAssumption DEF TypeOK, Secrets, ObjectNames
    <2>3. /\ status \in Statuses /\ status.applied = relC.status.applied
          /\ status.conditions = relC.status.conditions
      BY <1>0, <2>2 DEF Statuses
    <2>4. QED
      BY <2>1, <2>3, StatusKeepsConditions
  <1>7. CASE SyncCreateSecret \/ SyncCreateDeployment \/ SyncUpdateDeployment \/ SyncDeleteSecret
    BY <1>7, <1>a DEF SyncCreateSecret, SyncCreateDeployment, SyncUpdateDeployment, SyncDeleteSecret
  <1>8. CASE SyncObserve
    <2>1. PICK s \in secretsC, d \in deploysC : UpdateStatus(ObservedStatus(relC, d))
      BY <1>8 DEF SyncObserve
    <2>2. d.name \in 0..Names /\ DeployerPhase(d) \in DeployerPhases
      BY DeployerPhaseType, BoundsAssumption DEF TypeOK, Deployments, ObjectNames
    <2>3. /\ ObservedStatus(relC, d) \in Statuses
          /\ ObservedStatus(relC, d).applied = relC.status.applied
          /\ ObservedStatus(relC, d).conditions = relC.status.conditions
      BY <1>0, <2>2 DEF ObservedStatus, Statuses, Releases
    <2>4. QED
      BY <2>1, <2>3, StatusKeepsConditions
  <1>9. CASE SyncPrune
    <2>1. PICK d \in deploysC :
            \/ UNCHANGED rel
            \/ UpdateStatus([relC.status EXCEPT !.conditions =
                               PruneConditions(relC.status.conditions, DeployerPhase(d))])
      BY <1>9 DEF SyncPrune
    <2> DEFINE pruned == PruneConditions(relC.status.conditions, DeployerPhase(d))
               status == [relC.status EXCEPT !.conditions = pruned]
    <2>2. pruned \in Conditions /\ pruned.has = relC.status.conditions.has
            /\ pruned.last = relC.status.conditions.last
      BY <1>0, PruneType, PruneKeeps
    <2>3. /\ status \in Statuses /\ status.applied = relC.status.applied
          /\ status.conditions = pruned
      BY <1>0, <2>2 DEF Statuses
    <2>4. CASE UNCHANGED rel
      BY <1>a, <2>4
    <2>5. CASE UpdateStatus(status)
      BY <2>2, <2>3, <2>5, StatusKeepsWrites
    <2>6. QED
      BY <2>1, <2>4, <2>5
  <1>10. QED
    BY <1>1, <1>2, <1>3, <1>4, <1>5, <1>6, <1>7, <1>8, <1>9 DEF Sync

(* Whatever else wrote since the call read: an update made from the old    *)
(* copy conflicts, and one that is accepted carries on what it read.       *)
THEOREM AlwaysKeepsOthersWrites == Spec => KeepsOthersWrites
  <1>1. TypeOK /\ HomeInv /\ [Next]_vars
          => [Sync /\ rel'.exists => Kept]_vars
    BY SyncKeepsWrites DEF HomeInv
  <1>2. QED
    BY <1>1, TypeCorrect, HomeCorrect, PTL DEF Spec, KeepsOthersWrites, Kept

-----------------------------------------------------------------------------
(* ReportsFit.  A pod begins once the phase allows it to, so what the      *)
(* phase says must mean that there is a list to append to: Running comes   *)
(* with the marker, the two after it only from conditions, and no call     *)
(* ever empties the list (Kept).                                           *)

Listed(r) == r.status.phase \in {"Running", "Succeeded", "Failed"}
               => r.status.conditions.has # {}

ReportInv == ReportsFit /\ Listed(rel)

(* The phase a Release gets; entering Running from anywhere appends.       *)
LEMMA PhaseListed ==
  ASSUME NEW r, Listed(r), ReleasePhase(r) \in {"Succeeded", "Failed"}
  PROVE  r.status.conditions.has # {}
  BY DEF Listed, ReleasePhase

LEMMA SyncListed == ASSUME TypeOK, CacheCurrent, Listed(rel), Sync, rel'.exists
                    PROVE  Listed(rel')
  <1>0. /\ relC \in Releases /\ relC.status \in Statuses /\ relC.status.conditions \in Conditions
    BY DEF TypeOK, Releases, Statuses
  <1>k. Kept
    BY SyncKeepsWrites
  <1>a. ASSUME rel'.status.phase = rel.status.phase PROVE Listed(rel')
    BY <1>k, <1>a DEF Kept, Listed
  <1>b. ASSUME NEW status \in Statuses, UpdateStatus(status), status.phase = relC.status.phase
        PROVE  rel'.status.phase = rel.status.phase
    <2>1. relC = rel
      BY <1>b, AcceptedIsCurrent DEF UpdateStatus
    <2>2. QED
      BY <1>b, <2>1 DEF UpdateStatus, TypeOK, Releases
  <1>1. CASE SyncNothing \/ SyncCleanupFails
    BY <1>1, <1>a DEF SyncNothing, SyncCleanupFails, objects
  <1>2. CASE SyncDelete
    <2>1. rel'.exists = FALSE
      BY <1>0, <1>2 DEF SyncDelete, Update, Releases
    <2>2. QED
      BY <2>1
  <1>3. CASE SyncFinalizer
    BY <1>0, <1>3, <1>a DEF SyncFinalizer, Update, Releases
  <1>4. CASE SyncNamespace
    <2> DEFINE status == [relC.status EXCEPT
                            !.ns = PodNamespace(relC),
                            !.deployerPhase = IF relC.status.ns = "" THEN "Pending" ELSE @]
    <2>1. UpdateStatus(status)
      BY <1>4 DEF SyncNamespace
    <2>2. status \in Statuses /\ status.phase = relC.status.phase
      BY <1>0 DEF Statuses, PodNamespace, Namespaces, DeployerPhases
    <2>3. QED
      BY <1>a, <1>b, <2>1, <2>2
  <1>5. CASE SyncPhase
    <2> DEFINE phase == ReleasePhase(relC)
               status == [relC.status EXCEPT
                            !.phase = phase,
                            !.conditions = IF phase = "Running"
                                           THEN AppendCondition(@, "DeployerReady") ELSE @]
    <2>1. UpdateStatus(status)
      BY <1>5 DEF SyncPhase
    <2>2. relC = rel
      BY <2>1, AcceptedIsCurrent DEF UpdateStatus
    <2>3. rel'.status = status
      BY <2>1 DEF UpdateStatus, TypeOK, Releases
    <2>4. /\ status.phase = phase
          /\ status.conditions = IF phase = "Running"
               THEN AppendCondition(relC.status.conditions, "DeployerReady")
               ELSE relC.status.conditions
      BY <1>0 DEF Statuses
    <2>5. phase = "Running" => status.conditions.has # {}
      BY <2>4, AppendGrows
    <2>6. phase \in {"Succeeded", "Failed"} => status.conditions.has # {}
      BY <2>2, <2>4, PhaseListed
    <2>7. QED
      BY <2>3, <2>4, <2>5, <2>6 DEF Listed
  <1>6. CASE SyncRecordSecret
    <2>1. PICK s \in secretsC : UpdateStatus([relC.status EXCEPT !.secret = s.name])
      BY <1>6 DEF SyncRecordSecret
    <2>2. s.name \in 0..Names
      BY BoundsAssumption DEF TypeOK, Secrets, ObjectNames
    <2>3. /\ [relC.status EXCEPT !.secret = s.name] \in Statuses
          /\ [relC.status EXCEPT !.secret = s.name].phase = relC.status.phase
      BY <1>0, <2>2 DEF Statuses
    <2>4. QED
      BY <1>a, <1>b, <2>1, <2>3
  <1>7. CASE SyncCreateSecret \/ SyncCreateDeployment \/ SyncUpdateDeployment \/ SyncDeleteSecret
    BY <1>7, <1>a DEF SyncCreateSecret, SyncCreateDeployment, SyncUpdateDeployment, SyncDeleteSecret
  <1>8. CASE SyncObserve
    <2>1. PICK s \in secretsC, d \in deploysC : UpdateStatus(ObservedStatus(relC, d))
      BY <1>8 DEF SyncObserve
    <2>2. d.name \in 0..Names /\ DeployerPhase(d) \in DeployerPhases
      BY DeployerPhaseType, BoundsAssumption DEF TypeOK, Deployments, ObjectNames
    <2>3. ObservedStatus(relC, d) \in Statuses /\ ObservedStatus(relC, d).phase = relC.status.phase
      BY <1>0, <2>2 DEF ObservedStatus, Statuses, Releases
    <2>4. QED
      BY <1>a, <1>b, <2>1, <2>3
  <1>9. CASE SyncPrune
    <2>1. PICK d \in deploysC :
            \/ UNCHANGED rel
            \/ UpdateStatus([relC.status EXCEPT !.conditions =
                               PruneConditions(relC.status.conditions, DeployerPhase(d))])
      BY <1>9 DEF SyncPrune
    <2> DEFINE status == [relC.status EXCEPT !.conditions =
                            PruneConditions(relC.status.conditions, DeployerPhase(d))]
    <2>2. status \in Statuses /\ status.phase = relC.status.phase
      BY <1>0, PruneType DEF Statuses
    <2>3. QED
      BY <1>a, <1>b, <2>1, <2>2
  <1>10. QED
    BY <1>1, <1>2, <1>3, <1>4, <1>5, <1>6, <1>7, <1>8, <1>9 DEF Sync

(* The last update of a Release being deleted leaves its status alone.     *)
LEMMA SyncConditions ==
  ASSUME TypeOK, CacheCurrent, Listed(rel), Sync
  PROVE  Listed(rel') /\ rel.status.conditions.has \subseteq rel'.status.conditions.has
  <1>1. CASE rel'.exists
    BY <1>1, SyncListed, SyncKeepsWrites DEF Kept
  <1>2. CASE ~rel'.exists
    <2>1. rel'.status = rel.status
      <3>0. relC \in Releases /\ rel \in Releases
        BY DEF TypeOK
      <3>1. CASE \E status : UpdateStatus(status)
        BY <3>0, <3>1, <1>2 DEF UpdateStatus, Accepted, Releases
      <3>2. CASE SyncDelete
        BY <3>0, <3>2 DEF SyncDelete, Update, Releases
      <3>3. CASE SyncFinalizer
        BY <3>0, <3>3 DEF SyncFinalizer, Update, Releases
      <3>4. CASE UNCHANGED rel
        BY <3>4
      <3>5. QED
        BY <3>1, <3>2, <3>3, <3>4
           DEF Sync, SyncNothing, SyncCleanupFails, SyncNamespace, SyncPhase, SyncCreateSecret,
               SyncRecordSecret, SyncCreateDeployment, SyncUpdateDeployment, SyncObserve,
               SyncDeleteSecret, SyncPrune, objects
    <2>2. QED
      BY <2>1 DEF Listed
  <1>3. QED
    BY <1>1, <1>2

(* A call stops pods, and starts none.                                     *)
LEMMA SyncStopsPods == ASSUME Sync PROVE pods' \subseteq pods
  BY DEF Sync, SyncNothing, SyncDelete, SyncCleanupFails, SyncFinalizer, SyncNamespace, SyncPhase,
         SyncCreateSecret, SyncRecordSecret, SyncCreateDeployment, SyncUpdateDeployment,
         SyncObserve, SyncDeleteSecret, SyncPrune, Cleanup, Cascade, objects

(* Pods go, start as waiting, or go on; the list does not get empty.       *)
LEMMA PodsKeepReports ==
  ASSUME ReportInv, Listed(rel'), rel.status.conditions.has \subseteq rel'.status.conditions.has,
         \A p \in pods' : p.state # "waiting" =>
            rel'.status.conditions.has # {} \/ \E q \in pods : q.state # "waiting"
  PROVE  ReportInv'
  BY DEF ReportInv, ReportsFit, Listed

LEMMA TurnReports ==
  ASSUME TypeOK, ReportInv, NEW p \in pods, NEW state, Turn(p, state), Listed(rel'),
         rel.status.conditions.has \subseteq rel'.status.conditions.has,
         \/ p.state # "waiting" \/ state = "waiting" \/ rel.status.conditions.has # {}
  PROVE  ReportInv'
  <1>1. [p EXCEPT !.state = state].state = state
    BY DEF TypeOK, Pods
  <1>2. QED
    BY <1>1, PodsKeepReports DEF Turn, ReportInv

LEMMA PatchListed ==
  ASSUME TypeOK, Listed(rel), NEW applied, NEW type, Patch(applied, type)
  PROVE  Listed(rel') /\ rel.status.conditions.has \subseteq rel'.status.conditions.has
  <1>1. rel'.status.conditions = AppendCondition(rel.status.conditions, type)
    BY DEF Patch, TypeOK, Releases, Statuses
  <1>2. QED
    BY <1>1, AppendGrows DEF Listed

LEMMA OthersReports == ASSUME TypeOK, ReportInv, Informers \/ Restart \/ User PROVE ReportInv'
  <1>1. rel'.status = rel.status /\ pods' = pods
    <2>1. CASE Informers \/ Restart \/ ChangeRefSecret
      BY <2>1 DEF Informers, RefreshRelease, RefreshSecrets, RefreshDeployments, Restart,
                  ChangeRefSecret, objects
    <2>2. CASE Edit \/ SwitchNamespace \/ Delete
      BY <2>2 DEF Edit, SwitchNamespace, Delete, TypeOK, Releases
    <2>3. QED
      BY <2>1, <2>2 DEF User
  <1>2. QED
    BY <1>1 DEF ReportInv, ReportsFit, Listed

LEMMA KubeReports == ASSUME TypeOK, ReportInv, Kube \/ PodFails PROVE ReportInv'
  <1>1. UNCHANGED rel
    BY DEF Kube, KubeObserve, KubeStart, KubeReady, PodFails, objects
  <1>2. Listed(rel')
    BY <1>1 DEF ReportInv
  <1>3. CASE KubeObserve \/ KubeReady
    <2>1. pods' \subseteq pods
      BY <1>3 DEF KubeObserve, KubeReady
    <2>2. QED
      BY <1>1, <1>2, <2>1, PodsKeepReports
  <1>4. CASE KubeStart
    <2>1. \A p \in pods' : p \in pods \/ p.state = "waiting"
      BY <1>4 DEF KubeStart
    <2>2. QED
      BY <1>1, <1>2, <2>1, PodsKeepReports
  <1>5. CASE PodFails
    <2>1. PICK p \in pods : pods' = (pods \ {p}) \cup {[p EXCEPT !.state = "waiting"]}
      BY <1>5 DEF PodFails
    <2>2. QED
      BY <1>1, <1>2, <2>1, TurnReports DEF Turn
  <1>6. QED
    BY <1>3, <1>4, <1>5 DEF Kube

LEMMA DeployerReports == ASSUME TypeOK, ReportInv, Deployer PROVE ReportInv'
  <1>0. Listed(rel)
    BY DEF ReportInv
  <1>1. CASE PodBegins
    <2>1. /\ \E p \in pods : Turn(p, "idle")
          /\ rel.status.conditions.has # {} /\ UNCHANGED rel
      BY <1>0, <1>1 DEF PodBegins, Listed, objects
    <2>2. Listed(rel')
      BY <1>0, <2>1
    <2>3. QED
      BY <2>1, <2>2, TurnReports
  <1>2. CASE PodDeploys \/ PodChecks
    <2>1. PICK p, applied, type, state :
            p \in pods /\ p.state # "waiting" /\ Patch(applied, type) /\ Turn(p, state)
      <3>1. CASE PodDeploys
        <4>1. PICK p \in pods : /\ p.state = "idle" /\ Patch(p.template.work, "ReleaseDeployed")
                                /\ Turn(p, "testing")
          BY <3>1 DEF PodDeploys
        <4>2. QED
          BY <4>1
      <3>2. CASE PodChecks
        BY <3>2 DEF PodChecks
      <3>3. QED
        BY <1>2, <3>1, <3>2
    <2>2. QED
      BY <1>0, <2>1, PatchListed, TurnReports
  <1>3. CASE PodRechecks \/ PodTestFails
    <2>1. UNCHANGED rel /\ \E p \in pods : \E state : p.state # "waiting" /\ Turn(p, state)
      BY <1>3 DEF PodRechecks, PodTestFails, objects
    <2>2. Listed(rel')
      BY <1>0, <2>1
    <2>3. QED
      BY <2>1, <2>2, TurnReports
  <1>4. QED
    BY <1>1, <1>2, <1>3 DEF Deployer

(* A pod past its wait never patches a list that is not there, which would *)
(* fail for ever: nobody but a pod and the marker adds to it.              *)
THEOREM AlwaysReportsFit == Spec => []ReportsFit
  <1>1. Init => ReportInv
    <2> SUFFICES ASSUME Init PROVE ReportInv
      OBVIOUS
    <2>1. rel.status = NewStatus /\ pods = {}
      BY DEF Init
    <2>a. NewStatus.phase = ""
      BY DEF NewStatus
    <2>2. QED
      BY <2>1, <2>a DEF ReportInv, ReportsFit, Listed
  <1>2. TypeOK /\ HomeInv /\ ReportInv /\ [Next]_vars => ReportInv'
    <2> SUFFICES ASSUME TypeOK, HomeInv, ReportInv, [Next]_vars PROVE ReportInv'
      OBVIOUS
    <2>1. CASE Sync
      BY <2>1, SyncConditions, SyncStopsPods, PodsKeepReports DEF HomeInv, ReportInv
    <2>2. CASE Next /\ ~Sync
      BY <2>2, OthersReports, KubeReports, DeployerReports DEF Next
    <2>3. CASE UNCHANGED vars
      BY <2>3 DEF vars, ReportInv, ReportsFit, Listed
    <2>4. QED
      BY <2>1, <2>2, <2>3
  <1>3. ReportInv => ReportsFit
    BY DEF ReportInv
  <1>4. QED
    BY <1>1, <1>2, <1>3, TypeCorrect, HomeCorrect, PTL DEF Spec

-----------------------------------------------------------------------------
(****************************************************************************)
(* ReleaseController implements ReleaseHome: every step of the controller,  *)
(* the user, Kubernetes or a pod is a step of the promise, or leaves life,  *)
(* home and the owned objects alone.  It stands on the types and HomeInv.   *)
(****************************************************************************)
Held == rel.exists /\ rel.finalizer

HomeStep == [Home!Next]_<<Life, rel.status.ns, Owned>>

-----------------------------------------------------------------------------
(* Steps of the promise. *)

LEMMA LeavesHome ==
  ASSUME Life' = Life, rel'.status.ns = rel.status.ns, Owned' = Owned
  PROVE  HomeStep
  BY DEF HomeStep

LEMMA RemovesOwned ==
  ASSUME UNCHANGED rel, secrets' \subseteq secrets, deploys' \subseteq deploys
  PROVE  HomeStep
  <1>1. Owned' \subseteq Owned
    BY DEF Owned
  <1>2. Life' = Life
    BY DEF Life
  <1>3. QED
    BY <1>1, <1>2 DEF HomeStep, Home!Next, Home!Remove

LEMMA CreatesOwned ==
  ASSUME UNCHANGED rel, Held, rel.status.ns \in Namespaces,
         NEW kind \in {"secret", "deployment"}, NEW n \in ObjectNames,
         Owned' = Owned \cup {<<<<kind, n>>, rel.status.ns>>}
  PROVE  HomeStep
  <1>1. Life = "held" /\ Life' = Life
    BY DEF Life, Held
  <1>2. Home!Create
    BY <1>1 DEF Home!Create, Home!Homes, Namespaces
  <1>3. QED
    BY <1>2 DEF HomeStep, Home!Next

LEMMA EndsWithNothing ==
  ASSUME Owned' = {}, Life' = "gone", Life \in {"new", "held"}, rel'.status.ns = rel.status.ns
  PROVE  HomeStep
  BY DEF HomeStep, Home!Next, Home!Go

LEMMA NothingOwned == ASSUME secrets = {}, deploys = {} PROVE Owned = {}
  BY DEF Owned

(* An update that keeps existence, finalizer and home is no step of the    *)
(* promise.                                                                *)
LEMMA ReleaseStaysHome ==
  ASSUME rel'.exists = rel.exists, rel'.finalizer = rel.finalizer,
         rel'.status.ns = rel.status.ns, UNCHANGED <<secrets, deploys>>
  PROVE  HomeStep
  <1>1. Life' = Life /\ Owned' = Owned
    BY DEF Life, Owned
  <1>2. QED
    BY <1>1, LeavesHome

LEMMA StatusStaysHome ==
  ASSUME TypeOK, NEW status \in Statuses, status.ns = relC.status.ns,
         CacheCurrent, UpdateStatus(status), UNCHANGED <<secrets, deploys>>
  PROVE  HomeStep
  <1>1. relC = rel /\ rel' = [rel EXCEPT !.status = status]
    BY AcceptedIsCurrent DEF UpdateStatus
  <1>2. rel'.exists = rel.exists /\ rel'.finalizer = rel.finalizer /\ rel'.status = status
    BY <1>1 DEF TypeOK, Releases
  <1>3. QED
    BY <1>1, <1>2, ReleaseStaysHome

-----------------------------------------------------------------------------
(* What syncHandler does, one case for each of its ways out. *)
LEMMA SyncImplements == ASSUME TypeOK, HomeInv, Sync PROVE HomeStep
  <1>0. /\ relC \in Releases /\ relC.status \in Statuses /\ relC.status.conditions \in Conditions
        /\ rel \in Releases /\ rel.status \in Statuses
        /\ rel.exists \in BOOLEAN /\ rel.finalizer \in BOOLEAN
        /\ CacheCurrent /\ NoOrphans
    BY DEF TypeOK, Releases, Statuses, HomeInv
  <1>a. ASSUME Placed(relC)
        PROVE  /\ Held /\ rel.status.ns = relC.status.ns
               /\ rel.status.ns = PodNamespace(relC) /\ rel.status.ns \in Namespaces
    BY <1>a DEF HomeInv, CreatesAtHome, Placed, PodNamespace, Namespaces, Held
  <1>1. CASE SyncNothing
    BY <1>1, ReleaseStaysHome DEF SyncNothing, objects
  <1>2. CASE SyncDelete
    <2>1. relC = rel /\ rel' = [[relC EXCEPT !.finalizer = FALSE, !.exists = FALSE] EXCEPT !.status = rel.status]
      BY <1>2, AcceptedIsCurrent DEF HomeInv, SyncDelete, Update
    <2>2. ~rel'.exists /\ rel'.status = rel.status /\ rel.exists
      BY <1>0, <1>2, <2>1 DEF SyncDelete, Releases
    <2>3. secrets' = {} /\ deploys' = {}
      BY <1>2, <2>1, CleanupLeavesNothing, NothingWithoutHome DEF HomeInv, SyncDelete
    <2>4. Owned' = {} /\ Life' = "gone" /\ Life \in {"new", "held"}
      BY <2>2, <2>3 DEF Owned, Life
    <2>5. QED
      BY <2>2, <2>4, EndsWithNothing
  <1>3. CASE SyncCleanupFails
    <2>1. secrets' \subseteq secrets /\ deploys' \subseteq deploys /\ UNCHANGED rel
      BY <1>3 DEF SyncCleanupFails
    <2>2. QED
      BY <2>1, RemovesOwned
  <1>4. CASE SyncFinalizer
    <2>1. /\ relC = rel /\ rel' = [[relC EXCEPT !.finalizer = TRUE] EXCEPT !.status = rel.status]
          /\ rel.exists /\ ~rel.finalizer /\ UNCHANGED <<secrets, deploys>>
      BY <1>4, AcceptedIsCurrent DEF HomeInv, SyncFinalizer, Update, Accepted
    <2>2. rel'.exists /\ rel'.finalizer /\ rel'.status = rel.status
      BY <1>0, <2>1 DEF Releases
    <2>3. Life = "new" /\ Life' = "held" /\ Owned' = Owned
      BY <2>1, <2>2 DEF Life, Owned
    <2>4. QED
      BY <2>2, <2>3 DEF HomeStep, Home!Next, Home!Hold
  <1>5. CASE SyncNamespace
    <2>1. PICK status : status.ns = PodNamespace(relC) /\ UpdateStatus(status)
      <3> DEFINE st == [relC.status EXCEPT
                          !.ns = PodNamespace(relC),
                          !.deployerPhase = IF relC.status.ns = "" THEN "Pending" ELSE @]
      <3>1. UpdateStatus(st)
        BY <1>5 DEF SyncNamespace
      <3>2. st.ns = PodNamespace(relC)
        BY <1>0 DEF Statuses
      <3>3. QED
        BY <3>1, <3>2
    <2>2. relC = rel /\ rel' = [rel EXCEPT !.status = status]
      BY <2>1, <1>0, AcceptedIsCurrent DEF UpdateStatus
    <2>3. /\ rel'.exists = rel.exists /\ rel'.finalizer = rel.finalizer
          /\ rel'.status.ns = PodNamespace(relC) /\ rel.exists /\ rel.finalizer
      BY <1>0, <1>5, <2>1, <2>2 DEF Releases, SyncNamespace, Valid
    <2>4. secrets' = {} /\ deploys' = {}
      BY <1>5, <2>2, CleanupLeavesNothing, NothingWithoutHome DEF HomeInv, SyncNamespace
    <2>5. Life = "held" /\ Life' = Life /\ Owned' = {} /\ rel'.status.ns \in Home!Homes
      BY <2>3, <2>4 DEF Life, Owned, PodNamespace, Home!Homes
    <2>6. QED
      BY <2>5 DEF HomeStep, Home!Next, Home!Move
  <1>6. CASE SyncPhase
    <2> DEFINE phase == ReleasePhase(relC)
               status == [relC.status EXCEPT
                            !.phase = phase,
                            !.conditions = IF phase = "Running"
                                           THEN AppendCondition(@, "DeployerReady") ELSE @]
    <2>1. AppendCondition(relC.status.conditions, "DeployerReady") \in Conditions
      BY <1>0, AppendType DEF CondTypes
    <2>2. status \in Statuses /\ status.ns = relC.status.ns
      BY <1>0, <2>1, ReleasePhaseType DEF Statuses
    <2>3. UpdateStatus(status) /\ UNCHANGED <<secrets, deploys>>
      BY <1>6 DEF SyncPhase
    <2>4. QED
      BY <1>0, <2>2, <2>3, StatusStaysHome
  <1>7. CASE SyncCreateSecret
    <2>1. PICK n \in NewName(SecretsInUse), t \in 1..SecretAges :
            secrets' = secrets \cup {[name |-> n, created |-> t, ns |-> PodNamespace(relC), data |-> ref]}
      BY <1>7 DEF SyncCreateSecret, NewAge
    <2>2. Placed(relC) /\ UNCHANGED <<rel, deploys>> /\ n \in ObjectNames
      BY <1>7, <2>1 DEF SyncCreateSecret, Phased, NewName
    <2> DEFINE new == [name |-> n, created |-> t, ns |-> PodNamespace(relC), data |-> ref]
    <2>3. new.name = n /\ new.ns = rel.status.ns /\ secrets' = secrets \cup {new}
      BY <1>a, <2>1, <2>2
    <2> HIDE DEF new
    <2>4. Owned' = Owned \cup {<<<<"secret", n>>, rel.status.ns>>}
      BY <2>2, <2>3 DEF Owned
    <2>5. QED
      BY <1>a, <2>2, <2>4, CreatesOwned
  <1>8. CASE SyncRecordSecret
    <2>1. PICK s \in secretsC : UpdateStatus([relC.status EXCEPT !.secret = s.name])
      BY <1>8 DEF SyncRecordSecret
    <2>2. s.name \in 0..Names
      BY BoundsAssumption DEF TypeOK, Secrets, ObjectNames
    <2>3. /\ [relC.status EXCEPT !.secret = s.name] \in Statuses
          /\ [relC.status EXCEPT !.secret = s.name].ns = relC.status.ns
      BY <1>0, <2>2 DEF Statuses
    <2>4. UNCHANGED <<secrets, deploys>>
      BY <1>8 DEF SyncRecordSecret
    <2>5. QED
      BY <1>0, <2>1, <2>3, <2>4, StatusStaysHome
  <1>9. CASE SyncCreateDeployment
    <2> DEFINE Blank(n, t) == [name |-> n, created |-> t, ns |-> PodNamespace(relC),
                               template |-> Template(relC.spec), secret |-> 0, replicas |-> 0,
                               first |-> TRUE, observed |-> FALSE, available |-> FALSE]
    <2>1. PICK s \in secretsC, n \in NewName(DeploysInUse), t \in 1..DeployAges :
            deploys' = deploys \cup {Wanted(Blank(n, t), relC, s)}
      BY <1>9 DEF SyncCreateDeployment, NewAge
    <2>2. Placed(relC) /\ UNCHANGED <<rel, secrets>> /\ n \in ObjectNames
      BY <1>9, <2>1 DEF SyncCreateDeployment, Recorded, Equipped, Phased, NewName
    <2>3. Wanted(Blank(n, t), relC, s).ns = rel.status.ns /\ Wanted(Blank(n, t), relC, s).name = n
      BY <1>a, <2>2 DEF Wanted
    <2>4. Owned' = Owned \cup {<<<<"deployment", n>>, rel.status.ns>>}
      BY <2>1, <2>2, <2>3 DEF Owned
    <2>5. QED
      BY <1>a, <2>2, <2>4, CreatesOwned
  <1>10. CASE SyncUpdateDeployment
    <2>1. PICK s \in secretsC, d \in deploysC :
            /\ Recorded(relC, s) /\ d \in OwnDeploys(relC)
            /\ deploys' = {e \in deploys : e.name # d.name} \cup
                            {[Wanted(d, relC, s) EXCEPT !.first = FALSE, !.observed = FALSE]}
      BY <1>10 DEF SyncUpdateDeployment, Youngest
    <2> DEFINE new == [Wanted(d, relC, s) EXCEPT !.first = FALSE, !.observed = FALSE]
    <2>2. Placed(relC) /\ UNCHANGED <<rel, secrets>> /\ d.name \in ObjectNames
      BY <1>10, <2>1 DEF SyncUpdateDeployment, Recorded, Equipped, Phased, TypeOK, Deployments
    <2>3. d.ns = rel.status.ns
      BY <1>a, <2>1, <2>2 DEF OwnDeploys
    <2>4. new.ns = rel.status.ns /\ new.name = d.name
      BY <1>0, <2>3 DEF Wanted, TypeOK, Deployments
    <2> HIDE DEF new
    <2>5. \A e \in deploys : e.ns = rel.status.ns
      BY <1>0 DEF NoOrphans
    <2>6. deploys' = {e \in deploys : e.name # d.name} \cup {new}
      BY <2>1 DEF new
    <2>7. Owned' = Owned \cup {<<<<"deployment", d.name>>, rel.status.ns>>}
      BY <2>2, <2>4, <2>5, <2>6 DEF Owned
    <2>8. QED
      BY <1>a, <2>2, <2>7, CreatesOwned
  <1>11. CASE SyncObserve
    <2>1. PICK s \in secretsC, d \in deploysC : UpdateStatus(ObservedStatus(relC, d))
      BY <1>11 DEF SyncObserve
    <2>2. d.name \in 0..Names /\ DeployerPhase(d) \in DeployerPhases
      BY DeployerPhaseType, BoundsAssumption DEF TypeOK, Deployments, ObjectNames
    <2>3. ObservedStatus(relC, d) \in Statuses /\ ObservedStatus(relC, d).ns = relC.status.ns
      BY <1>0, <2>2 DEF ObservedStatus, Statuses, Releases
    <2>4. UNCHANGED <<secrets, deploys>>
      BY <1>11 DEF SyncObserve
    <2>5. QED
      BY <1>0, <2>1, <2>3, <2>4, StatusStaysHome
  <1>12. CASE SyncDeleteSecret
    <2>1. secrets' \subseteq secrets /\ UNCHANGED <<rel, deploys>>
      BY <1>12 DEF SyncDeleteSecret
    <2>2. QED
      BY <2>1, RemovesOwned
  <1>13. CASE SyncPrune
    <2>1. PICK s \in secretsC, d \in deploysC :
            LET pruned == PruneConditions(relC.status.conditions, DeployerPhase(d)) IN
              IF pruned = relC.status.conditions
              THEN UNCHANGED <<rel, relStale>> /\ queued' = FALSE
              ELSE UpdateStatus([relC.status EXCEPT !.conditions = pruned]) /\ Done
      BY <1>13 DEF SyncPrune
    <2> DEFINE status == [relC.status EXCEPT !.conditions =
                            PruneConditions(relC.status.conditions, DeployerPhase(d))]
    <2>2. status \in Statuses /\ status.ns = relC.status.ns
      BY <1>0, PruneType DEF Statuses
    <2>3. UNCHANGED <<secrets, deploys>>
      BY <1>13 DEF SyncPrune
    <2>4. CASE UNCHANGED <<rel, relStale>>
      BY <2>3, <2>4, ReleaseStaysHome
    <2>5. CASE UpdateStatus(status)
      BY <1>0, <2>2, <2>3, <2>5, StatusStaysHome
    <2>6. QED
      BY <2>1, <2>4, <2>5
  <1>14. QED
    BY <1>1, <1>2, <1>3, <1>4, <1>5, <1>6, <1>7, <1>8, <1>9, <1>10, <1>11, <1>12, <1>13 DEF Sync

-----------------------------------------------------------------------------
(* What everybody else does. *)
LEMMA OthersImplement == ASSUME TypeOK, HomeInv, Informers \/ Restart \/ User PROVE HomeStep
  <1>1. CASE Informers \/ Restart
    BY <1>1, ReleaseStaysHome DEF Informers, RefreshRelease, RefreshSecrets, RefreshDeployments,
                                  Restart, objects
  <1>2. CASE Edit
    <2>1. PICK spec : rel' = [rel EXCEPT !.spec = spec, !.generation = @ + 1]
      BY <1>2 DEF Edit
    <2>2. rel'.finalizer = rel.finalizer /\ rel'.exists = rel.exists /\ rel'.status = rel.status
      BY <2>1 DEF TypeOK, Releases
    <2>3. QED
      BY <1>2, <2>2, ReleaseStaysHome DEF Edit
  <1>3. CASE SwitchNamespace
    <2>1. rel'.finalizer = rel.finalizer /\ rel'.exists = rel.exists /\ rel'.status = rel.status
      BY <1>3 DEF SwitchNamespace, TypeOK, Releases
    <2>2. QED
      BY <1>3, <2>1, ReleaseStaysHome DEF SwitchNamespace
  <1>4. CASE Delete
    <2>1. CASE rel.finalizer
      <3>1. rel'.finalizer = rel.finalizer /\ rel'.exists = rel.exists /\ rel'.status = rel.status
        BY <1>4, <2>1 DEF Delete, TypeOK, Releases
      <3>2. QED
        BY <1>4, <3>1, ReleaseStaysHome DEF Delete
    <2>2. CASE ~rel.finalizer
      <3>1. ~rel'.exists /\ rel'.status = rel.status /\ rel.exists
        BY <1>4, <2>2 DEF Delete, TypeOK, Releases
      <3>2. secrets' = {} /\ deploys' = {}
        BY <1>4, <2>2 DEF Delete, HomeInv, NoOrphans
      <3>3. Owned' = {} /\ Life' = "gone" /\ Life \in {"new", "held"}
        BY <2>2, <3>1, <3>2 DEF Owned, Life
      <3>4. QED
        BY <3>1, <3>3, EndsWithNothing
    <2>3. QED
      BY <2>1, <2>2
  <1>5. CASE ChangeRefSecret
    BY <1>5, ReleaseStaysHome DEF ChangeRefSecret, objects
  <1>6. QED
    BY <1>1, <1>2, <1>3, <1>4, <1>5 DEF User

LEMMA DeploymentStaysHome ==
  ASSUME NEW d \in deploys, NEW e, e.ns = d.ns, e.name = d.name, SetDeployment(d, e),
         UNCHANGED <<rel, secrets>>
  PROVE  HomeStep
  <1>1. Owned' = Owned /\ Life' = Life
    BY DEF SetDeployment, Owned, Life
  <1>2. QED
    BY <1>1, LeavesHome

LEMMA KubeImplements == ASSUME TypeOK, Kube \/ PodFails PROVE HomeStep
  <1>1. CASE KubeObserve
    <2>1. PICK d \in deploys :
            LET stay == {p \in pods : p.of = d.name => Fits(p, d)} IN
              SetDeployment(d, [d EXCEPT !.observed = TRUE, !.available = @ /\ pods = stay])
      BY <1>1 DEF KubeObserve
    <2> DEFINE stay == {p \in pods : p.of = d.name => Fits(p, d)}
               e == [d EXCEPT !.observed = TRUE, !.available = @ /\ pods = stay]
    <2>2. e.ns = d.ns /\ e.name = d.name
      BY DEF TypeOK, Deployments
    <2>3. SetDeployment(d, e) /\ UNCHANGED <<rel, secrets>>
      BY <1>1, <2>1 DEF KubeObserve
    <2> HIDE DEF e
    <2>4. QED
      BY <2>2, <2>3, DeploymentStaysHome
  <1>2. CASE KubeStart
    BY <1>2, ReleaseStaysHome DEF KubeStart, objects
  <1>3. CASE KubeReady
    <2>1. PICK d \in deploys : SetDeployment(d, [d EXCEPT !.available = TRUE])
      BY <1>3 DEF KubeReady
    <2>2. [d EXCEPT !.available = TRUE].ns = d.ns /\ [d EXCEPT !.available = TRUE].name = d.name
      BY DEF TypeOK, Deployments
    <2>3. QED
      BY <1>3, <2>1, <2>2, DeploymentStaysHome DEF KubeReady
  <1>4. CASE PodFails
    <2>1. PICK d \in deploys :
            IF d.available THEN SetDeployment(d, [d EXCEPT !.available = FALSE])
                           ELSE UNCHANGED <<deploys, deployStale>>
      BY <1>4 DEF PodFails
    <2>2. [d EXCEPT !.available = FALSE].ns = d.ns /\ [d EXCEPT !.available = FALSE].name = d.name
      BY DEF TypeOK, Deployments
    <2>3. UNCHANGED <<rel, secrets>>
      BY <1>4 DEF PodFails
    <2>4. CASE UNCHANGED deploys
      BY <2>3, <2>4, ReleaseStaysHome
    <2>5. CASE SetDeployment(d, [d EXCEPT !.available = FALSE])
      BY <2>2, <2>3, <2>5, DeploymentStaysHome
    <2>6. QED
      BY <2>1, <2>4, <2>5
  <1>5. QED
    BY <1>1, <1>2, <1>3, <1>4 DEF Kube

LEMMA DeployerImplements == ASSUME TypeOK, Deployer PROVE HomeStep
  <1>1. ASSUME NEW applied, NEW type, Patch(applied, type) PROVE HomeStep
    <2>1. rel'.finalizer = rel.finalizer /\ rel'.exists = rel.exists /\ rel'.status.ns = rel.status.ns
      BY <1>1 DEF Patch, TypeOK, Releases, Statuses
    <2>2. QED
      BY <1>1, <2>1, ReleaseStaysHome DEF Patch
  <1>2. CASE PodDeploys \/ PodChecks
    BY <1>1, <1>2 DEF PodDeploys, PodChecks
  <1>3. CASE PodBegins \/ PodRechecks \/ PodTestFails
    BY <1>3, ReleaseStaysHome DEF PodBegins, PodRechecks, PodTestFails, objects
  <1>4. QED
    BY <1>2, <1>3 DEF Deployer

-----------------------------------------------------------------------------
(* The controller keeps the promise of ReleaseHome, for all values of the  *)
(* constants: its objects are in one namespace at a time, are made only    *)
(* while the finalizer holds the Release, and are gone before it moves or  *)
(* goes.                                                                   *)
THEOREM ControllerKeepsHome == Spec => KeepsHome
  <1>1. Init => Home!Init
    <2> SUFFICES ASSUME Init PROVE Home!Init
      OBVIOUS
    <2>1. PICK spec \in Specs, userns \in BOOLEAN :
            rel = [exists |-> TRUE, deleting |-> FALSE, finalizer |-> FALSE,
                   userns |-> userns, generation |-> 1, spec |-> spec, status |-> NewStatus]
      BY DEF Init
    <2>2. Life = "new" /\ rel.status.ns = ""
      BY <2>1 DEF Life, NewStatus
    <2>3. Owned = {}
      BY NothingOwned DEF Init
    <2>4. QED
      BY <2>2, <2>3, Zenon DEF Home!Init
  <1>2. TypeOK /\ HomeInv /\ [Next]_vars => HomeStep
    <2> SUFFICES ASSUME TypeOK, HomeInv, [Next]_vars PROVE HomeStep
      OBVIOUS
    <2>1. CASE Next
      BY <2>1, SyncImplements, OthersImplement, KubeImplements, DeployerImplements DEF Next
    <2>2. CASE UNCHANGED vars
      BY <2>2, ReleaseStaysHome DEF vars
    <2>3. QED
      BY <2>1, <2>2
  <1>3. QED
    BY <1>1, <1>2, TypeCorrect, HomeCorrect, PTL DEF Spec, KeepsHome, Home!Spec, HomeStep
=============================================================================
