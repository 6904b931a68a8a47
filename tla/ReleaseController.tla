-------------------------- MODULE ReleaseController --------------------------
(***************************************************************************)
(* One Release and everything the release controller keeps for it          *)
(* (src/pkg/controller/release/controller.go): the Release object, the     *)
(* Secrets and Deployments made from it in the API server, the informer    *)
(* caches the controller decides on, and its work queue.  The Deployment   *)
(* controller of Kubernetes and the deployer pods are the environment the  *)
(* Release needs to get anywhere; the pods follow                          *)
(* src/pkg/deployer/controller/controller.go.                              *)
(*                                                                         *)
(* One call of syncHandler is one step.  The queue never hands a key to    *)
(* two workers, every cache is read once per call and lags behind the API  *)
(* server on its own, and each write but those of a cleanup ends the call, *)
(* so whatever another actor does between a read and a write of a call may *)
(* be taken before the call (a conflict, an object missing from a cache).  *)
(* A write that fails leaves the state as it is and the key in the queue:  *)
(* a stuttering step.  A cleanup that fails partway is SyncCleanupFails.   *)
(*                                                                         *)
(* Not here: the snapshot of the spec into ControllerRevisions, a stage of *)
(* syncHandler that touches none of this state (module RevisionHistory).   *)
(***************************************************************************)
EXTENDS ReleaseRules

CONSTANTS
    Keys, Values,   \* keys and values of the referenced secret
    Unusable,       \* the referenced secret is missing, is a managed one used
                    \* outside the user namespace, or no kubeconfig can be built
    RefSecrets,     \* what the referenced secret may be
    Remote,         \* the controller runs in remote mode
    SameSecond,     \* objects may be created within the same second
    Budget,         \* bound: changes by the user, restarts and pod failures
    Names,          \* bound: names of Secrets, and of Deployments, in use at a time
    SecretAges,     \* bound: Secrets created one after another while an older one
                    \* is alive or cached (a call that would create one more waits
                    \* for the caches)
    DeployAges      \* bound: the same for Deployments

ASSUME BoundsAssumption ==
    Budget \in Nat /\ Names \in Nat /\ SecretAges \in Nat /\ DeployAges \in Nat
ASSUME ModeAssumption == Remote \in BOOLEAN /\ SameSecond \in BOOLEAN

(* The data of a Secret: some of the keys, each with a value. *)
Contents == UNION {[K -> Values] : K \in SUBSET Keys}

ASSUME RefAssumption == RefSecrets \subseteq (Contents \cup {Unusable})

VARIABLES
    rel,            \* the Release in the API server
    relC,           \* the Release in the informer cache
    relStale,       \* the two have different resource versions
    secrets,        \* Secrets made from the Release
    secretsC,       \* the same, in the informer cache
    deploys,        \* Deployments made from the Release
    deploysC,       \* the same, in the informer cache
    deployStale,    \* names whose cached Deployment has an old resource version
    pods,           \* pods of those Deployments
    ref,            \* the secret spec.secretRef names, with what is added to it
    queued,         \* the key of the Release is in the work queue
    budget          \* what is left of Budget

objects == <<rel, secrets, deploys>>
caches == <<relC, secretsC, deploysC>>
vars == <<rel, relC, relStale, secrets, secretsC, deploys, deploysC, deployStale,
          pods, ref, queued, budget>>

ObjectNames == 1..Names
Namespaces == {"system", "user"}

Secrets == [name : ObjectNames, created : 1..SecretAges, ns : Namespaces, data : Contents]

Deployments == [name : ObjectNames, created : 1..DeployAges, ns : Namespaces,
                template : Templates, secret : ObjectNames, replicas : 0..1,
                first : BOOLEAN, observed : BOOLEAN, available : BOOLEAN]

Statuses == [observed : Nat, phase : Phases, ns : Namespaces \cup {""},
             deployerPhase : DeployerPhases, secret : 0..Names,
             deploy : 0..Names, applied : Works \cup {Nothing},
             conditions : Conditions]

Releases == [exists : BOOLEAN, deleting : BOOLEAN, finalizer : BOOLEAN,
             userns : BOOLEAN, generation : Nat, spec : Specs, status : Statuses]

(* A pod waits until the controller has observed the spec, then handles    *)
(* commits; "testing" is from what it read or reported to the result of    *)
(* Test.                                                                   *)
Pods == [of : ObjectNames, template : Templates, secret : ObjectNames,
         state : {"waiting", "idle", "testing"}]

NewStatus == [observed |-> 0, phase |-> "", ns |-> "", deployerPhase |-> "", secret |-> 0,
              deploy |-> 0, applied |-> Nothing, conditions |-> NoConditions]

Init ==
    /\ \E spec \in Specs, userns \in BOOLEAN :
          rel = [exists |-> TRUE, deleting |-> FALSE, finalizer |-> FALSE,
                 userns |-> userns, generation |-> 1, spec |-> spec, status |-> NewStatus]
    /\ relC = rel
    /\ relStale = FALSE
    /\ secrets = {} /\ secretsC = {}
    /\ deploys = {} /\ deploysC = {} /\ deployStale = {}
    /\ pods = {}
    /\ ref \in RefSecrets
    /\ queued = TRUE
    /\ budget = Budget

-----------------------------------------------------------------------------
(* Helpers of syncHandler; r is the Release it read from the cache. *)

(* Mutant: no default for the namespace of the pod. *)
PodNamespace_NoDefault(r) == IF r.userns THEN "user" ELSE ""

PodNamespace(r) == IF r.userns THEN "user" ELSE "system"

(* newSecret(base): the keys of the referenced secret, over those of base. *)
Merge(base, new) == [k \in DOMAIN base \cup DOMAIN new |-> IF k \in DOMAIN new THEN new[k] ELSE base[k]]

Youngest(S) == {x \in S : \A y \in S : y.created <= x.created}

OwnSecrets(r) == {s \in secretsC : s.ns = PodNamespace(r)}
OwnDeploys(r) == {d \in deploysC : d.ns = PodNamespace(r)}

(* A new object gets a name nobody has or remembers, and is younger than   *)
(* those alive or cached; creation times count seconds.                    *)
SecretsInUse == {s.name : s \in secrets \cup secretsC} \cup {d.secret : d \in deploys \cup deploysC}
                  \cup {rel.status.secret, relC.status.secret}
DeploysInUse == {d.name : d \in deploys \cup deploysC} \cup {rel.status.deploy, relC.status.deploy}
NewName(inUse) == {n \in ObjectNames \ inUse : \A m \in ObjectNames \ inUse : n <= m}
NewAge(S, ages) ==
    {t \in ages : /\ \A x \in S : x.created < t \/ (SameSecond /\ x.created = t)
                  /\ t = 1 \/ \E x \in S : x.created \in {t - 1, t}}

(* newDeployment(base): base with the spec the Release asks for. *)
Wanted(d, r, s) == [d EXCEPT !.template = Template(r.spec), !.secret = s.name,
                             !.replicas = Replicas(r)]

(* Mutant: updates without a resource version, the last one wins. *)
Accepted_LastWins == rel.exists

(* Optimistic concurrency: an update carries the version it was made from. *)
Accepted == rel.exists /\ ~relStale

UpdateStatus(status) ==
    /\ Accepted
    /\ rel' = [rel EXCEPT !.status = status]
    /\ relStale' = TRUE

(* Update takes everything but the status, a subresource. *)
Update(r) ==
    /\ Accepted
    /\ rel' = [r EXCEPT !.status = rel.status]
    /\ relStale' = TRUE

(* A call that ended well forgets the key; if the reply of its last write  *)
(* was lost it is queued again.                                            *)
Done == queued' \in BOOLEAN

(* Mutant: the namespace of the deployer status is set once. *)
Placed_Once(r) == r.exists /\ ~r.deleting /\ ~(Remote /\ r.userns) /\ r.finalizer /\ r.status.ns # ""

(* What the calls of syncHandler that reach a stage have behind them (a    *)
(* spec without a deployer ends them all with an error: not in Specs).     *)
Valid(r) == r.exists /\ ~r.deleting /\ ~(Remote /\ r.userns)
Placed(r) == Valid(r) /\ r.finalizer /\ r.status.ns = PodNamespace(r)
Phased(r) == Placed(r) /\ r.status.phase = ReleasePhase(r) /\ ref # Unusable
Equipped(r, s) == Phased(r) /\ s \in Youngest(OwnSecrets(r)) /\ Merge(s.data, ref) = s.data
Recorded(r, s) == Equipped(r, s) /\ r.status.secret = s.name
Deployed(r, s, d) == Recorded(r, s) /\ d \in Youngest(OwnDeploys(r)) /\ Wanted(d, r, s) = d

ObservedStatus(r, d) == [r.status EXCEPT !.deploy = d.name, !.observed = r.generation,
                                         !.deployerPhase = DeployerPhase(d)]
(* Mutant: unused Secrets go before the Deployment uses the new one. *)
Observed_TooEarly(r, s, d) == Recorded(r, s) /\ d \in Youngest(OwnDeploys(r))

Observed(r, s, d) == Deployed(r, s, d) /\ r.status = ObservedStatus(r, d)

-----------------------------------------------------------------------------
(* Deleting Secrets and Deployments; a Deployment takes its pods along. *)

Cascade ==
    /\ pods' = {p \in pods : \E d \in deploys' : d.name = p.of}
    /\ deployStale' = deployStale \cup
         ({d.name : d \in deploys \ deploys'} \cap {d.name : d \in deploysC})

(* Mutant: it lists them from the cache. *)
Cleanup_Cached(ns) ==
    /\ deploys' = {d \in deploys : d.ns # ns \/ d.name \notin {c.name : c \in deploysC}}
    /\ secrets' = {s \in secrets : s.ns # ns \/ s \notin secretsC}
    /\ Cascade

(* cleanupNamespace lists both kinds from the API server, not the cache. *)
Cleanup(ns) ==
    /\ deploys' = {d \in deploys : d.ns # ns}
    /\ secrets' = {s \in secrets : s.ns # ns}
    /\ Cascade

(* The namespace a call for r cleans up first: that of a Release being     *)
(* deleted, or the previous one of a Release that moved.                   *)
ToCleanup(r) ==
    IF r.exists /\ r.status.ns # ""
       /\ (r.deleting \/ (Valid(r) /\ r.finalizer /\ r.status.ns # PodNamespace(r)))
    THEN {r.status.ns} ELSE {}

-----------------------------------------------------------------------------
(* syncHandler, one action for each of its ways out. *)

(* NotFound, or an annotation that is invalid in remote mode. *)
SyncNothing ==
    /\ ~relC.exists \/ (~relC.deleting /\ Remote /\ relC.userns)
    /\ queued' = FALSE
    /\ UNCHANGED <<objects, relStale, deployStale, pods>>

(* Mutant: a Release without a deployer status is left alone. *)
SyncDelete_NeedsStatus ==
    /\ relC.exists /\ relC.deleting /\ relC.status.ns # ""
    /\ Cleanup(relC.status.ns)
    /\ Update([relC EXCEPT !.finalizer = FALSE, !.exists = FALSE])
    /\ Done

(* deleteResourcesFor: the cleanup, then the finalizer goes, the last one. *)
SyncDelete ==
    /\ relC.exists /\ relC.deleting
    /\ IF relC.status.ns = "" THEN UNCHANGED <<deploys, secrets, deployStale, pods>>
                              ELSE Cleanup(relC.status.ns)
    /\ Update([relC EXCEPT !.finalizer = FALSE, !.exists = FALSE])
    /\ Done

(* Mutant: Secrets go first. *)
SyncCleanupFails_SecretsFirst ==
    \E ns \in ToCleanup(relC) :
      \E D \in SUBSET {d \in deploys : d.ns = ns}, S \in SUBSET {s \in secrets : s.ns = ns} :
        /\ D # {} \/ S # {}
        /\ D # {} => S = {s \in secrets : s.ns = ns}
        /\ deploys' = deploys \ D
        /\ secrets' = secrets \ S
        /\ Cascade
        /\ UNCHANGED <<rel, relStale, queued>>

(* A cleanup that stops at an error, at a conflict of the update after it, *)
(* or with the process: Deployments go first, then Secrets.                *)
SyncCleanupFails ==
    \E ns \in ToCleanup(relC) :
      \E D \in SUBSET {d \in deploys : d.ns = ns}, S \in SUBSET {s \in secrets : s.ns = ns} :
        /\ D # {} \/ S # {}
        /\ S # {} => D = {d \in deploys : d.ns = ns}
        /\ deploys' = deploys \ D
        /\ secrets' = secrets \ S
        /\ Cascade
        /\ UNCHANGED <<rel, relStale, queued>>

SyncFinalizer ==
    /\ Valid(relC) /\ ~relC.finalizer
    /\ Update([relC EXCEPT !.finalizer = TRUE])
    /\ Done
    /\ UNCHANGED <<secrets, deploys, deployStale, pods>>

(* Mutant: no cleanup of the previous namespace. *)
SyncNamespace_NoCleanup ==
    /\ Valid(relC) /\ relC.finalizer /\ relC.status.ns # PodNamespace(relC)
    /\ UpdateStatus([relC.status EXCEPT !.ns = PodNamespace(relC), !.deployerPhase = "Pending"])
    /\ Done
    /\ UNCHANGED <<secrets, deploys, deployStale, pods>>

(* The deployer status, after the previous namespace has been cleaned up. *)
SyncNamespace ==
    /\ Valid(relC) /\ relC.finalizer /\ relC.status.ns # PodNamespace(relC)
    /\ IF relC.status.ns = "" THEN UNCHANGED <<deploys, secrets, deployStale, pods>>
                              ELSE Cleanup(relC.status.ns)
    /\ UpdateStatus([relC.status EXCEPT
                        !.ns = PodNamespace(relC),
                        !.deployerPhase = IF relC.status.ns = "" THEN "Pending" ELSE @])
    /\ Done

(* Mutant: no marker. *)
SyncPhase_NoMarker ==
    /\ Placed(relC) /\ relC.status.phase # ReleasePhase(relC)
    /\ UpdateStatus([relC.status EXCEPT !.phase = ReleasePhase(relC)])
    /\ Done
    /\ UNCHANGED <<secrets, deploys, deployStale, pods>>

(* Entering Running appends the marker that tells old conditions from new. *)
SyncPhase ==
    LET phase == ReleasePhase(relC) IN
    /\ Placed(relC) /\ relC.status.phase # phase
    /\ UpdateStatus([relC.status EXCEPT
                        !.phase = phase,
                        !.conditions = IF phase = "Running"
                                       THEN AppendCondition(@, "DeployerReady") ELSE @])
    /\ Done
    /\ UNCHANGED <<secrets, deploys, deployStale, pods>>

SyncCreateSecret ==
    /\ Phased(relC)
    /\ \/ OwnSecrets(relC) = {}
       \/ \E s \in Youngest(OwnSecrets(relC)) : Merge(s.data, ref) # s.data
    /\ \E n \in NewName(SecretsInUse), t \in NewAge(secrets \cup secretsC, 1..SecretAges) :
          secrets' = secrets \cup {[name |-> n, created |-> t, ns |-> PodNamespace(relC), data |-> ref]}
    /\ Done
    /\ UNCHANGED <<rel, relStale, deploys, deployStale, pods>>

SyncRecordSecret ==
    \E s \in secretsC :
      /\ Equipped(relC, s) /\ relC.status.secret # s.name
      /\ UpdateStatus([relC.status EXCEPT !.secret = s.name])
      /\ Done
      /\ UNCHANGED <<secrets, deploys, deployStale, pods>>

SyncCreateDeployment ==
    \E s \in secretsC :
      /\ Recorded(relC, s) /\ OwnDeploys(relC) = {}
      /\ \E n \in NewName(DeploysInUse), t \in NewAge(deploys \cup deploysC, 1..DeployAges) :
            deploys' = deploys \cup
              {Wanted([name |-> n, created |-> t, ns |-> PodNamespace(relC),
                       template |-> Template(relC.spec), secret |-> 0, replicas |-> 0,
                       first |-> TRUE, observed |-> FALSE, available |-> FALSE], relC, s)}
      /\ Done
      /\ UNCHANGED <<rel, relStale, secrets, deployStale, pods>>

SyncUpdateDeployment ==
    \E s \in secretsC, d \in deploysC :
      /\ Recorded(relC, s) /\ d \in Youngest(OwnDeploys(relC)) /\ Wanted(d, relC, s) # d
      /\ d.name \notin deployStale
      /\ deploys' = {e \in deploys : e.name # d.name} \cup
                      {[Wanted(d, relC, s) EXCEPT !.first = FALSE, !.observed = FALSE]}
      /\ deployStale' = deployStale \cup {d.name}
      /\ Done
      /\ UNCHANGED <<rel, relStale, secrets, pods>>

SyncObserve ==
    \E s \in secretsC, d \in deploysC :
      /\ Deployed(relC, s, d) /\ relC.status # ObservedStatus(relC, d)
      /\ UpdateStatus(ObservedStatus(relC, d))
      /\ Done
      /\ UNCHANGED <<secrets, deploys, deployStale, pods>>

(* One Secret the worker does not use; NotFound is an error like another. *)
SyncDeleteSecret ==
    \E s \in secretsC, d \in deploysC, old \in secretsC :
      /\ Observed(relC, s, d) /\ old \in OwnSecrets(relC) \ {s}
      /\ old \in secrets
      /\ secrets' = secrets \ {old}
      /\ Done
      /\ UNCHANGED <<rel, relStale, deploys, deployStale, pods>>

SyncPrune ==
    \E s \in secretsC, d \in deploysC :
      /\ Observed(relC, s, d) /\ OwnSecrets(relC) = {s}
      /\ LET pruned == PruneConditions(relC.status.conditions, DeployerPhase(d)) IN
           IF pruned = relC.status.conditions
           THEN UNCHANGED <<rel, relStale>> /\ queued' = FALSE
           ELSE UpdateStatus([relC.status EXCEPT !.conditions = pruned]) /\ Done
      /\ UNCHANGED <<secrets, deploys, deployStale, pods>>

Sync ==
    /\ queued
    /\ \/ SyncNothing \/ SyncDelete \/ SyncCleanupFails \/ SyncFinalizer
       \/ SyncNamespace \/ SyncPhase
       \/ SyncCreateSecret \/ SyncRecordSecret
       \/ SyncCreateDeployment \/ SyncUpdateDeployment \/ SyncObserve
       \/ SyncDeleteSecret \/ SyncPrune
    /\ UNCHANGED <<caches, ref, budget>>

-----------------------------------------------------------------------------
(* Informers.  Whatever a cache catches up with puts the key in the queue; *)
(* the resync every 30s does not, its objects have the same version.       *)

(* Mutant: the handler queues a Release only if its generation changed. *)
RefreshRelease_NewGeneration ==
    /\ relStale
    /\ relC' = rel
    /\ relStale' = FALSE
    /\ queued' = (queued \/ (rel.exists /\ rel.generation # relC.generation))
    /\ UNCHANGED <<objects, secretsC, deploysC, deployStale, pods, ref, budget>>

RefreshRelease ==
    /\ relStale
    /\ relC' = rel
    /\ relStale' = FALSE
    /\ queued' = (queued \/ rel.exists)
    /\ UNCHANGED <<objects, secretsC, deploysC, deployStale, pods, ref, budget>>

RefreshSecrets ==
    /\ secretsC # secrets
    /\ secretsC' = secrets
    /\ queued' = TRUE
    /\ UNCHANGED <<objects, relC, relStale, deploysC, deployStale, pods, ref, budget>>

RefreshDeployments ==
    /\ deploysC # deploys \/ deployStale # {}
    /\ deploysC' = deploys
    /\ deployStale' = {}
    /\ queued' = TRUE
    /\ UNCHANGED <<objects, relC, relStale, secretsC, pods, ref, budget>>

(* The process dies and another lists everything anew. *)
Restart ==
    /\ budget > 0 /\ budget' = budget - 1
    /\ relC' = rel /\ relStale' = FALSE
    /\ secretsC' = secrets
    /\ deploysC' = deploys /\ deployStale' = {}
    /\ queued' = (rel.exists \/ secrets # {} \/ deploys # {})
    /\ UNCHANGED <<objects, pods, ref>>

Informers == RefreshRelease \/ RefreshSecrets \/ RefreshDeployments

-----------------------------------------------------------------------------
(* The user. *)

Spend == budget > 0 /\ budget' = budget - 1

Edit ==
    /\ Spend
    /\ rel.exists /\ ~rel.deleting
    /\ \E spec \in Specs \ {rel.spec} :
          rel' = [rel EXCEPT !.spec = spec, !.generation = @ + 1]
    /\ relStale' = TRUE
    /\ UNCHANGED <<caches, secrets, deploys, deployStale, pods, ref, queued>>

(* Annotations are metadata: the generation stays. *)
SwitchNamespace ==
    /\ Spend
    /\ rel.exists /\ ~rel.deleting
    /\ rel' = [rel EXCEPT !.userns = ~@]
    /\ relStale' = TRUE
    /\ UNCHANGED <<caches, secrets, deploys, deployStale, pods, ref, queued>>

Delete ==
    /\ rel.exists /\ ~rel.deleting
    /\ rel' = IF rel.finalizer THEN [rel EXCEPT !.deleting = TRUE, !.generation = @ + 1]
                               ELSE [rel EXCEPT !.exists = FALSE]
    /\ relStale' = TRUE
    /\ UNCHANGED <<caches, secrets, deploys, deployStale, pods, ref, queued, budget>>

(* No informer event: nobody watches the referenced secret. *)
ChangeRefSecret ==
    /\ Spend
    /\ \E new \in RefSecrets \ {ref} : ref' = new
    /\ UNCHANGED <<objects, caches, relStale, deployStale, pods, queued>>

User == Edit \/ SwitchNamespace \/ Delete \/ ChangeRefSecret

-----------------------------------------------------------------------------
(* Kubernetes: the controller behind a Deployment with strategy Recreate.  *)

Fits(p, d) == p.of = d.name /\ p.template = d.template /\ p.secret = d.secret /\ d.replicas = 1

SetDeployment(d, e) ==
    /\ deploys' = (deploys \ {d}) \cup {e}
    /\ deployStale' = deployStale \cup ({d.name} \cap {c.name : c \in deploysC})

(* It sees the new spec and stops the pod that no longer fits. *)
KubeObserve == \E d \in deploys :
    /\ ~d.observed
    /\ LET stay == {p \in pods : p.of = d.name => Fits(p, d)} IN
         /\ pods' = stay
         /\ SetDeployment(d, [d EXCEPT !.observed = TRUE, !.available = @ /\ pods = stay])
    /\ UNCHANGED <<rel, secrets, caches, relStale, ref, queued, budget>>

(* A pod needs the Secret it mounts. *)
KubeStart == \E d \in deploys :
    /\ d.observed /\ d.replicas = 1 /\ \A p \in pods : p.of # d.name
    /\ \E s \in secrets : s.name = d.secret /\ s.ns = d.ns
    /\ pods' = pods \cup {[of |-> d.name, template |-> d.template, secret |-> d.secret,
                           state |-> "waiting"]}
    /\ UNCHANGED <<objects, caches, relStale, deployStale, ref, queued, budget>>

KubeReady == \E d \in deploys :
    /\ d.observed /\ ~d.available /\ \E p \in pods : Fits(p, d)
    /\ SetDeployment(d, [d EXCEPT !.available = TRUE])
    /\ UNCHANGED <<rel, secrets, caches, relStale, pods, ref, queued, budget>>

(* A container dies and starts again. *)
PodFails == \E p \in pods, d \in deploys :
    /\ Spend
    /\ p.of = d.name
    /\ pods' = (pods \ {p}) \cup {[p EXCEPT !.state = "waiting"]}
    /\ IF d.available THEN SetDeployment(d, [d EXCEPT !.available = FALSE])
                      ELSE UNCHANGED <<deploys, deployStale>>
    /\ UNCHANGED <<rel, secrets, caches, relStale, ref, queued>>

-----------------------------------------------------------------------------
(* The deployer in a pod; it reads and patches the Release in the API      *)
(* server, without a resource version.                                     *)

Turn(p, state) == pods' = (pods \ {p}) \cup {[p EXCEPT !.state = state]}

(* Adding to the end of a list that is absent is an error of JSON patch.   *)
Patch(applied, type) ==
    /\ rel.exists /\ rel.status.conditions.has # {}
    /\ rel' = [rel EXCEPT !.status.applied = applied,
                          !.status.conditions = AppendCondition(@, type)]
    /\ relStale' = TRUE
    /\ UNCHANGED <<secrets, deploys, caches, deployStale, ref, queued, budget>>

(* Run polls until the spec has been observed and a phase allows to start. *)
PodBegins == \E p \in pods :
    /\ p.state = "waiting"
    /\ rel.exists /\ rel.status.observed >= rel.generation
    /\ rel.status.phase \in {"Running", "Succeeded", "Failed"}
    /\ Turn(p, "idle")
    /\ UNCHANGED <<objects, caches, relStale, deployStale, ref, queued, budget>>

(* Something new, or Reconcile and a difference: Run, and report it. *)
PodDeploys == \E p \in pods :
    /\ p.state = "idle"
    /\ rel.exists /\ (rel.status.applied # p.template.work \/ p.template.reconcile)
    /\ Patch(p.template.work, "ReleaseDeployed")
    /\ Turn(p, "testing")

PodChecks == \E p \in pods :
    /\ p.state = "testing"
    /\ Patch(rel.status.applied, "ReleaseChecked")
    /\ Turn(p, "idle")

(* No difference, but the Release is not ready: Test again. *)
PodRechecks == \E p \in pods :
    /\ p.state = "idle"
    /\ rel.status.applied = p.template.work
    /\ rel.exists /\ rel.status.phase \notin {"Succeeded", "Failed"}
    /\ Turn(p, "testing")
    /\ UNCHANGED <<objects, caches, relStale, deployStale, ref, queued, budget>>

(* Test fails, or the patch does: the commit goes back to the queue. *)
PodTestFails == \E p \in pods :
    /\ p.state = "testing"
    /\ Turn(p, "idle")
    /\ UNCHANGED <<objects, caches, relStale, deployStale, ref, queued, budget>>

Kube == KubeObserve \/ KubeStart \/ KubeReady
Deployer == PodBegins \/ PodDeploys \/ PodChecks \/ PodRechecks \/ PodTestFails

Next == Sync \/ Informers \/ Restart \/ User \/ Kube \/ PodFails \/ Deployer

Spec == Init /\ [][Next]_vars

(* The worker gets to the end of a call that keeps being possible, and its *)
(* writes do not conflict with those of a pod for ever: a pod writes once  *)
(* in five minutes.  Informers catch up, Kubernetes does its work, a pod   *)
(* does its own and Test passes at last.                                   *)
Fairness ==
    /\ SF_vars(Sync)
    /\ WF_vars(RefreshRelease) /\ WF_vars(RefreshSecrets) /\ WF_vars(RefreshDeployments)
    /\ WF_vars(KubeObserve) /\ WF_vars(KubeStart) /\ WF_vars(KubeReady)
    /\ WF_vars(PodBegins) /\ WF_vars(PodDeploys) /\ SF_vars(PodChecks) /\ WF_vars(PodRechecks)

FairSpec == Spec /\ Fairness

-----------------------------------------------------------------------------
TypeOK ==
    /\ rel \in Releases /\ relC \in Releases /\ relStale \in BOOLEAN
    /\ secrets \subseteq Secrets /\ secretsC \subseteq Secrets
    /\ deploys \subseteq Deployments /\ deploysC \subseteq Deployments
    /\ deployStale \subseteq ObjectNames
    /\ pods \subseteq Pods
    /\ ref \in RefSecrets
    /\ queued \in BOOLEAN
    /\ budget \in Nat

(* No orphans.  Whatever fails or lags, every Secret and Deployment in the *)
(* API server lives in the one namespace the status names, and only while  *)
(* the Release, with the Released finalizer, is there to clean it up.      *)
NoOrphans ==
    \A x \in secrets \cup deploys : rel.exists /\ rel.finalizer /\ x.ns = rel.status.ns

(* However old the Release is that a call reads: if it would make objects  *)
(* for it, the Release is still held, and its home is where they will be.  *)
CreatesAtHome ==
    Placed(relC) => rel.exists /\ rel.finalizer /\ rel.status.ns = PodNamespace(relC)

(* The promise of module ReleaseHome: the Secrets and Deployments as owned *)
(* objects; an update of a Deployment in place changes none of them.       *)
Owned == {<<<<"secret", s.name>>, s.ns>> : s \in secrets}
           \cup {<<<<"deployment", d.name>>, d.ns>> : d \in deploys}

Life == IF ~rel.exists THEN "gone" ELSE IF rel.finalizer THEN "held" ELSE "new"

Home == INSTANCE ReleaseHome WITH
          Object <- {"secret", "deployment"} \X ObjectNames,
          life <- Life, home <- rel.status.ns, owned <- Owned

KeepsHome == Home!Spec

(* Cleaning up never takes the Secret a worker mounts away from under it,  *)
(* however old what the call read: of the latest Deployment in its cache,  *)
(* the API server may have another version, which mounts another Secret,   *)
(* and the cache may miss Secrets; the cleanup of a namespace that stops   *)
(* halfway has taken the Deployments first.                                *)
MountedSecretKept ==
    [][\A s \in secrets \ secrets', d \in deploys :
          /\ s.name = d.secret /\ s.ns = d.ns
          /\ \E c \in Youngest(OwnDeploys(relC)) : c.name = d.name
          => \A e \in deploys' : e.name # d.name]_vars

(* So in remote mode, where a Release never moves, the latest Deployment   *)
(* has the Secret it mounts until the Release is deleted.                  *)
MountedSecretExists ==
    Remote /\ ~rel.deleting =>
      \A d \in Youngest(deploys) : \E s \in secrets : s.name = d.secret /\ s.ns = d.ns

(* A pod that may start finds a list of conditions it can append to (the   *)
(* second reason syncHandler gives for the Running marker).                *)
ReportsFit ==
    \A p \in pods : p.state # "waiting" => rel.status.conditions.has # {}

(* A call of syncHandler, however old what it read, never undoes a change  *)
(* of the user or a report of a pod.                                       *)
KeepsOthersWrites ==
    [][Sync /\ rel'.exists =>
         /\ rel'.spec = rel.spec /\ rel'.userns = rel.userns
         /\ rel'.deleting = rel.deleting /\ rel'.generation = rel.generation
         /\ rel'.status.applied = rel.status.applied
         /\ rel.status.conditions.has \subseteq rel'.status.conditions.has
         /\ rel'.status.conditions.last \in {rel.status.conditions.last, "DeployerReady"}]_vars

(* Once nothing changes any more, a valid Release is deployed as its spec  *)
(* says and verified, or disabled, with the worker scaled to zero and one  *)
(* Secret left.  A worker that reconciles goes on writing; not this one.   *)
Realized ==
    LET st == rel.status IN
    /\ rel.finalizer /\ st.ns = PodNamespace(rel) /\ st.observed = rel.generation
    /\ IF rel.spec.disabled THEN st.phase = "Disabled"
       ELSE st.applied = rel.spec.work /\ st.phase = "Succeeded"
    /\ \E s \in secrets, d \in deploys :
         /\ secrets = {s} /\ deploys = {d}
         /\ st.secret = s.name /\ st.deploy = d.name
         /\ d.secret = s.name /\ d.template = Template(rel.spec)
         /\ d.replicas = 0 /\ pods = {}

EventuallyRealized ==
    <>[](Valid(rel) /\ ref # Unusable /\ ~rel.spec.reconcile => Realized)

(* A deletion ends, with nothing left behind. *)
DeletionEnds == (rel.deleting \/ ~rel.exists) ~> (~rel.exists /\ secrets = {} /\ deploys = {})

(* "Disabled if set to true indicates that this release shouldn't be       *)
(* worked on" (types.go): once nothing changes any more, no pod works on a *)
(* disabled Release.                                                       *)
DisabledStops == <>[](Valid(rel) /\ rel.spec.disabled /\ ref # Unusable => pods = {})

(* "If the observedGeneration equals to metadata generation, then phase    *)
(* must be correct": Succeeded is a fully realized Release (types.go).     *)
PhaseTrusted ==
    rel.exists /\ rel.status.observed = rel.generation /\ rel.status.phase = "Succeeded"
      => rel.status.applied = rel.spec.work

=============================================================================
