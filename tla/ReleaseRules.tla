---------------------------- MODULE ReleaseRules ----------------------------
(***************************************************************************)
(* The pure decisions of the release controller                            *)
(* (src/pkg/controller/release/controller.go): the phase of a Release, the *)
(* phase of its deployer, whether the deployer may be scaled to zero, and  *)
(* the bookkeeping of the list of conditions.  No state of its own: the    *)
(* operators take the objects as records, and ReleaseController uses them. *)
(*                                                                         *)
(* Data kept.  A Release spec is told apart by                             *)
(*   work      what a deployment applies: revision and parameters, the two *)
(*             values status.commit / status.parametersHash record,        *)
(*   conf      the fields that shape the pod but are in neither of them    *)
(*             (configuration path, includes, service account, ...),       *)
(*   reconcile spec.deployer.reconcile,                                    *)
(*   disabled  spec.disabled.                                              *)
(* The list of conditions is told apart by the type of its last entry, the *)
(* set of types in it, the status of the latest DeployerReady entry, and   *)
(* whether it holds an older entry of some type: no decision of the code   *)
(* reads anything else of it.                                              *)
(***************************************************************************)
EXTENDS Integers, FiniteSets

CONSTANTS
    Specs,          \* the specs a user may write
    Nothing         \* status.commit and status.parametersHash before any deployment

Phases == {"", "Pending", "Spawning", "Running", "Succeeded", "Failed", "Disabled"}
DeployerPhases == {"", "Pending", "Creating", "Progressing", "Running"}

(* "Refuted" stands for the latest entry of type ReleaseInit, Diff, Run,   *)
(* Test or Checked being False.  releasePhase and shouldScaleZero read it, *)
(* but no code of the repository writes one: no action below appends it.   *)
CondTypes == {"DeployerReady", "ReleaseDeployed", "ReleaseChecked", "Refuted"}

Works == {s.work : s \in Specs}

(* The part of a spec a pod template carries: newDeployment copies every   *)
(* field but spec.disabled, which only sets the number of replicas.        *)
Template(spec) == [work |-> spec.work, conf |-> spec.conf, reconcile |-> spec.reconcile]

Templates == {Template(s) : s \in Specs}

-----------------------------------------------------------------------------
(* Conditions *)

Conditions == [last : CondTypes \cup {""}, has : SUBSET CondTypes,
               ready : BOOLEAN, crowded : BOOLEAN]

NoConditions == [last |-> "", has |-> {}, ready |-> FALSE, crowded |-> FALSE]

(* append(conditions, {type, True}) *)
AppendCondition(c, type) ==
    [last |-> type, has |-> c.has \cup {type},
     ready |-> IF type = "DeployerReady" THEN TRUE ELSE c.ready,
     crowded |-> c.crowded \/ type \in c.has]

(* The end of syncHandler: one entry per type is kept, the latest, and     *)
(* DeployerReady is set to whether the deployer runs.                      *)
PruneConditions(c, deployerPhase) ==
    [c EXCEPT !.crowded = FALSE,
              !.ready = "DeployerReady" \in c.has /\ deployerPhase = "Running"]

-----------------------------------------------------------------------------
(* Phases.  d is a Deployment, rel a Release. *)

DeployerPhase(d) ==
    IF ~d.observed \/ d.replicas = 0 THEN "Pending"
    ELSE IF d.available THEN "Running"
    ELSE IF d.first THEN "Creating"
    ELSE "Progressing"

Verified(c) == c.last = "ReleaseChecked"
Refuted(c) == c.last = "Refuted"

ReleasePhase(rel) ==
    LET st == rel.status IN
    IF st.observed < rel.generation THEN "Pending"
    ELSE IF rel.spec.disabled THEN "Disabled"
    ELSE IF st.phase = "Succeeded" /\ Verified(st.conditions) THEN "Succeeded"
    ELSE IF st.phase = "Failed" /\ Refuted(st.conditions) THEN "Failed"
    ELSE IF st.deployerPhase \in {"", "Pending"} THEN "Pending"
    ELSE IF st.deployerPhase \in {"Creating", "Progressing"} THEN "Spawning"
    ELSE IF st.phase = "Spawning" \/ st.conditions.has = {} THEN "Running"
    ELSE IF Verified(st.conditions) THEN "Succeeded"
    ELSE IF Refuted(st.conditions) THEN "Failed"
    ELSE "Running"

(* Mutant: what has been applied is not compared with the spec. *)
ShouldScaleZero_AnyWork(rel) ==
    /\ rel.status.phase \in {"Succeeded", "Failed"}
    /\ rel.generation = rel.status.observed
    /\ ~rel.spec.reconcile

ShouldScaleZero(rel) ==
    /\ rel.status.phase \in {"Succeeded", "Failed"}
    /\ rel.generation = rel.status.observed
    /\ ~rel.spec.reconcile
    /\ rel.spec.work = rel.status.applied

Replicas(rel) == IF rel.spec.disabled \/ ShouldScaleZero(rel) THEN 0 ELSE 1
=============================================================================
