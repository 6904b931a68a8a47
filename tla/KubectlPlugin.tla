---------------------------- MODULE KubectlPlugin ----------------------------
(****************************************************************************)
(* The kubectl plugin of the deployer (pkg/deployer/plugins/kubectl), its   *)
(* kubectl (pkg/kubectl) and the checkers (pkg/checker): a commit's objects *)
(* are applied, those that have left Git are pruned, and what was applied   *)
(* is tested, each object by a command of its own, while users and          *)
(* controllers change the cluster.                                          *)
(*                                                                          *)
(* The deployer's part (pkg/deployer/controller, module WorkerPod) is what  *)
(* it remembers of a commit: deployed, and checked.  The content of an      *)
(* object is the commit it was applied from, its status whether this        *)
(* generation is observed, and whether the replicas are updated and ready.  *)
(****************************************************************************)
EXTENDS Naturals, FiniteSets, Sequences

CONSTANTS
  Objects,     \* records [kind, ns, name]
  Histories,   \* what Git holds, commit by commit
  SkipList,    \* prune.skipList: <<kind>>, <<kind, ns>>, <<kind, ns, name>>
  Budget       \* what users do, and commands that fail, in number

ASSUME PluginAssumption ==
  /\ \A o \in Objects : o = [kind |-> o.kind, ns |-> o.ns, name |-> o.name]
  /\ \A h \in Histories : /\ h \in Seq(SUBSET Objects)
                          /\ \A c \in DOMAIN h : h[c] # {}
  /\ Budget \in Nat

VARIABLES
  history,    \* the commits, of which the first "commit" were pushed
  commit,
  reconcile,  \* spec.reconcile
  dryRun,     \* options.DryRun
  live,       \* the objects in the API server
  pc,         \* where the call of syncHandler is
  path,       \* the commit whose objects are rendered, k.path
  todo,       \* objects to apply or to check, or the one being deleted
  pairs,      \* pairs of kind and namespace to prune
  names,      \* what is to be deleted of the pair at work
  bad,        \* whether a command failed, or a check did
  deployed,   \* the commit last patched as deployed
  checked,    \* and as checked
  touched,    \* a user has changed something since the call began to run
  left        \* what users may still do, and commands may fail

env == <<history, reconcile, dryRun>>
call == <<pc, path, todo, pairs, names, bad>>
vars == <<env, commit, live, call, deployed, checked, touched, left>>

Pair(o) == <<o.kind, o.ns>>

(* What Init writes to k.path: the configuration of the commit is read, and *)
(* its templates are rendered with the values (see RenderValues).           *)
Rendered(c) == history[c]

(* kubectl get -f lists what is rendered. *)
Git == Rendered(path)
Pairs == {Pair(o) : o \in Git}

(* prune: the three forms of an entry of the skip list. *)
PairSkipped(pair) == <<pair[1]>> \in SkipList \/ pair \in SkipList
Skipped(o) == PairSkipped(Pair(o)) \/ <<o.kind, o.ns, o.name>> \in SkipList

Absent == [is |-> FALSE, content |-> 0, label |-> FALSE, deleting |-> FALSE,
           observed |-> FALSE, updated |-> FALSE, ready |-> FALSE]
States == [is : BOOLEAN, content : Nat, label : BOOLEAN, deleting : BOOLEAN,
           observed : BOOLEAN, updated : BOOLEAN, ready : BOOLEAN]

Init ==
  /\ history \in Histories /\ reconcile \in BOOLEAN /\ dryRun \in BOOLEAN
  /\ commit = 0 /\ live = [o \in Objects |-> Absent]
  /\ pc = "idle" /\ path = 0 /\ todo = {} /\ pairs = {} /\ names = {} /\ bad = FALSE
  /\ deployed = 0 /\ checked = 0 /\ touched = FALSE
  /\ left = Budget

-----------------------------------------------------------------------------
(* The call. *)

(* An error: the key comes back.  What was applied stays applied. *)
Fail ==
  /\ pc' = "idle" /\ todo' = {} /\ pairs' = {} /\ names' = {} /\ bad' = FALSE
  /\ UNCHANGED <<path, deployed, checked>>

(* kubectl get -f fails unless all of Git is there. *)
AllThere == \A o \in Git : live[o].is

Differs_IfThere == \E o \in Rendered(commit) : live[o].is /\ live[o].content # commit

(* Diff: kubectl diff of what Git has; any error is a difference, too. *)
Differs == \E o \in Rendered(commit) : ~live[o].is \/ live[o].content # commit

(* Init renders the commit; it runs if it is not the one deployed, or if it *)
(* is to be reconciled and differs.                                         *)
Start ==
  /\ pc = "idle" /\ commit # 0
  /\ path' = commit
  /\ \/ /\ deployed # commit \/ reconcile
        /\ pc' = "apply" /\ todo' = Rendered(commit) /\ touched' = FALSE
     \/ /\ deployed = commit /\ checked # commit /\ ~(reconcile /\ Differs)
        /\ pc' = "list" /\ UNCHANGED <<todo, touched>>
  /\ UNCHANGED <<env, commit, live, pairs, names, bad, deployed, checked, left>>

(* kubectl apply takes one object after the other and goes on when one      *)
(* fails; the content of an object that is being deleted changes all the    *)
(* same.  A dry run changes nothing.                                        *)
ApplyTo_Bare(s) == IF s.is THEN [s EXCEPT !.content = path] ELSE [is |-> TRUE, content |-> path, label |-> TRUE]
ApplyTo(s) ==
  IF s.is THEN [s EXCEPT !.content = path, !.label = TRUE,
                         !.observed = s.observed /\ s.content = path]
  ELSE [Absent EXCEPT !.is = TRUE, !.content = path, !.label = TRUE]
ApplyOne_DryToo(o) ==
  /\ pc = "apply" /\ o \in todo
  /\ live' = [live EXCEPT ![o] = ApplyTo(@)]
  /\ todo' = todo \ {o}
  /\ UNCHANGED <<env, commit, pc, path, pairs, names, bad, deployed, checked, touched, left>>

ApplyOne(o) ==
  /\ pc = "apply" /\ o \in todo
  /\ live' = IF dryRun THEN live ELSE [live EXCEPT ![o] = ApplyTo(@)]
  /\ todo' = todo \ {o}
  /\ UNCHANGED <<env, commit, pc, path, pairs, names, bad, deployed, checked, touched, left>>

ApplyFails(o) ==
  /\ pc = "apply" /\ o \in todo /\ left > 0
  /\ left' = left - 1
  /\ bad' = TRUE /\ todo' = todo \ {o}
  /\ UNCHANGED <<env, commit, live, pc, path, pairs, names, deployed, checked, touched>>

Applied ==
  /\ pc = "apply" /\ todo = {}
  /\ IF bad \/ ~AllThere THEN Fail
     ELSE pc' = "prune" /\ pairs' = Pairs /\ UNCHANGED <<path, todo, names, bad, deployed, checked>>
  /\ UNCHANGED <<env, commit, live, touched, left>>

(* prune, for each kind and namespace that Git has: what has the labels,    *)
(* is not in Git and not to be skipped.                                     *)
Outside(pair) ==
  {o \in Objects : Pair(o) = pair /\ live[o].is /\ live[o].label /\ o \notin Git /\ ~Skipped(o)}
PrunePair_OnlyOne(pair) ==
  /\ pc = "prune" /\ names = {} /\ pair \in pairs
  /\ pairs' = {}
  /\ names' = IF PairSkipped(pair) THEN {} ELSE Outside(pair)
  /\ UNCHANGED <<env, commit, live, pc, path, todo, bad, deployed, checked, touched, left>>

PrunePair(pair) ==
  /\ pc = "prune" /\ names = {} /\ pair \in pairs
  /\ pairs' = pairs \ {pair}
  /\ names' = IF PairSkipped(pair) THEN {} ELSE Outside(pair)
  /\ UNCHANGED <<env, commit, live, pc, path, todo, bad, deployed, checked, touched, left>>

(* kubectl delete waits until the object is gone; that of an object that is *)
(* gone already fails, and the rest of the pair is left to the next call.   *)
DeleteOne(o) ==
  /\ pc = "prune" /\ o \in names
  /\ IF dryRun THEN names' = names \ {o} /\ UNCHANGED <<live, pc, todo, bad>>
     ELSE IF live[o].is
     THEN /\ live' = [live EXCEPT ![o].deleting = TRUE]
          /\ pc' = "wait" /\ todo' = {o} /\ names' = names \ {o} /\ UNCHANGED bad
     ELSE names' = {} /\ bad' = TRUE /\ UNCHANGED <<live, pc, todo>>
  /\ UNCHANGED <<env, commit, path, pairs, deployed, checked, touched, left>>

Waited ==
  /\ pc = "wait" /\ \A o \in todo : ~live[o].deleting
  /\ pc' = "prune" /\ todo' = {}
  /\ UNCHANGED <<env, commit, live, path, pairs, names, bad, deployed, checked, touched, left>>

(* The end of Run, and the patch that says so. *)
Ran ==
  /\ pc = "prune" /\ names = {} /\ pairs = {}
  /\ IF bad \/ dryRun THEN Fail
     ELSE pc' = "list" /\ deployed' = path /\ UNCHANGED <<path, todo, pairs, names, bad, checked>>
  /\ UNCHANGED <<env, commit, live, touched, left>>

(* Test: an object that is being deleted is an error, the others are read   *)
(* and checked one by one.                                                  *)
List ==
  /\ pc = "list"
  /\ IF ~AllThere THEN Fail
     ELSE /\ pc' = "test" /\ todo' = {o \in Git : ~live[o].deleting}
          /\ bad' = (\E o \in Git : live[o].deleting)
          /\ UNCHANGED <<path, pairs, names, deployed, checked>>
  /\ UNCHANGED <<env, commit, live, touched, left>>

(* The checks that are registered, and what each asks of the status: that   *)
(* it is of this generation, and of the replicas, or the phase of a Release *)
(* (ready, and a disabled one is).  Only that of a Deployment asks for      *)
(* replicas of the new template.                                            *)
HasCheck(kind) == kind \in {"Deployment", "StatefulSet", "Release"}
DeploymentPasses(s) == s.observed /\ s.updated /\ s.ready
StatefulSetPasses(s) == s.observed /\ s.ready
ReleasePasses(s) == s.observed /\ s.ready

Passes_OldStatus(o) == live[o].is /\ live[o].updated /\ live[o].ready
Passes(o) ==
  /\ live[o].is
  /\ \/ o.kind = "Deployment" /\ DeploymentPasses(live[o])
     \/ o.kind = "StatefulSet" /\ StatefulSetPasses(live[o])
     \/ o.kind = "Release" /\ ReleasePasses(live[o])
CheckOne(o) ==
  /\ pc = "test" /\ o \in todo
  /\ todo' = todo \ {o}
  /\ bad' = (bad \/ (HasCheck(o.kind) /\ ~Passes(o)))
  /\ UNCHANGED <<env, commit, live, pc, path, pairs, names, deployed, checked, touched, left>>

Tested ==
  /\ pc = "test" /\ todo = {}
  /\ IF bad THEN Fail
     ELSE pc' = "idle" /\ checked' = path /\ UNCHANGED <<path, todo, pairs, names, bad, deployed>>
  /\ UNCHANGED <<env, commit, live, touched, left>>

(* The deadline of the call: the command at work is killed. *)
TimeOut ==
  /\ pc # "idle" /\ left > 0 /\ left' = left - 1
  /\ Fail
  /\ UNCHANGED <<env, commit, live, touched>>

-----------------------------------------------------------------------------
(* Git, controllers and users. *)

Push ==
  /\ commit < Len(history) /\ commit' = commit + 1
  /\ UNCHANGED <<env, live, call, deployed, checked, touched, left>>

(* A controller sees the new generation, and later its pods are updated and *)
(* ready; until then it may have been so of some of them.                   *)
Observe(o) ==
  /\ HasCheck(o.kind) /\ live[o].is /\ ~live[o].observed
  /\ \E updated, ready \in BOOLEAN :
       live' = [live EXCEPT ![o].observed = TRUE, ![o].updated = updated, ![o].ready = ready]
  /\ UNCHANGED <<env, commit, call, deployed, checked, touched, left>>
Settle(o) ==
  /\ live[o].is /\ live[o].observed /\ ~(live[o].updated /\ live[o].ready)
  /\ live' = [live EXCEPT ![o].updated = TRUE, ![o].ready = TRUE]
  /\ UNCHANGED <<env, commit, call, deployed, checked, touched, left>>

(* The finalizers of a deleted object are done. *)
Gone(o) ==
  /\ live[o].is /\ live[o].deleting
  /\ live' = [live EXCEPT ![o] = Absent]
  /\ UNCHANGED <<env, commit, call, deployed, checked, touched, left>>

User(o, s) ==
  /\ left > 0 /\ left' = left - 1
  /\ live' = [live EXCEPT ![o] = s]
  /\ touched' = TRUE
  /\ UNCHANGED <<env, commit, call, deployed, checked>>
UserDeletes(o) == live[o].is /\ ~live[o].deleting /\ User(o, [live[o] EXCEPT !.deleting = TRUE])
UserEdits(o) == live[o].is /\ User(o, [live[o] EXCEPT !.content = 0, !.observed = FALSE])
UserMakes(o) == ~live[o].is /\ User(o, [Absent EXCEPT !.is = TRUE, !.label = TRUE])

-----------------------------------------------------------------------------
Plugin ==
  \/ Start \/ Applied \/ Waited \/ Ran \/ List \/ Tested
  \/ \E o \in Objects : ApplyOne(o) \/ DeleteOne(o) \/ CheckOne(o)
  \/ \E o \in Objects : PrunePair(Pair(o))
Cluster == \E o \in Objects : Observe(o) \/ Settle(o) \/ Gone(o)
Next ==
  \/ Plugin \/ Cluster \/ Push \/ TimeOut
  \/ \E o \in Objects : ApplyFails(o) \/ UserDeletes(o) \/ UserEdits(o) \/ UserMakes(o)

Spec == Init /\ [][Next]_vars

(* The key of a call that failed comes back, commands end, and controllers  *)
(* do their work; users and Git need not do anything.                       *)
FairSpec ==
  /\ Spec /\ WF_vars(Plugin)
  /\ \A o \in Objects : WF_vars(Observe(o)) /\ WF_vars(Settle(o)) /\ WF_vars(Gone(o))

-----------------------------------------------------------------------------
TypeOK ==
  /\ history \in Histories /\ reconcile \in BOOLEAN /\ dryRun \in BOOLEAN
  /\ commit \in 0 .. Len(history) /\ path \in 0 .. commit
  /\ deployed \in 0 .. commit /\ checked \in 0 .. commit
  /\ live \in [Objects -> States]
  /\ pc \in {"idle", "apply", "prune", "wait", "list", "test"}
  /\ todo \subseteq Objects /\ pairs \subseteq {Pair(o) : o \in Objects} /\ names \subseteq Objects
  /\ bad \in BOOLEAN /\ touched \in BOOLEAN /\ left \in 0 .. Budget

(* When Run ends well, all of the commit is applied, save what an earlier   *)
(* deletion takes away, and nothing else that has its labels in a kind and  *)
(* namespace of Git is there, unless it is to be skipped; if no user        *)
(* changed anything since the call began.                                   *)
RunsAll ==
  [][pc = "prune" /\ pc' = "list" =>
       touched \/ /\ \A o \in Git : live[o].content = path \/ ~live[o].is \/ live[o].deleting
                  /\ \A o \in Objects \ Git : Pair(o) \in Pairs /\ live[o].is /\ live[o].label => Skipped(o)]_vars

(* What is patched as checked is there, is not about to go, and is ready    *)
(* with the content of the commit, not with the content of the commit       *)
(* before it, however the test is interleaved with controllers and with the *)
(* deletions of an earlier run.                                             *)
TestedReady ==
  [][checked' # checked =>
       touched \/ \A o \in Git : /\ live[o].is /\ ~live[o].deleting /\ live[o].content = path
                                 /\ HasCheck(o.kind) => live[o].observed /\ live[o].ready
                                 /\ o.kind = "Deployment" => live[o].updated]_vars

(* A dry run leaves the cluster as it is and reports nothing of a commit,   *)
(* on whatever path of apply, prune and test a call takes.                  *)
DryRunIsDry == [][dryRun => (Plugin => UNCHANGED live) /\ UNCHANGED <<deployed, checked>>]_vars

(* With spec.reconcile, every commit is checked in the end: what a deletion *)
(* takes away after it was applied is applied again.                        *)
EventuallyChecked == reconcile /\ ~dryRun => <>[](commit # 0 => checked = commit)
=============================================================================
