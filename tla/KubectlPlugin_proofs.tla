------------------------- MODULE KubectlPlugin_proofs -------------------------
(***************************************************************************)
(* Proofs about KubectlPlugin, for any objects, histories of Git, skip     *)
(* list and number of failures: the types, and that what is patched as     *)
(* deployed is applied and pruned, what is patched as checked is ready     *)
(* with the content of its commit, and a dry run changes nothing.          *)
(***************************************************************************)
EXTENDS KubectlPlugin, TLAPS

(* What is there of Git has the content of the commit.                     *)
InPlace(os) == \A o \in os : live[o].is => live[o].content = path

(* What prune still has to do something about.                             *)
Leftover(o) == /\ o \notin Git /\ Pair(o) \in Pairs
               /\ live[o].is /\ live[o].label /\ ~Skipped(o)

(* The commits, and what a dry run never comes to.                         *)
PathInv ==
  /\ deployed <= path
  /\ pc # "idle" => path # 0
  /\ dryRun => deployed = 0 /\ pc \notin {"list", "test", "wait"}
  /\ ~reconcile /\ pc \in {"apply", "prune", "wait"} => deployed # path

(* As long as no user changes anything, what was applied stays applied, in *)
(* a run, in a test, and between a run and the test after it.              *)
AppliedInv ==
  ~touched /\ ~dryRun =>
    /\ pc = "apply" /\ ~bad => InPlace(Git \ todo)
    /\ pc \in {"prune", "wait", "list", "test"} => InPlace(Git)
    /\ pc = "idle" /\ ~reconcile /\ path # 0 /\ deployed = path => InPlace(Git)

(* What prune has not deleted is in the pairs to come or in this one.      *)
PruneInv ==
  ~touched /\ ~dryRun =>
    /\ pc \in {"prune", "wait"} /\ ~bad =>
         \A o \in Objects : Leftover(o) => \/ Pair(o) \in pairs \/ o \in names
                                           \/ pc = "wait" /\ o \in todo
    /\ pc = "wait" => \A o \in todo : ~live[o].is \/ live[o].deleting

(* What the check of an object comes to.                                   *)
Ready(o) ==
  /\ HasCheck(o.kind) => live[o].observed /\ live[o].ready
  /\ o.kind = "Deployment" => live[o].updated

(* What a test has passed stays as it is until its end.                    *)
TestInv ==
  ~touched /\ pc = "test" /\ ~bad =>
    \A o \in Git : /\ live[o].is /\ ~live[o].deleting
                   /\ o \notin todo => Ready(o)

PluginInv == TypeOK /\ PathInv /\ AppliedInv /\ PruneInv /\ TestInv

-----------------------------------------------------------------------------
(* Types. *)

LEMMA HistoryType ==
  ASSUME TypeOK
  PROVE  /\ Len(history) \in Nat /\ commit \in Nat /\ path \in Nat
         /\ deployed \in Nat /\ checked \in Nat /\ left \in Nat /\ Budget \in Nat
         /\ commit # 0 => Rendered(commit) \subseteq Objects
         /\ path # 0 => Git \subseteq Objects
<1>1. history \in Seq(SUBSET Objects) /\ Budget \in Nat
  BY PluginAssumption DEF TypeOK, PluginAssumption
<1>2. Len(history) \in Nat /\ commit \in 0 .. Len(history) /\ path \in 0 .. commit
      /\ deployed \in 0 .. commit /\ checked \in 0 .. commit /\ left \in 0 .. Budget
  BY <1>1 DEF TypeOK
<1>3. \A c \in 1 .. Len(history) : history[c] \in SUBSET Objects
  BY <1>1
<1> QED BY <1>1, <1>2, <1>3 DEF Git, Rendered

LEMMA ApplyToType ==
  ASSUME NEW s \in States, path \in Nat
  PROVE  ApplyTo(s) \in States /\ ApplyTo(s).content = path /\ ApplyTo(s).is
BY DEF ApplyTo, States, Absent

LEMMA AbsentType == Absent \in States
BY DEF Absent, States

(* An error leaves what the call knew of its commit, and nothing else.     *)
LEMMA FailType ==
  ASSUME TypeOK, Fail, UNCHANGED <<env, commit, live, touched>>, left' \in 0 .. Budget
  PROVE  TypeOK'
BY DEF TypeOK, Fail, env

LEMMA InitType == Init => TypeOK
<1> SUFFICES ASSUME Init PROVE TypeOK
  OBVIOUS
<1>1. history \in Seq(SUBSET Objects) /\ Budget \in Nat
  BY PluginAssumption DEF Init, PluginAssumption
<1>2. Len(history) \in Nat
  BY <1>1
<1>3. /\ commit \in 0 .. Len(history) /\ path \in 0 .. commit
      /\ deployed \in 0 .. commit /\ checked \in 0 .. commit /\ left \in 0 .. Budget
  BY <1>1, <1>2 DEF Init
<1>4. live \in [Objects -> States]
  BY AbsentType DEF Init
<1> QED BY <1>3, <1>4 DEF Init, TypeOK

LEMMA PluginType ==
  ASSUME TypeOK, PathInv, Plugin
  PROVE  TypeOK'
<1> USE HistoryType
<1>1. CASE Start
  <2>1. /\ path' \in 0 .. commit' /\ todo' \subseteq Objects
        /\ pc' \in {"idle", "apply", "prune", "wait", "list", "test"} /\ touched' \in BOOLEAN
    <3>1. path' = commit /\ commit' = commit /\ commit # 0
      BY <1>1 DEF Start
    <3>2. \/ pc' = "apply" /\ todo' = Rendered(commit) /\ touched' = FALSE
          \/ pc' = "list" /\ todo' = todo /\ touched' = touched
      BY <1>1 DEF Start
    <3>3. touched \in BOOLEAN /\ todo \subseteq Objects
      BY DEF TypeOK
    <3>4. path' \in 0 .. commit'
      BY <3>1
    <3>5. CASE pc' = "apply" /\ todo' = Rendered(commit) /\ touched' = FALSE
      BY <3>1, <3>4, <3>5
    <3>6. CASE pc' = "list" /\ todo' = todo /\ touched' = touched
      BY <3>3, <3>4, <3>6
    <3> QED BY <3>2, <3>5, <3>6
  <2>2. UNCHANGED <<env, commit, live, pairs, names, bad, deployed, checked, left>>
    BY <1>1 DEF Start
  <2> QED BY <2>1, <2>2 DEF TypeOK, env
<1>2. CASE Applied
  <2>1. CASE Fail
    BY <1>2, <2>1, FailType DEF Applied, TypeOK
  <2>2. CASE ~Fail
    <3>1. pc' = "prune" /\ pairs' = Pairs /\ UNCHANGED <<path, todo, names, bad, deployed, checked>>
          /\ UNCHANGED <<env, commit, live, touched, left>> /\ pc = "apply"
      BY <1>2, <2>2 DEF Applied
    <3>2. Pairs \subseteq {Pair(o) : o \in Objects}
      BY <3>1 DEF Pairs, PathInv
    <3> QED BY <3>1, <3>2 DEF TypeOK, env
  <2> QED BY <2>1, <2>2
<1>3. CASE Waited
  BY <1>3 DEF Waited, TypeOK, env
<1>4. CASE Ran
  <2>1. CASE Fail
    BY <1>4, <2>1, FailType DEF Ran, TypeOK
  <2>2. CASE ~Fail
    BY <1>4, <2>2 DEF Ran, TypeOK, env
  <2> QED BY <2>1, <2>2
<1>5. CASE List
  <2>1. CASE Fail
    BY <1>5, <2>1, FailType DEF List, TypeOK
  <2>2. CASE ~Fail
    <3>1. pc = "list" /\ pc' = "test" /\ todo' = {o \in Git : ~live[o].deleting}
          /\ bad' \in BOOLEAN /\ UNCHANGED <<path, pairs, names, deployed, checked>>
          /\ UNCHANGED <<env, commit, live, touched, left>>
      BY <1>5, <2>2 DEF List
    <3>2. todo' \subseteq Objects
      BY <3>1 DEF PathInv
    <3> QED BY <3>1, <3>2 DEF TypeOK, env
  <2> QED BY <2>1, <2>2
<1>6. CASE Tested
  <2>1. CASE Fail
    BY <1>6, <2>1, FailType DEF Tested, TypeOK
  <2>2. CASE ~Fail
    BY <1>6, <2>2 DEF Tested, TypeOK, env
  <2> QED BY <2>1, <2>2
<1>7. ASSUME NEW o \in Objects, ApplyOne(o) PROVE TypeOK'
  <2>1. live[o] \in States /\ ApplyTo(live[o]) \in States
    BY ApplyToType DEF TypeOK
  <2>2. live' \in [Objects -> States]
    BY <1>7, <2>1 DEF ApplyOne, TypeOK
  <2> QED BY <1>7, <2>2 DEF ApplyOne, TypeOK, env
<1>8. ASSUME NEW o \in Objects, DeleteOne(o) PROVE TypeOK'
  <2>1. live' \in [Objects -> States]
    <3>1. [live[o] EXCEPT !.deleting = TRUE] \in States
      BY DEF TypeOK, States
    <3>2. live' = live \/ live' = [live EXCEPT ![o] = [live[o] EXCEPT !.deleting = TRUE]]
      BY <1>8 DEF DeleteOne, TypeOK
    <3> QED BY <3>1, <3>2 DEF TypeOK
  <2> QED BY <1>8, <2>1 DEF DeleteOne, TypeOK, env
<1>9. ASSUME NEW o \in Objects, CheckOne(o) PROVE TypeOK'
  BY <1>9 DEF CheckOne, TypeOK, env
<1>10. ASSUME NEW o \in Objects, PrunePair(Pair(o)) PROVE TypeOK'
  BY <1>10 DEF PrunePair, Outside, TypeOK, env
<1> QED BY <1>1, <1>2, <1>3, <1>4, <1>5, <1>6, <1>7, <1>8, <1>9, <1>10 DEF Plugin

(* What controllers may do to an object: no more than observe it, report   *)
(* it ready, or take it away when it is being deleted.                     *)
Settles(o) ==
  /\ live'[o] \in States
  /\ live'[o].is => /\ live[o].is /\ live'[o].content = live[o].content
                    /\ live'[o].label = live[o].label /\ live'[o].deleting = live[o].deleting
                    /\ live[o].observed => /\ live'[o].observed
                                           /\ live[o].ready => live'[o].ready
                                           /\ live[o].updated => live'[o].updated
  /\ live[o].is /\ ~live[o].deleting => live'[o].is

LEMMA ClusterSettles ==
  ASSUME TypeOK, Cluster
  PROVE  /\ UNCHANGED <<env, commit, call, deployed, checked, touched, left>>
         /\ live' \in [Objects -> States]
         /\ \A o \in Objects : Settles(o)
<1>1. PICK o \in Objects : Observe(o) \/ Settle(o) \/ Gone(o)
  BY DEF Cluster
<1>2. UNCHANGED <<env, commit, call, deployed, checked, touched, left>>
  BY <1>1 DEF Observe, Settle, Gone
<1>3. live[o] \in States /\ live \in [Objects -> States]
  BY DEF TypeOK
<1>4. PICK s \in States : live' = [live EXCEPT ![o] = s] /\ Settles(o)
  <2>1. CASE Observe(o)
    <3>1. PICK updated, ready \in BOOLEAN :
            live' = [live EXCEPT ![o].observed = TRUE, ![o].updated = updated, ![o].ready = ready]
      BY <2>1 DEF Observe
    <3>2. [live[o] EXCEPT !.observed = TRUE, !.updated = updated, !.ready = ready] \in States
      BY <1>3 DEF States
    <3>3. live' = [live EXCEPT ![o] =
                     [live[o] EXCEPT !.observed = TRUE, !.updated = updated, !.ready = ready]]
      BY <1>3, <3>1
    <3>4. Settles(o)
      BY <1>3, <2>1, <3>2, <3>3 DEF Settles, States, Observe
    <3> QED BY <3>2, <3>3, <3>4
  <2>2. CASE Settle(o)
    <3>1. [live[o] EXCEPT !.updated = TRUE, !.ready = TRUE] \in States
      BY <1>3 DEF States
    <3>2. live' = [live EXCEPT ![o] = [live[o] EXCEPT !.updated = TRUE, !.ready = TRUE]]
      BY <1>3, <2>2 DEF Settle
    <3>3. Settles(o)
      BY <1>3, <2>2, <3>1, <3>2 DEF Settles, States, Settle
    <3> QED BY <3>1, <3>2, <3>3
  <2>3. CASE Gone(o)
    <3>1. live' = [live EXCEPT ![o] = Absent]
      BY <2>3 DEF Gone
    <3>2. Settles(o)
      BY <1>3, <2>3, <3>1, AbsentType DEF Settles, Gone, Absent
    <3> QED BY <3>1, <3>2, AbsentType
  <2> QED BY <1>1, <2>1, <2>2, <2>3
<1>5. ASSUME NEW p \in Objects, p # o PROVE Settles(p)
  <2>1. live'[p] = live[p] /\ live[p] \in States
    BY <1>3, <1>4, <1>5
  <2> QED BY <2>1 DEF Settles
<1> QED BY <1>2, <1>3, <1>4, <1>5

LEMMA UserTouches ==
  ASSUME TypeOK, NEW o \in Objects, UserDeletes(o) \/ UserEdits(o) \/ UserMakes(o)
  PROVE  touched' /\ TypeOK' /\ UNCHANGED <<env, commit, call, deployed, checked>>
<1>1. PICK s \in States : User(o, s)
  <2>1. live[o] \in States
    BY DEF TypeOK
  <2>2. /\ [live[o] EXCEPT !.deleting = TRUE] \in States
        /\ [live[o] EXCEPT !.content = 0, !.observed = FALSE] \in States
        /\ [Absent EXCEPT !.is = TRUE, !.label = TRUE] \in States
    BY <2>1 DEF States, Absent
  <2> QED BY <2>2 DEF UserDeletes, UserEdits, UserMakes
<1>2. left' \in 0 .. Budget
  BY <1>1, HistoryType DEF User, TypeOK
<1> QED BY <1>1, <1>2 DEF User, TypeOK, env, call

LEMMA Types ==
  ASSUME TypeOK, PathInv, [Next]_vars
  PROVE  TypeOK'
<1>1. CASE Plugin
  BY <1>1, PluginType
<1>2. CASE Cluster
  BY <1>2, ClusterSettles DEF TypeOK, env, call
<1>3. CASE Push
  BY <1>3, HistoryType DEF Push, TypeOK, env, call
<1>4. CASE TimeOut
  <2>1. left' \in 0 .. Budget
    BY <1>4, HistoryType DEF TimeOut, TypeOK
  <2> QED BY <1>4, <2>1, FailType DEF TimeOut
<1>5. CASE \E o \in Objects : ApplyFails(o)
  <2>1. left' \in 0 .. Budget
    BY <1>5, HistoryType DEF ApplyFails, TypeOK
  <2> QED BY <1>5, <2>1 DEF ApplyFails, TypeOK, env
<1>6. CASE \E o \in Objects : UserDeletes(o) \/ UserEdits(o) \/ UserMakes(o)
  BY <1>6, UserTouches
<1>7. CASE UNCHANGED vars
  BY <1>7 DEF vars, TypeOK, env, call
<1> QED BY <1>1, <1>2, <1>3, <1>4, <1>5, <1>6, <1>7 DEF Next

-----------------------------------------------------------------------------
(* The invariant. *)

KeepsInv == PathInv' /\ AppliedInv' /\ PruneInv' /\ TestInv'

LEMMA FailKeeps ==
  ASSUME PluginInv, pc # "idle", Fail, UNCHANGED <<env, commit, live, touched>>
  PROVE  KeepsInv
<1>1. /\ pc' = "idle" /\ path' = path /\ deployed' = deployed /\ Git' = Git /\ live' = live
      /\ touched' = touched /\ reconcile' = reconcile /\ dryRun' = dryRun
  BY DEF Fail, env, Git, Rendered
<1>2. PathInv'
  BY <1>1 DEF PluginInv, PathInv
<1>3. AppliedInv'
  <2>1. ~touched /\ ~dryRun /\ ~reconcile /\ path # 0 /\ deployed = path => InPlace(Git)
    BY DEF PluginInv, TypeOK, PathInv, AppliedInv
  <2> QED BY <1>1, <2>1 DEF AppliedInv, InPlace
<1> QED BY <1>1, <1>2, <1>3 DEF KeepsInv, PruneInv, TestInv

LEMMA StartKeeps ==
  ASSUME PluginInv, Start
  PROVE  KeepsInv
<1> USE DEF PluginInv
<1>1. /\ pc = "idle" /\ path' = commit /\ commit # 0 /\ Git' = Rendered(commit) /\ live' = live
      /\ UNCHANGED <<deployed, reconcile, dryRun, history, bad>> /\ TypeOK'
  BY PluginType DEF Start, env, Git, Rendered, Plugin
<1>2. deployed \in 0 .. commit /\ path \in 0 .. commit /\ commit \in Nat
  BY HistoryType DEF TypeOK
<1>3. CASE (deployed # commit \/ reconcile) /\ pc' = "apply" /\ todo' = Rendered(commit)
  <2>1. PathInv'
    BY <1>1, <1>2, <1>3 DEF PathInv
  <2>2. AppliedInv'
    BY <1>1, <1>3 DEF AppliedInv, InPlace
  <2> QED BY <1>3, <2>1, <2>2 DEF KeepsInv, PruneInv, TestInv
<1>4. CASE deployed = commit /\ ~(reconcile /\ Differs) /\ pc' = "list" /\ touched' = touched
  <2>1. path = commit /\ deployed = path /\ Git' = Git
    BY <1>1, <1>2, <1>4 DEF PathInv, Git, Rendered
  <2>2. PathInv'
    BY <1>1, <1>2, <1>4 DEF PathInv
  <2>3. ~touched /\ ~dryRun => InPlace(Git)
    <3>1. CASE reconcile
      BY <1>4, <2>1, <3>1 DEF Differs, InPlace, Git, Rendered
    <3>2. CASE ~reconcile
      BY <1>1, <2>1, <3>2 DEF AppliedInv
    <3> QED BY <3>1, <3>2
  <2>4. AppliedInv'
    BY <1>1, <1>4, <2>1, <2>3 DEF AppliedInv, InPlace
  <2> QED BY <1>4, <2>2, <2>4 DEF KeepsInv, PruneInv, TestInv
<1> QED BY <1>3, <1>4 DEF Start

LEMMA ApplyOneKeeps ==
  ASSUME PluginInv, NEW o \in Objects, ApplyOne(o)
  PROVE  KeepsInv
<1> USE DEF PluginInv
<1>1. /\ pc = "apply" /\ pc' = "apply" /\ o \in todo /\ todo' = todo \ {o} /\ Git' = Git
      /\ UNCHANGED <<env, path, bad, deployed, touched>>
  BY DEF ApplyOne, Git, Rendered, env
<1>2. PathInv'
  BY <1>1 DEF PathInv, env
<1>3. AppliedInv'
  <2>1. SUFFICES ASSUME ~touched, ~dryRun, ~bad PROVE InPlace(Git \ todo)'
    BY <1>1 DEF AppliedInv, env
  <2>2. live' = [live EXCEPT ![o] = ApplyTo(live[o])] /\ live \in [Objects -> States]
    BY <2>1 DEF ApplyOne, TypeOK
  <2>3. ApplyTo(live[o]).content = path
    BY <2>2, ApplyToType, HistoryType
  <2>4. Git \subseteq Objects
    BY <1>1, HistoryType DEF PathInv
  <2>5. InPlace(Git \ todo)
    BY <1>1, <2>1 DEF AppliedInv
  <2>6. ASSUME NEW p \in Git \ todo' PROVE live'[p].is => live'[p].content = path
    BY <1>1, <2>2, <2>3, <2>4, <2>5, <2>6 DEF InPlace
  <2> QED BY <1>1, <2>6 DEF InPlace
<1> QED BY <1>1, <1>2, <1>3 DEF KeepsInv, PruneInv, TestInv

LEMMA AppliedKeeps ==
  ASSUME PluginInv, Applied
  PROVE  KeepsInv
<1> USE DEF PluginInv
<1>1. pc = "apply" /\ todo = {} /\ UNCHANGED <<env, commit, live, touched, left>>
  BY DEF Applied
<1>2. CASE Fail
  BY <1>1, <1>2, FailKeeps
<1>3. CASE ~Fail
  <2>1. /\ pc' = "prune" /\ pairs' = Pairs /\ ~bad /\ Git' = Git /\ live' = live
        /\ UNCHANGED <<env, path, todo, names, bad, deployed, touched>>
    BY <1>1, <1>3 DEF Applied, Git, Rendered, env
  <2>2. PathInv'
    BY <1>1, <2>1 DEF PathInv, env
  <2>3. AppliedInv'
    BY <1>1, <2>1 DEF AppliedInv, InPlace, env
  <2>4. PruneInv'
    BY <2>1 DEF PruneInv, Leftover, Pairs
  <2> QED BY <2>1, <2>2, <2>3, <2>4 DEF KeepsInv, TestInv
<1> QED BY <1>2, <1>3

LEMMA PrunePairKeeps ==
  ASSUME PluginInv, NEW o \in Objects, PrunePair(Pair(o))
  PROVE  KeepsInv
<1> USE DEF PluginInv
<1>1. /\ pc = "prune" /\ pc' = "prune" /\ names = {} /\ pairs' = pairs \ {Pair(o)}
      /\ Git' = Git /\ live' = live
      /\ UNCHANGED <<env, path, todo, bad, deployed, touched>>
  BY DEF PrunePair, Git, Rendered, env
<1>2. PathInv'
  BY <1>1 DEF PathInv, env
<1>3. AppliedInv'
  BY <1>1 DEF AppliedInv, InPlace, env
<1>4. PruneInv'
  <2>1. SUFFICES ASSUME ~touched, ~dryRun, ~bad, NEW p \in Objects, Leftover(p)
                 PROVE  Pair(p) \in pairs' \/ p \in names'
    BY <1>1 DEF PruneInv, Leftover, Pairs, env
  <2>2. Pair(p) \in pairs
    BY <1>1, <2>1 DEF PruneInv
  <2>3. CASE Pair(p) = Pair(o)
    BY <2>1, <2>3 DEF PrunePair, Outside, Leftover, Skipped
  <2> QED BY <1>1, <2>2, <2>3
<1> QED BY <1>1, <1>2, <1>3, <1>4 DEF KeepsInv, TestInv

(* A deletion takes nothing of Git, and does not change a content.         *)
LEMMA DeleteOneKeeps ==
  ASSUME PluginInv, NEW o \in Objects, DeleteOne(o)
  PROVE  KeepsInv
<1> USE DEF PluginInv
<1>1. /\ pc = "prune" /\ o \in names /\ Git' = Git
      /\ UNCHANGED <<env, path, pairs, deployed, touched>>
  BY DEF DeleteOne, Git, Rendered, env
<1>2. CASE ~dryRun /\ live[o].is
  <2>1. /\ pc' = "wait" /\ todo' = {o} /\ names' = names \ {o} /\ bad' = bad
        /\ live' = [live EXCEPT ![o].deleting = TRUE] /\ live \in [Objects -> States]
    BY <1>2 DEF DeleteOne, TypeOK
  <2>2. \A p \in Objects : /\ live'[p].is = live[p].is /\ live'[p].content = live[p].content
                            /\ live'[p].label = live[p].label
    BY <2>1 DEF States
  <2>3. live'[o].deleting
    BY <2>1 DEF States
  <2>4. PathInv'
    BY <1>1, <1>2, <2>1 DEF PathInv, env
  <2>5. AppliedInv'
    <3>1. Git \subseteq Objects
      BY <1>1, HistoryType DEF PathInv
    <3> QED BY <1>1, <2>1, <2>2, <3>1 DEF AppliedInv, InPlace, env
  <2>6. PruneInv'
    <3>1. \A p \in Objects : Leftover(p)' => Leftover(p)
      BY <1>1, <2>2 DEF Leftover, Pairs, Git, Rendered
    <3>2. ~touched /\ ~dryRun /\ ~bad =>
            \A p \in Objects : Leftover(p) => Pair(p) \in pairs \/ p \in names
      BY <1>1 DEF PruneInv
    <3> QED BY <1>1, <2>1, <2>3, <3>1, <3>2 DEF PruneInv, env
  <2> QED BY <2>1, <2>4, <2>5, <2>6 DEF KeepsInv, TestInv
<1>3. CASE dryRun \/ ~live[o].is
  <2>1. /\ pc' = "prune" /\ live' = live /\ todo' = todo /\ (dryRun \/ bad')
    BY <1>1, <1>3 DEF DeleteOne
  <2>2. PathInv'
    BY <1>1, <2>1 DEF PathInv, env
  <2>3. AppliedInv'
    BY <1>1, <2>1 DEF AppliedInv, InPlace, env
  <2> QED BY <1>1, <2>1, <2>2, <2>3 DEF KeepsInv, PruneInv, TestInv, env
<1> QED BY <1>2, <1>3

LEMMA WaitedKeeps ==
  ASSUME PluginInv, Waited
  PROVE  KeepsInv
<1> USE DEF PluginInv
<1>1. /\ pc = "wait" /\ pc' = "prune" /\ todo' = {} /\ Git' = Git /\ live' = live
      /\ \A o \in todo : ~live[o].deleting
      /\ UNCHANGED <<env, path, pairs, names, bad, deployed, touched>>
  BY DEF Waited, Git, Rendered, env
<1>2. PathInv' /\ AppliedInv'
  BY <1>1 DEF PathInv, AppliedInv, InPlace, env
<1>3. PruneInv'
  <2>1. SUFFICES ASSUME ~touched, ~dryRun, ~bad, NEW p \in Objects, Leftover(p)
                 PROVE  Pair(p) \in pairs \/ p \in names
    BY <1>1 DEF PruneInv, Leftover, Pairs, env
  <2>2. p \notin todo
    BY <1>1, <2>1 DEF PruneInv, Leftover
  <2> QED BY <1>1, <2>1, <2>2 DEF PruneInv
<1> QED BY <1>1, <1>2, <1>3 DEF KeepsInv, TestInv

LEMMA RanKeeps ==
  ASSUME PluginInv, Ran
  PROVE  KeepsInv
<1> USE DEF PluginInv
<1>1. pc = "prune" /\ UNCHANGED <<env, commit, live, touched, left>>
  BY DEF Ran
<1>2. CASE Fail
  BY <1>1, <1>2, FailKeeps
<1>3. CASE ~Fail
  <2>1. /\ pc' = "list" /\ deployed' = path /\ ~dryRun /\ Git' = Git /\ live' = live
        /\ UNCHANGED <<env, path, touched>>
    BY <1>1, <1>3 DEF Ran, Git, Rendered, env
  <2>2. PathInv'
    BY <1>1, <2>1, HistoryType DEF PathInv, env
  <2>3. AppliedInv'
    BY <1>1, <2>1 DEF AppliedInv, InPlace, env
  <2> QED BY <2>1, <2>2, <2>3 DEF KeepsInv, PruneInv, TestInv
<1> QED BY <1>2, <1>3

LEMMA ListKeeps ==
  ASSUME PluginInv, List
  PROVE  KeepsInv
<1> USE DEF PluginInv
<1>1. pc = "list" /\ UNCHANGED <<env, commit, live, touched, left>>
  BY DEF List
<1>2. CASE Fail
  BY <1>1, <1>2, FailKeeps
<1>3. CASE ~Fail
  <2>1. /\ pc' = "test" /\ AllThere /\ Git' = Git /\ live' = live
        /\ todo' = {o \in Git : ~live[o].deleting} /\ bad' = (\E o \in Git : live[o].deleting)
        /\ UNCHANGED <<env, path, deployed, touched>>
    BY <1>1, <1>3 DEF List, Git, Rendered, env
  <2>2. PathInv' /\ AppliedInv'
    BY <1>1, <2>1 DEF PathInv, AppliedInv, InPlace, env
  <2>3. TestInv'
    BY <2>1 DEF TestInv, AllThere
  <2> QED BY <2>1, <2>2, <2>3 DEF KeepsInv, PruneInv
<1> QED BY <1>2, <1>3

LEMMA CheckOneKeeps ==
  ASSUME PluginInv, NEW o \in Objects, CheckOne(o)
  PROVE  KeepsInv
<1> USE DEF PluginInv
<1>1. /\ pc = "test" /\ pc' = "test" /\ Git' = Git /\ live' = live /\ todo' = todo \ {o}
      /\ bad' = (bad \/ (HasCheck(o.kind) /\ ~Passes(o)))
      /\ UNCHANGED <<env, path, deployed, touched>>
  BY DEF CheckOne, Git, Rendered, env
<1>2. PathInv' /\ AppliedInv'
  BY <1>1 DEF PathInv, AppliedInv, InPlace, env
<1>3. TestInv'
  <2>1. Passes(o) => Ready(o)
    BY DEF Passes, DeploymentPasses, StatefulSetPasses, ReleasePasses, Ready
  <2>2. ~HasCheck(o.kind) => Ready(o)
    BY DEF HasCheck, Ready
  <2> QED BY <1>1, <2>1, <2>2 DEF TestInv, Ready
<1> QED BY <1>1, <1>2, <1>3 DEF KeepsInv, PruneInv

LEMMA TestedKeeps ==
  ASSUME PluginInv, Tested
  PROVE  KeepsInv
<1> USE DEF PluginInv
<1>1. pc = "test" /\ UNCHANGED <<env, commit, live, touched, left>>
  BY DEF Tested
<1>2. CASE Fail
  BY <1>1, <1>2, FailKeeps
<1>3. CASE ~Fail
  <2>1. /\ pc' = "idle" /\ Git' = Git /\ live' = live /\ UNCHANGED <<env, path, deployed, touched>>
    BY <1>1, <1>3 DEF Tested, Git, Rendered, env
  <2>2. PathInv' /\ AppliedInv'
    BY <1>1, <2>1 DEF PathInv, AppliedInv, InPlace, env
  <2> QED BY <2>1, <2>2 DEF KeepsInv, PruneInv, TestInv
<1> QED BY <1>2, <1>3

LEMMA PluginKeeps ==
  ASSUME PluginInv, Plugin
  PROVE  KeepsInv
BY StartKeeps, ApplyOneKeeps, AppliedKeeps, PrunePairKeeps, DeleteOneKeeps, WaitedKeeps,
   RanKeeps, ListKeeps, CheckOneKeeps, TestedKeeps DEF Plugin

(* Controllers take away only what is being deleted.                       *)
LEMMA ClusterKeeps ==
  ASSUME PluginInv, Cluster
  PROVE  KeepsInv
<1> USE DEF PluginInv
<1>1. /\ UNCHANGED <<env, commit, call, deployed, touched>> /\ Git' = Git
      /\ \A o \in Objects : Settles(o)
  BY ClusterSettles DEF env, call, Git, Rendered
<1>2. path # 0 => Git \subseteq Objects
  BY HistoryType
<1>3. PathInv'
  BY <1>1 DEF PathInv, env, call
<1>4. AppliedInv'
  <2>1. path # 0 => \A os \in SUBSET Git : InPlace(os) => InPlace(os)'
    BY <1>1, <1>2 DEF InPlace, Settles, call
  <2>2. path # 0 => /\ InPlace(Git) => InPlace(Git)'
                    /\ InPlace(Git \ todo) => InPlace(Git \ todo)'
    BY <1>1, <2>1 DEF InPlace, call
  <2> QED BY <1>1, <2>2 DEF AppliedInv, PathInv, env, call
<1>5. PruneInv'
  <2>1. \A o \in Objects : Leftover(o)' => Leftover(o)
    BY <1>1 DEF Leftover, Settles, Pairs, call
  <2>2. \A o \in todo : (~live[o].is \/ live[o].deleting) => (~live'[o].is \/ live'[o].deleting)
    BY <1>1 DEF Settles, TypeOK
  <2> QED BY <1>1, <2>1, <2>2 DEF PruneInv, env, call
<1>6. TestInv'
  <2>1. SUFFICES ASSUME ~touched, pc = "test", ~bad, NEW o \in Git
                 PROVE  /\ live'[o].is /\ ~live'[o].deleting
                        /\ o \notin todo => Ready(o)'
    BY <1>1 DEF TestInv, Ready, env, call
  <2>2. Settles(o) /\ live[o].is /\ ~live[o].deleting
        /\ (o \notin todo => Ready(o))
    BY <1>1, <1>2, <2>1 DEF TestInv, PathInv
  <2>3. HasCheck("Deployment")
    BY DEF HasCheck
  <2> QED BY <2>2, <2>3 DEF Settles, Ready
<1> QED BY <1>3, <1>4, <1>5, <1>6 DEF KeepsInv

LEMMA Keeps ==
  ASSUME PluginInv, [Next]_vars
  PROVE  PluginInv'
<1> USE DEF PluginInv
<1>1. TypeOK'
  BY Types
<1>2. CASE Plugin
  BY <1>1, <1>2, PluginKeeps DEF KeepsInv
<1>3. CASE Cluster
  BY <1>1, <1>3, ClusterKeeps DEF KeepsInv
<1>4. CASE Push \/ UNCHANGED vars
  <2>1. UNCHANGED <<env, live, call, deployed, touched>> /\ Git' = Git
    BY <1>4 DEF Push, vars, env, call, Git, Rendered
  <2>2. PathInv' /\ AppliedInv' /\ TestInv'
    BY <2>1 DEF PathInv, AppliedInv, TestInv, Ready, InPlace, env, call
  <2>3. PruneInv'
    BY <2>1 DEF PruneInv, Leftover, Pairs, env, call
  <2> QED BY <1>1, <2>2, <2>3
<1>5. CASE TimeOut
  BY <1>1, <1>5, FailKeeps DEF TimeOut, KeepsInv
<1>6. ASSUME NEW o \in Objects, ApplyFails(o) PROVE PluginInv'
  <2>1. /\ pc = "apply" /\ bad' /\ UNCHANGED <<env, live, pc, path, deployed, touched>> /\ Git' = Git
    BY <1>6 DEF ApplyFails, env, Git, Rendered
  <2>2. PathInv' /\ AppliedInv' /\ PruneInv' /\ TestInv'
    BY <2>1 DEF PathInv, AppliedInv, PruneInv, TestInv, env
  <2> QED BY <1>1, <2>2
<1>7. ASSUME NEW o \in Objects, UserDeletes(o) \/ UserEdits(o) \/ UserMakes(o) PROVE PluginInv'
  <2>1. touched' /\ UNCHANGED <<env, commit, call, deployed, checked>>
    BY <1>7, UserTouches
  <2>2. PathInv' /\ AppliedInv' /\ PruneInv' /\ TestInv'
    BY <2>1 DEF PathInv, AppliedInv, PruneInv, TestInv, env, call
  <2> QED BY <1>1, <2>2
<1> QED BY <1>2, <1>3, <1>4, <1>5, <1>6, <1>7 DEF Next

LEMMA PluginAlways == Spec => []PluginInv
<1>1. Init => PluginInv
  <2> SUFFICES ASSUME Init PROVE PluginInv
    OBVIOUS
  <2>1. PathInv /\ AppliedInv /\ PruneInv /\ TestInv
    BY DEF Init, PathInv, AppliedInv, PruneInv, TestInv
  <2> QED BY <2>1, InitType DEF PluginInv
<1> QED BY <1>1, Keeps, PTL DEF Spec

-----------------------------------------------------------------------------
(* The types of the plugin's state, of the commits and of the cluster.     *)
THEOREM AlwaysTypeOK == Spec => []TypeOK
<1>1. PluginInv => TypeOK
  BY DEF PluginInv
<1> QED BY <1>1, PluginAlways, PTL

(* When Run of kubectl.go ends well, all of the commit is applied and all  *)
(* that left its kinds and namespaces is gone, however many objects and    *)
(* commits there are and whatever failed before.                           *)
THEOREM AlwaysRunsAll == Spec => RunsAll
<1>1. PluginInv /\ [Next]_vars =>
        [pc = "prune" /\ pc' = "list" =>
           touched \/ /\ \A o \in Git : live[o].content = path \/ ~live[o].is \/ live[o].deleting
                      /\ \A o \in Objects \ Git :
                           Pair(o) \in Pairs /\ live[o].is /\ live[o].label => Skipped(o)]_vars
  <2> SUFFICES ASSUME PluginInv, [Next]_vars, pc = "prune", pc' = "list", ~touched
               PROVE  /\ \A o \in Git : live[o].content = path \/ ~live[o].is \/ live[o].deleting
                      /\ \A o \in Objects \ Git :
                           Pair(o) \in Pairs /\ live[o].is /\ live[o].label => Skipped(o)
    OBVIOUS
  <2>1. Ran /\ ~Fail
    BY DEF Next, Plugin, Cluster, Start, Applied, Waited, Ran, List, Tested, ApplyOne, DeleteOne,
           CheckOne, PrunePair, Observe, Settle, Gone, Push, TimeOut, ApplyFails, UserDeletes,
           UserEdits, UserMakes, User, Fail, vars, env, call
  <2>2. ~bad /\ ~dryRun /\ names = {} /\ pairs = {}
    BY <2>1 DEF Ran
  <2>3. InPlace(Git)
    BY <2>2 DEF PluginInv, AppliedInv
  <2>4. \A o \in Objects : ~Leftover(o)
    BY <2>2 DEF PluginInv, PruneInv
  <2> QED BY <2>3, <2>4 DEF InPlace, Leftover
<1> QED BY <1>1, PluginAlways, PTL DEF Spec, RunsAll

(* What doCheck of kubectl.go passes is there, is not about to go, and is  *)
(* ready with the content of the commit, whatever happened in between.     *)
THEOREM AlwaysTestedReady == Spec => TestedReady
<1>1. PluginInv /\ [Next]_vars =>
        [checked' # checked =>
           touched \/ \A o \in Git : /\ live[o].is /\ ~live[o].deleting /\ live[o].content = path
                                     /\ HasCheck(o.kind) => live[o].observed /\ live[o].ready
                                     /\ o.kind = "Deployment" => live[o].updated]_vars
  <2> SUFFICES ASSUME PluginInv, [Next]_vars, checked' # checked, ~touched
               PROVE  \A o \in Git : /\ live[o].is /\ ~live[o].deleting /\ live[o].content = path
                                     /\ HasCheck(o.kind) => live[o].observed /\ live[o].ready
                                     /\ o.kind = "Deployment" => live[o].updated
    OBVIOUS
  <2>1. Tested /\ ~Fail
    BY DEF Next, Plugin, Cluster, Start, Applied, Waited, Ran, List, Tested, ApplyOne, DeleteOne,
           CheckOne, PrunePair, Observe, Settle, Gone, Push, TimeOut, ApplyFails, UserDeletes,
           UserEdits, UserMakes, User, Fail, vars, env, call
  <2>2. pc = "test" /\ ~bad /\ todo = {}
    BY <2>1 DEF Tested
  <2>3. ~dryRun /\ InPlace(Git)
    BY <2>2 DEF PluginInv, PathInv, AppliedInv
  <2> QED BY <2>2, <2>3 DEF PluginInv, TestInv, InPlace, Ready
<1> QED BY <1>1, PluginAlways, PTL DEF Spec, TestedReady

(* With options.DryRun no step of the plugin changes the cluster, and no   *)
(* call comes to the patches that report a commit.                         *)
THEOREM AlwaysDryRunIsDry == Spec => DryRunIsDry
<1>1. PluginInv /\ [Next]_vars =>
        [dryRun => (Plugin => UNCHANGED live) /\ UNCHANGED <<deployed, checked>>]_vars
  <2> SUFFICES ASSUME PluginInv, [Next]_vars, dryRun
               PROVE  (Plugin => UNCHANGED live) /\ UNCHANGED <<deployed, checked>>
    BY DEF vars
  <2>1. pc \notin {"list", "test", "wait"}
    BY DEF PluginInv, PathInv
  <2>2. Plugin => UNCHANGED live
    BY DEF Plugin, Start, Applied, Waited, Ran, List, Tested, ApplyOne, DeleteOne, CheckOne, PrunePair
  <2>3. UNCHANGED <<deployed, checked>>
    BY <2>1 DEF Next, Plugin, Cluster, Start, Applied, Waited, Ran, List, Tested, ApplyOne, DeleteOne,
           CheckOne, PrunePair, Observe, Settle, Gone, Push, TimeOut, ApplyFails, UserDeletes,
           UserEdits, UserMakes, User, Fail, vars, env, call
  <2> QED BY <2>2, <2>3
<1> QED BY <1>1, PluginAlways, PTL DEF Spec, DryRunIsDry
=============================================================================
