----------------------------- MODULE WorkerPod -----------------------------
(***************************************************************************)
(* Inside a worker pod: git-sync (src/cmd/git-sync/git-sync.go) follows a  *)
(* revision of the repository and keeps a link to the tree of its commit;  *)
(* it tells the deployer of the commit by a webhook (src/pkg/webhook), and *)
(* the deployer (src/pkg/deployer/controller/controller.go) renders what   *)
(* the link leads to, applies it, and reports commits to the Release.      *)
(*                                                                         *)
(* The two containers share a volume and nothing else: no lock keeps the   *)
(* link where it is while the deployer reads, and each may die and start   *)
(* again at any step.  Steps of a process that another can tell apart are  *)
(* actions of their own.  The plugin is kubectl, which renders in Init     *)
(* (src/pkg/deployer/plugins/kubectl/kubectl.go).                          *)
(*                                                                         *)
(* Here the Release is held by its controller all the time (what the two   *)
(* do to each other is in module ReleaseController), and the parameters    *)
(* stay the same.  Not here: dry run, the one-time mode of git-sync, tags  *)
(* and versions, the environment variables the listener sets.              *)
(***************************************************************************)
EXTENDS Integers, Sequences, FiniteSets

CONSTANTS
    Commits,
    None,           \* no commit
    Mixed,          \* what is live when a Run has applied a part
    Modes,          \* of [reconcile, rewinds, late : BOOLEAN]: spec.deployer.reconcile,
                    \* whether the revision may resolve to an earlier commit again, and
                    \* whether a call may arrive after the next one has been made
    Pushes,         \* bound: changes of what the revision resolves to
    Faults          \* bound: containers that die, attempts that fail

(* A rendered tree, or what was found of it. *)
Contents == [tree : Commits, whole : BOOLEAN]

ASSUME PodAssumption ==
    /\ None \notin Commits \cup Contents /\ Mixed \notin Contents
    /\ Modes \subseteq [reconcile : BOOLEAN, rewinds : BOOLEAN, late : BOOLEAN]
    /\ Pushes \in Nat /\ Faults \in Nat

VARIABLES
    mode, remote,   \* the commit the revision resolves to
    past,           \* the commits it has resolved to, in this order
    pushes, faults,
    (* the shared volume *)
    trees,          \* commits with a work tree
    whole,          \* those that are checked out completely
    link,           \* the tree the repository's link leads to
    (* git-sync *)
    gpc, head, target, prev,
    call,           \* the call of the webhook that is made until it succeeds
    late,           \* calls given up, with an attempt under way
    (* the deployer *)
    dpc, commit,
    queue, delayed, \* events, and those that wait for their next attempt
    work,           \* the event it handles
    read,           \* the tree it reads
    cut,            \* that tree has been removed meanwhile
    content,        \* what it has rendered
    (* the clusters *)
    live,           \* what has been applied
    status,         \* status.commit, and whether the last condition is ReleaseChecked
    succeeded       \* status.phase is Succeeded

git == <<trees, whole, link, gpc, head, target, prev>>
hook == <<call, late>>
events == <<commit, queue, delayed>>
deployer == <<dpc, work, read, cut, content>>
release == <<live, status, succeeded>>
env == <<mode, remote, past, pushes, faults>>
vars == <<env, git, hook, events, deployer, release>>

Init ==
    /\ mode \in Modes
    /\ remote \in Commits /\ past = <<remote>>
    /\ pushes = Pushes /\ faults = Faults
    /\ trees = {} /\ whole = {} /\ link = None
    /\ gpc = "start" /\ head = None /\ target = None /\ prev = None
    /\ call = None /\ late = {}
    /\ dpc = "waiting" /\ commit = None /\ queue = {} /\ delayed = {}
    /\ work = None /\ read = None /\ cut = FALSE /\ content = None
    /\ live = None /\ status = [commit |-> None, checked |-> FALSE] /\ succeeded = FALSE

-----------------------------------------------------------------------------
(* git-sync *)

(* A tree is removed, under a reader or not. *)
Keep(T) ==
    /\ trees' = trees \cap T /\ whole' = whole \cap T
    /\ cut' = (cut \/ read \in Commits \ T)

(* Mutant: trees left by a process that died stay. *)
GitStart_NoCleanup ==
    /\ gpc = "start" /\ gpc' = "fetch"
    /\ head' = link
    /\ UNCHANGED <<env, hook, events, release, trees, whole, link, target, prev, deployer>>

(* main: trees the link does not lead to go; the linked one is the head. *)
GitStart ==
    /\ gpc = "start" /\ gpc' = "fetch"
    /\ Keep({link}) /\ head' = link
    /\ UNCHANGED <<env, hook, events, release, link, target, prev, dpc, work, read, content>>

(* Mutant: the webhook is called of new commits only. *)
GitFetch_CallsOnce ==
    /\ gpc = "fetch"
    /\ target' = IF head = remote THEN None ELSE remote
    /\ IF head = remote THEN gpc' = "fetch" /\ UNCHANGED trees
                        ELSE gpc' = "checkout" /\ trees' = trees \cup {remote}
    /\ UNCHANGED <<env, hook, events, deployer, release, whole, link, head, prev>>

(* Mutant: the link flips before the checkout. *)
GitFetch_LinkFirst ==
    /\ gpc = "fetch" /\ target' = remote
    /\ IF head = remote THEN gpc' = "call" /\ UNCHANGED <<trees, link>>
                        ELSE /\ gpc' = "checkout"
                             /\ trees' = trees \cup {remote} /\ link' = remote
    /\ UNCHANGED <<env, hook, events, deployer, release, whole, head, prev>>

(* sync: the commit of the revision; unless it is the head, it gets a work *)
(* tree.                                                                   *)
GitFetch ==
    /\ gpc = "fetch" /\ target' = remote
    /\ IF head = remote THEN gpc' = "call" /\ UNCHANGED trees
                        ELSE gpc' = "checkout" /\ trees' = trees \cup {remote}
    /\ UNCHANGED <<env, hook, events, deployer, release, whole, link, head, prev>>

(* git-crypt and the sparse checkout. *)
GitCheckout ==
    /\ gpc = "checkout" /\ gpc' = "link"
    /\ whole' = whole \cup {target}
    /\ UNCHANGED <<env, hook, events, deployer, release, trees, link, head, target, prev>>

(* updateLink: a new link is moved over the old one. *)
GitLink ==
    /\ gpc = "link" /\ gpc' = "remove"
    /\ prev' = link /\ link' = target
    /\ UNCHANGED <<env, hook, events, deployer, release, trees, whole, head, target>>

(* Then the tree of the old one is removed. *)
GitRemove ==
    /\ gpc = "remove" /\ gpc' = "call"
    /\ Keep(Commits \ {prev}) /\ head' = target /\ prev' = None
    /\ UNCHANGED <<env, hook, events, release, link, target, dpc, work, read, content>>

(* Call: the one before is given up, but for an attempt under way. *)
GitCall ==
    /\ gpc = "call" /\ gpc' = "fetch"
    /\ call' = target /\ target' = None
    /\ late' = IF mode.late /\ call \in Commits THEN late \cup {call} ELSE late
    /\ UNCHANGED <<env, events, deployer, release, trees, whole, link, head, prev>>

GitStep == GitStart \/ GitFetch \/ GitCheckout \/ GitLink \/ GitRemove \/ GitCall

-----------------------------------------------------------------------------
(* The webhook and the listener of the deployer. *)

(* Mutant: a message without a commit is an event as well. *)
Listen_Empty(c) == commit' = c /\ queue' = queue \cup {c} /\ UNCHANGED delayed

Listen(c) ==
    IF c = None THEN UNCHANGED events
    ELSE commit' = c /\ queue' = queue \cup {c} /\ UNCHANGED delayed

Deliver ==
    /\ call # None
    /\ Listen(call) /\ call' = None
    /\ UNCHANGED <<env, git, late, deployer, release>>

(* It arrives, but the reply does not: it is made again. *)
DeliverAgain ==
    /\ call # None
    /\ Listen(call)
    /\ UNCHANGED <<env, git, hook, deployer, release>>

DeliverLate == \E c \in late :
    /\ Listen(c) \/ UNCHANGED events
    /\ late' = late \ {c}
    /\ UNCHANGED <<env, git, call, deployer, release>>

-----------------------------------------------------------------------------
(* The deployer *)

(* Run polls the Release until the worker may start. *)
Begins ==
    /\ dpc = "waiting" /\ dpc' = "idle"
    /\ UNCHANGED <<env, git, hook, events, release, work, read, cut, content>>

Rest(pc) ==
    dpc' = pc /\ work' = None /\ read' = None /\ cut' = FALSE /\ content' = None

Work(pc, rendered) ==
    dpc' = pc /\ read' = None /\ cut' = FALSE /\ content' = rendered /\ UNCHANGED work

(* Mutant: any event is taken. *)
Takes_Any == \E c \in queue :
    /\ dpc = "idle"
    /\ queue' = queue \ {c}
    /\ dpc' = "init" /\ work' = c
    /\ UNCHANGED <<env, git, hook, commit, delayed, release, read, cut, content>>

(* An event which is not the latest is skipped. *)
Takes == \E c \in queue :
    /\ dpc = "idle"
    /\ queue' = queue \ {c}
    /\ IF c = commit THEN dpc' = "init" /\ work' = c /\ UNCHANGED <<read, cut, content>>
                     ELSE Rest("idle")
    /\ UNCHANGED <<env, git, hook, commit, delayed, release>>

(* Init: into the tree the link leads to, ... *)
Opens ==
    /\ dpc = "init" /\ dpc' = "reading"
    /\ link # None /\ read' = link
    /\ UNCHANGED <<env, git, hook, events, release, work, cut, content>>

(* ... whose manifests are rendered; of a tree being removed the walk may  *)
(* find a part without an error.                                           *)
Rendered == [tree |-> read, whole |-> ~cut]

(* Then the Release is read; with reconcile, and that commit in the status,*)
(* kubectl diff compares what was rendered with what is live.  It may fail,*)
(* which counts as a difference, and a part may be the same as what is     *)
(* live.                                                                   *)
HasDiff ==
    IF status.commit # work THEN {TRUE}
    ELSE IF ~mode.reconcile THEN {FALSE}
    ELSE IF Rendered = live \/ cut THEN BOOLEAN ELSE {TRUE}

Reads ==
    /\ dpc = "reading"
    /\ \E hasDiff \in HasDiff :
         \/ hasDiff /\ Work("run", Rendered)
         \/ ~hasDiff /\ succeeded /\ Rest("idle")
         \/ ~hasDiff /\ ~succeeded /\ Work("test", None)
    /\ UNCHANGED <<env, git, hook, events, release>>

(* What is live when Run ends early: nothing of it is applied, all of it,  *)
(* or a part; to apply what is live changes nothing.                       *)
Interrupted ==
    IF dpc # "run" \/ content = live THEN {live} ELSE {live, content, Mixed}

Runs ==
    /\ dpc = "run" /\ Work("report", None)
    /\ live' = content
    /\ UNCHANGED <<env, git, hook, events, status, succeeded>>

ReportsDeployed ==
    /\ dpc = "report" /\ Work("test", None)
    /\ status' = [commit |-> work, checked |-> FALSE]
    /\ UNCHANGED <<env, git, hook, events, live, succeeded>>

(* Test passes, and that is reported. *)
ReportsChecked ==
    /\ dpc = "test" /\ Rest("idle")
    /\ status' = [status EXCEPT !.checked = TRUE]
    /\ UNCHANGED <<env, git, hook, events, live, succeeded>>

Fault == faults > 0 /\ faults' = faults - 1 /\ UNCHANGED <<mode, remote, past, pushes>>

(* Mutant: a report that fails is not made again. *)
Fails_ReportLost ==
    /\ Fault
    /\ dpc \notin {"waiting", "idle"}
    /\ live' \in Interrupted
    /\ IF dpc = "report" THEN Work("test", None) /\ UNCHANGED delayed
       ELSE Rest("idle") /\ delayed' = delayed \cup {work}
    /\ UNCHANGED <<git, hook, commit, queue, status, succeeded>>

(* An error of a plugin or of the API server, or the timeout: the event    *)
(* waits for its next attempt.                                             *)
Fails ==
    /\ Fault
    /\ dpc \notin {"waiting", "idle"}
    /\ live' \in Interrupted
    /\ Rest("idle") /\ delayed' = delayed \cup {work}
    /\ UNCHANGED <<git, hook, commit, queue, status, succeeded>>

Requeues == \E c \in delayed :
    /\ delayed' = delayed \ {c} /\ queue' = queue \cup {c}
    /\ UNCHANGED <<env, git, hook, commit, deployer, release>>

(* The release controller derives the phase from the last condition. *)
PhaseFollows ==
    /\ succeeded # status.checked /\ succeeded' = status.checked
    /\ UNCHANGED <<env, git, hook, events, deployer, live, status>>

-----------------------------------------------------------------------------
(* What changes the revision, and what dies. *)

Push ==
    /\ pushes > 0 /\ pushes' = pushes - 1
    /\ \E c \in Commits \ {remote} :
         /\ mode.rewinds \/ \A i \in DOMAIN past : past[i] # c
         /\ remote' = c /\ past' = Append(past, c)
    /\ UNCHANGED <<mode, faults, git, hook, events, deployer, release>>

(* git-sync dies, of an error or not; a tree may be half removed then. *)
GitDies ==
    /\ Fault
    /\ gpc' = "start" /\ head' = None /\ target' = None /\ prev' = None
    /\ call' = None
    /\ late' = IF mode.late /\ call \in Commits THEN late \cup {call} ELSE late
    /\ \/ UNCHANGED <<whole, cut>>
       \/ whole' = whole \ {prev} /\ cut' = (cut \/ read \in {prev} \cap Commits)
    /\ UNCHANGED <<trees, link, events, dpc, work, read, content, release>>

(* The clone failed: a message without a commit is sent first. *)
GitFatal ==
    /\ gpc = "start" /\ link = None
    /\ Fault
    /\ Listen(None)
    /\ UNCHANGED <<git, hook, deployer, release>>

DeployerDies ==
    /\ Fault
    /\ Rest("waiting") /\ commit' = None /\ queue' = {} /\ delayed' = {}
    /\ live' \in Interrupted
    /\ UNCHANGED <<git, hook, status, succeeded>>

DeployerStep ==
    Begins \/ Takes \/ Opens \/ Reads \/ Runs \/ ReportsDeployed \/ ReportsChecked

Next ==
    \/ GitStep \/ Deliver \/ DeliverAgain \/ DeliverLate
    \/ DeployerStep \/ Fails \/ Requeues
    \/ PhaseFollows \/ Push \/ GitDies \/ GitFatal \/ DeployerDies

Spec == Init /\ [][Next]_vars

(* Both processes go on; the webhook's loop, the queue's delay and the     *)
(* release controller get their turn.                                      *)
Fairness ==
    /\ WF_vars(GitStep) /\ WF_vars(Deliver) /\ WF_vars(DeliverLate)
    /\ WF_vars(DeployerStep) /\ WF_vars(Requeues) /\ WF_vars(PhaseFollows)

FairSpec == Spec /\ Fairness

-----------------------------------------------------------------------------
TypeOK ==
    /\ mode \in Modes /\ remote \in Commits /\ past \in Seq(Commits)
    /\ pushes \in Nat /\ faults \in Nat
    /\ trees \subseteq Commits /\ whole \subseteq Commits
    /\ {link, head, target, prev, call, commit, work, read} \subseteq Commits \cup {None}
    /\ gpc \in {"start", "fetch", "checkout", "link", "remove", "call"}
    /\ late \subseteq Commits /\ queue \subseteq Commits /\ delayed \subseteq Commits
    /\ dpc \in {"waiting", "idle", "init", "reading", "run", "report", "test"}
    /\ cut \in BOOLEAN /\ content \in Contents \cup {None}
    /\ live \in Contents \cup {None, Mixed}
    /\ status \in [commit : Commits \cup {None}, checked : BOOLEAN]
    /\ succeeded \in BOOLEAN

(* Whenever git-sync or the pod dies, the repository's link leads to a     *)
(* tree that is there and checked out completely.                          *)
LinkWhole == link # None => link \in trees \cap whole

(* Trees do not pile up on the volume: between two syncs there is the      *)
(* linked one and no other, whatever an earlier process left.              *)
Tidy == gpc \in {"fetch", "call"} => trees = {link} \ {None}

(* ReleaseChecked is reported of the commit the status names. *)
ChecksDeployed == [][~status.checked /\ status'.checked => status.commit = work]_vars

(* While the revision only moves forward, so does everything the pod does: *)
(* deaths, failures, repeated and late calls, and readers of a tree that   *)
(* is being removed included, it keeps the promise of Rollout.             *)
At(line, c) == IF c = None THEN 0 ELSE CHOOSE i \in DOMAIN line : line[i] = c
Applied == IF live \in Contents THEN At(past, live.tree) ELSE 0

Roll == INSTANCE Rollout WITH
    tip <- Len(past),
    linked <- At(past, link),
    applied <- Applied,
    part <- live \in Contents /\ ~live.whole,
    reported <- At(past, status.commit)

RollsOut == Roll!Spec

(* "Commit is the current commit id which is already applied" (types.go):  *)
(* once the revision rests, its commit is in the status and all of its     *)
(* tree is live, for good, and it is checked again and again.              *)
EventuallyApplied ==
    /\ <>[](status.commit = remote /\ live = [tree |-> remote, whole |-> TRUE])
    /\ []<>status.checked
=============================================================================
