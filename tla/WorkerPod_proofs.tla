-------------------------- MODULE WorkerPod_proofs --------------------------
(***************************************************************************)
(* Theorems about WorkerPod, for any commits, modes and bounds: what the   *)
(* volume holds whatever dies, what the deployer reports as checked, and   *)
(* that the pod keeps the promise of Rollout.                              *)
(***************************************************************************)
EXTENDS WorkerPod, TLAPS

Linked == {link} \ {None}

(* What git-sync relies on at each step of its loop: it is the only one    *)
(* that writes the volume, and what it finds after its own death is what   *)
(* any of its steps may leave.                                             *)
PodInv ==
    /\ remote \in Commits
    /\ link \in Commits \cup {None} /\ prev \in Commits \cup {None}
    /\ trees \subseteq Commits /\ whole \subseteq trees
    /\ Linked \subseteq whole
    /\ gpc \in {"start", "fetch", "checkout", "link", "remove", "call"}
    /\ gpc \in {"fetch", "checkout", "link", "call"} => head = link
    /\ gpc \in {"fetch", "call"} => trees = Linked
    /\ gpc \in {"checkout", "link"} =>
         target \in Commits /\ target # link /\ trees = Linked \cup {target}
    /\ gpc = "link" => target \in whole
    /\ gpc = "remove" => link = target /\ prev # link /\ trees = ({link, prev} \ {None})
    /\ gpc # "remove" => prev = None

LEMMA PodInitially == Init => PodInv
BY PodAssumption DEF Init, PodInv, Linked

(* Nobody but git-sync changes the volume. *)
LEMMA OthersLeaveVolume ==
    ASSUME PodInv, UNCHANGED git, remote' \in Commits
    PROVE  PodInv'
BY DEF PodInv, Linked, git

(* Each step of git-sync keeps the invariant. *)
LEMMA GitStepKeeps ==
    ASSUME PodInv, GitStep
    PROVE  PodInv'
<1> USE PodAssumption
<1>1. CASE GitStart
  BY <1>1 DEF GitStart, Keep, PodInv, Linked, env
<1>2. CASE GitFetch
  <2>1. CASE head = remote
    BY <1>2, <2>1 DEF GitFetch, PodInv, Linked, env
  <2>2. CASE head # remote
    BY <1>2, <2>2 DEF GitFetch, PodInv, Linked, env
  <2>. QED BY <2>1, <2>2
<1>3. CASE GitCheckout
  BY <1>3 DEF GitCheckout, PodInv, Linked, env
<1>4. CASE GitLink
  BY <1>4 DEF GitLink, PodInv, Linked, env
<1>5. CASE GitRemove
  BY <1>5 DEF GitRemove, Keep, PodInv, Linked, env
<1>6. CASE GitCall
  BY <1>6 DEF GitCall, PodInv, Linked, env
<1>. QED BY <1>1, <1>2, <1>3, <1>4, <1>5, <1>6 DEF GitStep

(* A process that dies leaves a volume the next one can start from. *)
LEMMA GitDiesKeeps ==
    ASSUME PodInv, GitDies
    PROVE  PodInv'
<1> USE PodAssumption
<1>1. /\ gpc' = "start" /\ prev' = None
      /\ UNCHANGED <<remote, trees, link>>
      /\ whole' \in {whole, whole \ {prev}}
  BY DEF GitDies, Fault, events
<1>2. Linked \subseteq whole'
  BY <1>1 DEF PodInv, Linked
<1>. QED BY <1>1, <1>2 DEF PodInv, Linked

LEMMA PodStep == PodInv /\ [Next]_vars => PodInv'
<1> SUFFICES ASSUME PodInv, [Next]_vars PROVE PodInv'
  OBVIOUS
<1>1. CASE GitStep
  BY <1>1, GitStepKeeps
<1>2. CASE GitDies
  BY <1>2, GitDiesKeeps
<1>3. CASE Deliver \/ DeliverAgain \/ DeliverLate
  <2>. UNCHANGED git /\ remote' = remote
    BY <1>3 DEF Deliver, DeliverAgain, DeliverLate, env
  <2>. QED BY OthersLeaveVolume DEF PodInv
<1>4. CASE DeployerStep
  <2>. UNCHANGED git /\ remote' = remote
    BY <1>4 DEF DeployerStep, Begins, Takes, Opens, Reads, Runs,
                ReportsDeployed, ReportsChecked, env
  <2>. QED BY OthersLeaveVolume DEF PodInv
<1>5. CASE Fails \/ GitFatal \/ DeployerDies
  <2>. UNCHANGED git /\ remote' = remote
    BY <1>5 DEF Fails, GitFatal, DeployerDies, Fault
  <2>. QED BY OthersLeaveVolume DEF PodInv
<1>6. CASE Requeues \/ PhaseFollows
  <2>. UNCHANGED git /\ remote' = remote
    BY <1>6 DEF Requeues, PhaseFollows, env
  <2>. QED BY OthersLeaveVolume DEF PodInv
<1>7. CASE Push
  <2>. UNCHANGED git /\ remote' \in Commits
    BY <1>7 DEF Push
  <2>. QED BY OthersLeaveVolume
<1>8. CASE UNCHANGED vars
  <2>. UNCHANGED git /\ remote' = remote
    BY <1>8 DEF vars, env
  <2>. QED BY OthersLeaveVolume DEF PodInv
<1>. QED BY <1>1, <1>2, <1>3, <1>4, <1>5, <1>6, <1>7, <1>8 DEF Next

LEMMA PodAlways == Spec => []PodInv
BY PodInitially, PodStep, PTL DEF Spec

(* Whatever dies when, and however often the revision changes, the         *)
(* repository's link leads to a complete tree (updateLink of git-sync.go). *)
THEOREM AlwaysLinkWhole == Spec => []LinkWhole
<1>1. PodInv => LinkWhole
  BY DEF PodInv, Linked, LinkWhole
<1>. QED BY <1>1, PodAlways, PTL

(* Between two syncs the linked tree is the only one, after any number of  *)
(* deaths (the removals at the start and in updateLink of git-sync.go).    *)
THEOREM AlwaysTidy == Spec => []Tidy
<1>1. PodInv => Tidy
  BY DEF PodInv, Linked, Tidy
<1>. QED BY <1>1, PodAlways, PTL

-----------------------------------------------------------------------------
(* What the deployer holds while it handles an event. *)
WorkInv ==
    /\ TypeOK
    /\ dpc \notin {"waiting", "idle"} => work \in Commits
    /\ dpc = "reading" => read \in Commits
    /\ dpc = "test" => status.commit = work

LEMMA WorkInitially == Init => WorkInv
<1> SUFFICES ASSUME Init PROVE WorkInv
  OBVIOUS
<1>1. status \in [commit : Commits \cup {None}, checked : BOOLEAN]
  BY DEF Init
<1>2. pushes \in Nat /\ faults \in Nat
  BY PodAssumption DEF Init
<1>3. {link, head, target, prev, call, commit, work, read} \subseteq Commits \cup {None}
  BY DEF Init
<1>4. past \in Seq(Commits)
  BY DEF Init
<1>. QED BY <1>1, <1>2, <1>3, <1>4 DEF Init, WorkInv, TypeOK

(* The steps of git-sync may cut what the deployer reads, no more. *)
LEMMA GitKeepsWork ==
    ASSUME PodInv, WorkInv, GitStep \/ GitDies
    PROVE  WorkInv'
<1> USE PodAssumption DEF WorkInv, TypeOK, Contents
<1>1. CASE GitStart
  BY <1>1 DEF GitStart, Keep, env, hook, events, release
<1>2. CASE GitFetch
  BY <1>2 DEF GitFetch, env, hook, events, deployer, release
<1>3. CASE GitCheckout \/ GitLink
  <2>1. CASE GitCheckout
    <3>1. whole' \subseteq Commits
      BY <2>1 DEF GitCheckout, PodInv
    <3>. QED BY <2>1, <3>1 DEF GitCheckout, env, hook, events, deployer, release
  <2>2. CASE GitLink
    BY <2>2 DEF GitLink, env, hook, events, deployer, release
  <2>. QED BY <1>3, <2>1, <2>2
<1>5. CASE GitRemove
  BY <1>5 DEF GitRemove, Keep, env, hook, events, release
<1>6. CASE GitCall
  BY <1>6 DEF GitCall, env, events, deployer, release
<1>7. CASE GitDies
  <2>1. faults' \in Nat /\ UNCHANGED <<mode, remote, past, pushes>>
    BY <1>7 DEF GitDies, Fault
  <2>2. late' \subseteq Commits
    BY <1>7 DEF GitDies
  <2>3. cut' \in BOOLEAN
    BY <1>7 DEF GitDies
  <2>4. whole' \subseteq Commits
    BY <1>7 DEF GitDies
  <2>. QED BY <1>7, <2>1, <2>2, <2>3, <2>4 DEF GitDies, events, release
<1>. QED BY <1>1, <1>2, <1>3, <1>5, <1>6, <1>7 DEF GitStep

LEMMA HookKeepsWork ==
    ASSUME WorkInv, Deliver \/ DeliverAgain \/ DeliverLate \/ GitFatal
    PROVE  WorkInv'
<1> USE PodAssumption DEF WorkInv, TypeOK, Contents, Listen
<1>1. CASE Deliver
  BY <1>1 DEF Deliver, env, git, events, deployer, release
<1>2. CASE DeliverAgain
  BY <1>2 DEF DeliverAgain, env, git, hook, events, deployer, release
<1>3. CASE DeliverLate
  <2>1. PICK c \in late : /\ Listen(c) \/ UNCHANGED events
                         /\ late' = late \ {c}
    BY <1>3 DEF DeliverLate
  <2>. QED BY <1>3, <2>1 DEF DeliverLate, env, git, events, deployer, release
<1>4. CASE GitFatal
  BY <1>4 DEF GitFatal, Fault, git, hook, events, deployer, release
<1>. QED BY <1>1, <1>2, <1>3, <1>4

(* A step of the deployer changes what it holds, or what it released, and *)
(* nothing else: what is left to show of it.                              *)
LEMMA HeldKeepsWork ==
    ASSUME WorkInv, UNCHANGED <<env, git, hook>>,
           commit' \in Commits \cup {None}, queue' \subseteq Commits, delayed' \subseteq Commits,
           dpc' \in {"waiting", "idle", "init", "reading", "run", "report", "test"},
           work' \in Commits \cup {None}, read' \in Commits \cup {None}, cut' \in BOOLEAN,
           content' \in Contents \cup {None}, live' \in Contents \cup {None, Mixed},
           status' \in [commit : Commits \cup {None}, checked : BOOLEAN],
           succeeded' \in BOOLEAN,
           dpc' \notin {"waiting", "idle"} => work' \in Commits,
           dpc' = "reading" => read' \in Commits,
           dpc' = "test" => status'.commit = work'
    PROVE  WorkInv'
<1>1. /\ mode' \in Modes /\ remote' \in Commits /\ past' \in Seq(Commits)
      /\ pushes' \in Nat /\ faults' \in Nat
  BY DEF WorkInv, TypeOK, env
<1>2. /\ trees' \subseteq Commits /\ whole' \subseteq Commits
      /\ {link', head', target', prev', call'} \subseteq Commits \cup {None}
      /\ gpc' \in {"start", "fetch", "checkout", "link", "remove", "call"}
      /\ late' \subseteq Commits
  BY DEF WorkInv, TypeOK, git, hook
<1>. QED BY <1>1, <1>2 DEF WorkInv, TypeOK

(* What the deployer holds before a step, and the rest that is typed. *)
LEMMA HeldBefore ==
    ASSUME WorkInv
    PROVE  /\ commit \in Commits \cup {None} /\ queue \subseteq Commits /\ delayed \subseteq Commits
           /\ work \in Commits \cup {None} /\ read \in Commits \cup {None}
           /\ link \in Commits \cup {None} /\ cut \in BOOLEAN
           /\ content \in Contents \cup {None} /\ live \in Contents \cup {None, Mixed}
           /\ status \in [commit : Commits \cup {None}, checked : BOOLEAN]
           /\ succeeded \in BOOLEAN /\ faults \in Nat
           /\ dpc \in {"waiting", "idle", "init", "reading", "run", "report", "test"}
           /\ dpc \notin {"waiting", "idle"} => work \in Commits
           /\ dpc = "reading" => read \in Commits
           /\ dpc = "test" => status.commit = work
BY DEF WorkInv, TypeOK

(* The deployer's own steps: what it tests is what the status names. *)
LEMMA DeployerKeepsWork ==
    ASSUME WorkInv, DeployerStep
    PROVE  WorkInv'
<1>1. CASE Begins
  BY HeldBefore, HeldKeepsWork, <1>1 DEF Begins, Rest, events, release
<1>2. CASE Takes
  <2>1. PICK c \in queue :
          /\ queue' = queue \ {c}
          /\ IF c = commit
             THEN dpc' = "init" /\ work' = c /\ UNCHANGED <<read, cut, content>>
             ELSE Rest("idle")
    BY HeldBefore, <1>2 DEF Takes
  <2>2. UNCHANGED <<env, git, hook, commit, delayed, release>> /\ dpc = "idle"
    BY HeldBefore, <1>2 DEF Takes
  <2>3. c \in Commits
    BY HeldBefore, <2>1
  <2>4. CASE c = commit
    BY HeldBefore, HeldKeepsWork, <2>1, <2>2, <2>3, <2>4 DEF release
  <2>5. CASE c # commit
    BY HeldBefore, HeldKeepsWork, <2>1, <2>2, <2>5 DEF release, Rest
  <2>. QED BY <2>4, <2>5
<1>3. CASE Opens
  BY HeldBefore, HeldKeepsWork, <1>3 DEF Opens, events, release
<1>4. CASE Reads
  <2>1. Rendered \in Contents
    BY HeldBefore, <1>4 DEF Reads, Rendered, Contents
  <2>2. PICK hasDiff \in HasDiff :
          \/ hasDiff /\ Work("run", Rendered)
          \/ ~hasDiff /\ succeeded /\ Rest("idle")
          \/ ~hasDiff /\ ~succeeded /\ Work("test", None)
    BY HeldBefore, <1>4 DEF Reads
  <2>3. status.commit # work => hasDiff
    BY <2>2 DEF HasDiff
  <2>4. UNCHANGED <<env, git, hook>> /\ UNCHANGED <<commit, queue, delayed, live, status, succeeded>>
    BY HeldBefore, <1>4 DEF Reads, events, release
  <2>5. work \in Commits
    BY HeldBefore, <1>4 DEF Reads
  <2>6. CASE Work("run", Rendered)
    BY HeldBefore, HeldKeepsWork, <2>1, <2>4, <2>5, <2>6 DEF Work
  <2>7. CASE Rest("idle")
    BY HeldBefore, HeldKeepsWork, <2>4, <2>7 DEF Rest
  <2>8. CASE Work("test", None) /\ status.commit = work
    BY HeldBefore, HeldKeepsWork, <2>4, <2>5, <2>8 DEF Work
  <2>. QED BY <2>2, <2>3, <2>6, <2>7, <2>8
<1>5. CASE Runs
  <2>1. live' \in Contents \cup {None, Mixed}
    BY HeldBefore, <1>5 DEF Runs
  <2>. QED BY HeldBefore, HeldKeepsWork, <1>5, <2>1 DEF Runs, Work, events
<1>6. CASE ReportsDeployed
  <2>1. status' \in [commit : Commits \cup {None}, checked : BOOLEAN] /\ status'.commit = work
    BY HeldBefore, <1>6 DEF ReportsDeployed
  <2>. QED BY HeldBefore, HeldKeepsWork, <1>6, <2>1 DEF ReportsDeployed, Work, events
<1>7. CASE ReportsChecked
  <2>1. status' \in [commit : Commits \cup {None}, checked : BOOLEAN]
    BY HeldBefore, <1>7 DEF ReportsChecked
  <2>. QED BY HeldBefore, HeldKeepsWork, <1>7, <2>1 DEF ReportsChecked, Rest, events
<1>. QED BY <1>1, <1>2, <1>3, <1>4, <1>5, <1>6, <1>7 DEF DeployerStep

LEMMA OthersKeepWork ==
    ASSUME WorkInv, Fails \/ DeployerDies \/ Requeues \/ PhaseFollows \/ Push
    PROVE  WorkInv'
<1>1. CASE Fails \/ DeployerDies
  <2>1. live' \in Contents \cup {None, Mixed}
    BY <1>1, HeldBefore DEF Fails, DeployerDies, Interrupted
  <2>2. /\ faults' \in Nat /\ UNCHANGED <<mode, remote, past, pushes, git, hook, status, succeeded>>
        /\ Rest("idle") \/ Rest("waiting")
    BY <1>1, HeldBefore DEF Fails, DeployerDies, Fault
  <2>3. commit' \in Commits \cup {None} /\ queue' \subseteq Commits /\ delayed' \subseteq Commits
    BY <1>1, HeldBefore DEF Fails, DeployerDies
  <2>. QED BY <2>1, <2>2, <2>3 DEF git, hook, WorkInv, TypeOK, Rest
<1>3. CASE Requeues
  <2>1. queue' \subseteq Commits /\ delayed' \subseteq Commits
    BY <1>3, HeldBefore DEF Requeues
  <2>2. UNCHANGED <<env, git, hook, commit, deployer, release>>
    BY <1>3 DEF Requeues
  <2>3. UNCHANGED <<env, git, hook>> /\ UNCHANGED <<commit, dpc, work, read, cut, content, live, status, succeeded>>
    BY <2>2 DEF deployer, release
  <2>. QED BY <2>1, <2>3, HeldBefore, HeldKeepsWork
<1>4. CASE PhaseFollows
  <2>1. succeeded' \in BOOLEAN
    BY <1>4, HeldBefore DEF PhaseFollows
  <2>2. UNCHANGED <<env, git, hook>> /\ UNCHANGED <<commit, queue, delayed, dpc, work, read, cut, content, live, status>>
    BY <1>4 DEF PhaseFollows, events, deployer
  <2>. QED BY <2>1, <2>2, HeldBefore, HeldKeepsWork
<1>5. CASE Push
  <2>1. pushes' \in Nat /\ remote' \in Commits /\ past' \in Seq(Commits)
    BY <1>5 DEF Push, WorkInv, TypeOK
  <2>. QED BY <1>5, <2>1 DEF Push, git, hook, events, deployer, release, WorkInv, TypeOK
<1>. QED BY <1>1, <1>3, <1>4, <1>5

LEMMA WorkStep == PodInv /\ WorkInv /\ [Next]_vars => WorkInv'
<1>1. WorkInv /\ UNCHANGED vars => WorkInv'
  BY DEF WorkInv, TypeOK, vars, env, git, hook, events, deployer, release
<1>. QED BY <1>1, GitKeepsWork, HookKeepsWork, DeployerKeepsWork, OthersKeepWork DEF Next

LEMMA WorkAlways == Spec => []WorkInv
BY WorkInitially, WorkStep, PodAlways, PTL DEF Spec

(* The types of WorkerPod: every event the deployer takes, and every tree  *)
(* it reads, is of a commit (the listener of the deployer's controller.go  *)
(* skips messages without one).                                            *)
THEOREM PodTypeCorrect == Spec => []TypeOK
<1>1. WorkInv => TypeOK
  BY DEF WorkInv
<1>. QED BY <1>1, WorkAlways, PTL

(* ReleaseChecked is reported of the commit in the status, whatever fails  *)
(* or dies between the two reports (syncHandler of the deployer).          *)
THEOREM AlwaysChecksDeployed == Spec => ChecksDeployed
<1>1. WorkInv /\ [Next]_vars => [~status.checked /\ status'.checked => status.commit = work]_vars
  <2> SUFFICES ASSUME WorkInv, Next, ~status.checked, status'.checked
               PROVE  status.commit = work
    OBVIOUS
  <2>1. status' # status
    OBVIOUS
  <2>2. ReportsDeployed \/ ReportsChecked
    BY <2>1 DEF Next, GitStep, GitStart, GitFetch, GitCheckout, GitLink, GitRemove, GitCall,
                Deliver, DeliverAgain, DeliverLate, DeployerStep, Begins, Takes, Opens, Reads,
                Runs, Fails, Requeues, PhaseFollows, Push, GitDies, GitFatal, DeployerDies, release
  <2>3. ~ReportsDeployed
    BY DEF ReportsDeployed
  <2>. QED BY <2>2, <2>3 DEF ReportsChecked, WorkInv
<1>. QED BY <1>1, WorkAlways, PTL DEF Spec, ChecksDeployed

-----------------------------------------------------------------------------
(* RollsOut.  If the revision does not rewind, each commit has one place   *)
(* in the order of the commits, and what follows relates the places of     *)
(* what git-sync, the webhook and the deployer hold.                       *)

On(line) == {line[i] : i \in DOMAIN line}

Straight ==
    /\ \A i, j \in DOMAIN past : past[i] = past[j] => i = j
    /\ past # <<>> /\ remote = past[Len(past)]

(* Commits that git-sync has told the deployer of, or is telling it.       *)
Called == late \cup queue \cup delayed \cup {call, commit, work, status.commit}

Ordinary ==
    /\ Called \cup {link, target, prev, read} \subseteq On(past) \cup {None}
    /\ content \in Contents => content.tree \in On(past)
    /\ live \in Contents => live.tree \in On(past)

(* The next tree is of a later commit; calls are made of what is linked.   *)
GitForward ==
    /\ gpc \in {"checkout", "link"} => At(past, link) < At(past, target)
    /\ gpc = "remove" => At(past, prev) < At(past, link)
    /\ gpc = "call" => target = link

CallsLinked == \A c \in Called : At(past, c) <= At(past, link)

(* What the deployer reads is not older than the event, nor than what was  *)
(* applied or reported; it is cut only after the link has moved on.        *)
Newer(c) ==
    /\ At(past, work) <= At(past, c) /\ At(past, status.commit) <= At(past, c)
    /\ Applied <= At(past, c) /\ At(past, c) <= At(past, link)

WorkForward ==
    /\ dpc = "reading" => Newer(read) /\ (cut => At(past, read) < At(past, link))
    /\ dpc # "reading" => read = None /\ cut = FALSE
    /\ dpc = "run" => /\ content \in Contents /\ Newer(content.tree)
                      /\ ~content.whole => At(past, content.tree) < At(past, link)
    /\ dpc = "report" => live \in Contents /\ At(past, work) <= Applied

LiveForward ==
    /\ Applied <= At(past, link)
    /\ live \in Contents => /\ At(past, status.commit) <= Applied
                            /\ ~live.whole => Applied < At(past, link)

(* If no call comes late, what was called last is the latest.              *)
InTurn(c, d) == c = None \/ d = None \/ At(past, c) <= At(past, d)
CallsInTurn ==
    ~mode.late => /\ late = {}
                  /\ InTurn(status.commit, work) /\ InTurn(status.commit, commit)
                  /\ InTurn(status.commit, call) /\ InTurn(work, commit)
                  /\ InTurn(work, call) /\ InTurn(commit, call)
                  /\ work # None => commit # None

ForwardInv == ~mode.rewinds => /\ Straight /\ Ordinary /\ GitForward /\ CallsLinked
                               /\ WorkForward /\ LiveForward /\ CallsInTurn

(* ForwardInv, where the revision does not rewind.                         *)
Forward == /\ ~mode.rewinds
           /\ Straight /\ Ordinary /\ GitForward /\ CallsLinked
           /\ WorkForward /\ LiveForward /\ CallsInTurn

LEMMA Places ==
    ASSUME WorkInv, Straight
    PROVE  /\ On(past) \subseteq Commits /\ None \notin On(past) /\ remote \in On(past)
           /\ Len(past) \in Nat
           /\ \A c \in On(past) \cup {None} : At(past, c) \in 0 .. Len(past)
           /\ \A c \in On(past) : At(past, c) > 0
           /\ At(past, None) = 0
           /\ \A c, d \in On(past) \cup {None} : At(past, c) = At(past, d) => c = d
           /\ \A c \in On(past) \cup {None} : At(past, c) <= At(past, remote)
<1>1. past \in Seq(Commits) /\ Len(past) \in Nat /\ DOMAIN past = 1 .. Len(past)
  BY DEF WorkInv, TypeOK
<1>2. On(past) \subseteq Commits
  BY <1>1 DEF On
<1>3. None \notin On(past)
  BY <1>2, PodAssumption
<1>4. Len(past) \in DOMAIN past
  BY <1>1 DEF Straight
<1>5. remote \in On(past)
  BY <1>4 DEF Straight, On
<1>6. ASSUME NEW c \in On(past)
      PROVE  At(past, c) \in 1 .. Len(past) /\ past[At(past, c)] = c
  <2>1. \E i \in DOMAIN past : past[i] = c
    BY DEF On
  <2>2. At(past, c) = CHOOSE i \in DOMAIN past : past[i] = c
    BY <1>3 DEF At
  <2>. QED BY <1>1, <2>1, <2>2
<1>7. At(past, None) = 0
  BY DEF At
<1>8. At(past, remote) = Len(past)
  BY <1>1, <1>4, <1>5, <1>6 DEF Straight
<1>. QED BY <1>1, <1>2, <1>3, <1>5, <1>6, <1>7, <1>8

LEMMA AppliedPlace ==
    ASSUME WorkInv, Straight, Ordinary
    PROVE  Applied \in 0 .. Len(past) /\ (live \in Contents => Applied > 0)
BY Places DEF Applied, Ordinary

LEMMA InitForward == Init => ForwardInv
<1> SUFFICES ASSUME Init, ~mode.rewinds
             PROVE  /\ Straight /\ Ordinary /\ GitForward /\ CallsLinked
                    /\ WorkForward /\ LiveForward /\ CallsInTurn
  BY DEF ForwardInv
<1>1. past = <<remote>> /\ Len(past) = 1 /\ DOMAIN past = {1}
  BY DEF Init
<1>2. Straight
  BY <1>1 DEF Straight
<1>3. None \notin Contents
  BY PodAssumption
<1>4. Called = {None} /\ live = None /\ content = None
  BY DEF Init, Called
<1>5. Applied = 0 /\ At(past, None) = 0
  BY <1>3, <1>4 DEF Applied, At
<1>. QED BY <1>2, <1>3, <1>4, <1>5
         DEF Init, Ordinary, GitForward, CallsLinked, WorkForward, LiveForward, CallsInTurn, InTurn

(* git-sync: the link goes from tree to tree, the trees it removes are     *)
(* older.                                                                  *)
LEMMA GitStepForward ==
    ASSUME PodInv, WorkInv, Forward, GitStep \/ GitDies
    PROVE  Forward'
<1>1. /\ UNCHANGED <<mode, remote, past, commit, queue, delayed, dpc, work, read, content, live, status>>
  BY DEF GitStep, GitStart, GitFetch, GitCheckout, GitLink, GitRemove, GitCall, GitDies, Fault, Keep,
         env, events, hook, release, deployer
<1>2. ~mode'.rewinds /\ Straight' /\ Applied' = Applied
  BY <1>1 DEF Forward, Straight, Applied
<1>3. /\ link' \in {link, target}
      /\ link' # link => gpc = "link" /\ link' = target
      /\ target' \in {target, remote, None} /\ prev' \in {prev, link, None}
      /\ late' \subseteq late \cup {call}
      /\ call' \in {call, None} \/ (gpc = "call" /\ call' = target)
  <2>1. CASE GitStart \/ GitFetch \/ GitCheckout
    BY <2>1 DEF GitStart, GitFetch, GitCheckout, hook
  <2>2. CASE GitLink \/ GitRemove
    BY <2>2 DEF GitLink, GitRemove, hook
  <2>3. CASE GitCall
    BY <2>3 DEF GitCall
  <2>4. CASE GitDies
    BY <2>4 DEF GitDies
  <2>. QED BY <2>1, <2>2, <2>3, <2>4 DEF GitStep
<1>4. At(past, link) <= At(past, link') /\ link' \in On(past) \cup {None}
  BY <1>3, Places DEF Forward, GitForward, Ordinary
<1>5. Called' \subseteq Called \cup {target, None}
  BY <1>1, <1>3 DEF Called
<1>6. Ordinary'
  BY <1>1, <1>3, <1>5, Places DEF Forward, Ordinary
<1>7. At(past, target) \in Nat /\ At(past, prev) \in Nat /\ At(past, link) \in Nat /\ At(past, link') \in Nat
  BY <1>4, Places DEF Forward, Ordinary
<1>8. GitForward'
  <2>1. CASE GitStart \/ GitDies
    BY <2>1 DEF GitStart, GitDies, GitForward
  <2>2. CASE GitFetch
    <3>1. gpc = "fetch" /\ head = link /\ link' = link /\ target' = remote
      BY <2>2 DEF GitFetch, PodInv
    <3>2. CASE head = remote
      BY <2>2, <3>1, <3>2 DEF GitFetch, GitForward
    <3>3. CASE head # remote
      <4>1. At(past, link) < At(past, remote)
        BY <3>1, <3>3, Places DEF Forward, Ordinary
      <4>. QED BY <1>1, <2>2, <3>1, <3>3, <4>1 DEF GitFetch, GitForward
    <3>. QED BY <3>2, <3>3
  <2>3. CASE GitCheckout \/ GitLink
    BY <1>1, <1>7, <2>3 DEF GitCheckout, GitLink, GitForward, Forward
  <2>4. CASE GitRemove \/ GitCall
    BY <2>4 DEF GitRemove, GitCall, GitForward, PodInv
  <2>. QED BY <2>1, <2>2, <2>3, <2>4 DEF GitStep
<1>9. CallsLinked'
  <2> SUFFICES ASSUME NEW c \in Called' PROVE At(past, c) <= At(past, link')
    BY <1>1 DEF CallsLinked
  <2>1. c \in Called \/ c = None \/ (gpc = "call" /\ c = target)
    BY <1>1, <1>3 DEF Called
  <2>2. At(past, c) \in Nat
    BY <1>6, <1>1, Places DEF Ordinary, Forward
  <2>. QED BY <1>4, <1>7, <2>1, <2>2, Places DEF CallsLinked, Forward, GitForward
<1>10. /\ cut' \in {cut, TRUE}
       /\ cut' # cut => dpc = "reading" /\ read \in Commits /\ At(past, read) < At(past, link')
  <2>1. CASE GitFetch \/ GitCheckout \/ GitLink \/ GitCall
    BY <2>1 DEF GitFetch, GitCheckout, GitLink, GitCall, deployer
  <2>2. CASE GitStart \/ GitRemove \/ GitDies
    <3>1. cut' \in {cut, TRUE} /\ link' = link
      BY <2>2 DEF GitStart, GitRemove, GitDies, Keep, WorkInv, TypeOK
    <3>2. cut' # cut => read \in Commits /\ read # link
      <4>0. cut = TRUE \/ cut = FALSE
        BY DEF WorkInv, TypeOK
      <4>1. CASE GitStart
        <5>1. cut' = (cut \/ read \in Commits \ {link})
          BY <4>1 DEF GitStart, Keep
        <5>. QED BY <4>0, <5>1
      <4>2. CASE GitRemove
        <5>1. cut' = (cut \/ read \in Commits \ (Commits \ {prev})) /\ prev # link
          BY <4>2 DEF GitRemove, Keep, PodInv
        <5>. QED BY <4>0, <5>1
      <4>3. CASE GitDies
        <5>1. cut' = cut \/ cut' = (cut \/ read \in {prev} \cap Commits)
          BY <4>3 DEF GitDies
        <5>2. prev \in Commits => prev # link
          BY PodAssumption DEF PodInv
        <5>. QED BY <4>0, <5>1, <5>2
      <4>. QED BY <2>2, <4>1, <4>2, <4>3
    <3>3. cut' # cut => dpc = "reading"
      BY <3>2, PodAssumption DEF Forward, WorkForward
    <3>4. ASSUME cut' # cut PROVE At(past, read) < At(past, link)
      <4>1. At(past, read) <= At(past, link)
        BY <3>3, <3>4 DEF Forward, WorkForward, Newer
      <4>2. read \in On(past) \cup {None} /\ link \in On(past) \cup {None}
        BY DEF Forward, Ordinary
      <4>3. At(past, read) # At(past, link)
        BY <3>2, <3>4, <4>2, Places DEF Forward
      <4>. QED BY <1>7, <4>1, <4>2, <4>3, Places DEF Forward
    <3>. QED BY <3>1, <3>2, <3>3, <3>4
  <2>. QED BY <2>1, <2>2 DEF GitStep
<1>11. WorkForward'
  <2>1. ASSUME NEW c \in On(past) \cup {None}, At(past, c) <= At(past, link)
        PROVE  /\ At(past, c) <= At(past, link')
               /\ At(past, c) < At(past, link) => At(past, c) < At(past, link')
    BY <1>4, <1>7, <2>1, Places DEF Forward
  <2>2. read \in On(past) \cup {None} /\ (content \in Contents => content.tree \in On(past))
    BY DEF Forward, Ordinary
  <2>3. ASSUME NEW c \in On(past) \cup {None}, Newer(c)
        PROVE  /\ At(past, work') <= At(past, c) /\ At(past, status'.commit) <= At(past, c)
               /\ Applied' <= At(past, c) /\ At(past, c) <= At(past, link')
    BY <1>1, <1>2, <2>1, <2>3 DEF Newer
  <2>4. dpc' = "reading" => /\ At(past, work') <= At(past, read') /\ At(past, status'.commit) <= At(past, read')
                            /\ Applied' <= At(past, read') /\ At(past, read') <= At(past, link')
                            /\ cut' => At(past, read') < At(past, link')
    BY <1>1, <1>10, <2>1, <2>2, <2>3 DEF Forward, WorkForward, Newer
  <2>5. dpc' # "reading" => read' = None /\ cut' = FALSE
    BY <1>1, <1>10 DEF Forward, WorkForward
  <2>6. dpc' = "run" => /\ content' \in Contents
                        /\ At(past, work') <= At(past, content'.tree)
                        /\ At(past, status'.commit) <= At(past, content'.tree)
                        /\ Applied' <= At(past, content'.tree) /\ At(past, content'.tree) <= At(past, link')
                        /\ ~content'.whole => At(past, content'.tree) < At(past, link')
    BY <1>1, <2>1, <2>2, <2>3 DEF Forward, WorkForward, Newer
  <2>7. dpc' = "report" => live' \in Contents /\ At(past, work') <= Applied'
    BY <1>1, <1>2 DEF Forward, WorkForward
  <2>. QED BY <1>1, <2>4, <2>5, <2>6, <2>7 DEF WorkForward, Newer
<1>12. LiveForward'
  BY <1>1, <1>2, <1>4, <1>7, AppliedPlace DEF LiveForward, Forward
<1>13. CallsInTurn'
  <2> SUFFICES ASSUME ~mode.late PROVE CallsInTurn'
    BY <1>1 DEF CallsInTurn
  <2>1. late' = {}
    BY DEF Forward, CallsInTurn, GitStep, GitStart, GitFetch, GitCheckout, GitLink, GitRemove, GitCall,
           GitDies, hook
  <2>2. CASE call' \in {call, None}
    BY <1>1, <2>1, <2>2 DEF CallsInTurn, InTurn, Forward
  <2>3. CASE call' = link
    <3>1. \A c \in {status.commit, work, commit} : At(past, c) <= At(past, link)
      BY DEF Forward, CallsLinked, Called
    <3>. QED BY <1>1, <2>1, <2>3, <3>1 DEF CallsInTurn, InTurn, Forward
  <2>. QED BY <1>3, <2>2, <2>3 DEF Forward, GitForward
<1>. QED BY <1>2, <1>6, <1>8, <1>9, <1>11, <1>12, <1>13 DEF Forward

(* No other process writes the volume or the revision: what is left to     *)
(* show of a step.                                                         *)
LEMMA OthersForward ==
    ASSUME WorkInv, Forward, UNCHANGED <<mode, remote, past, git>>,
           Called' \subseteq Called \cup {None},
           read' \in {read, link, None},
           content' \in Contents => content'.tree \in On(past),
           live' \in Contents => live'.tree \in On(past),
           WorkForward', LiveForward', CallsInTurn'
    PROVE  Forward'
<1>1. UNCHANGED <<mode, remote, past, link, target, prev, gpc>>
  BY DEF git
<1>2. Straight' /\ GitForward'
  BY <1>1 DEF Forward, Straight, GitForward
<1>3. Ordinary'
  BY <1>1 DEF Forward, Ordinary
<1>4. CallsLinked'
  <2>1. At(past, None) <= At(past, link)
    BY Places DEF Forward, Ordinary
  <2>. QED BY <1>1, <2>1 DEF Forward, CallsLinked
<1>. QED BY <1>1, <1>2, <1>3, <1>4 DEF Forward

LEMMA HookForward ==
    ASSUME WorkInv, Forward, Deliver \/ DeliverAgain \/ DeliverLate \/ GitFatal
    PROVE  Forward'
<1>1. UNCHANGED <<mode, remote, past, git, dpc, work, read, cut, content, live, status, succeeded>>
  BY DEF Deliver, DeliverAgain, DeliverLate, GitFatal, Fault, env, git, deployer, release
<1>2. Called' \subseteq Called \cup {None}
  <2>1. CASE Deliver \/ DeliverAgain
    BY <1>1, <2>1 DEF Deliver, DeliverAgain, Listen, Called, hook, events
  <2>2. CASE DeliverLate \/ GitFatal
    BY <1>1, <2>2 DEF DeliverLate, GitFatal, Listen, Called, hook, events
  <2>. QED BY <2>1, <2>2
<1>3. Applied' = Applied
  BY <1>1 DEF Applied
<1>4. WorkForward' /\ LiveForward'
  BY <1>1, <1>3 DEF Forward, WorkForward, LiveForward, Newer, git
<1>5. CallsInTurn'
  <2>1. CASE Deliver \/ DeliverAgain
    <3>1. call # None /\ commit' = call /\ call' \in {call, None} /\ late' = late
      BY <2>1 DEF Deliver, DeliverAgain, Listen, hook
    <3>2. At(past, call) \in Nat
      BY Places DEF Forward, Ordinary, Called
    <3>. QED BY <1>1, <3>1, <3>2 DEF CallsInTurn, InTurn, Forward
  <2>2. CASE DeliverLate \/ GitFatal
    BY <1>1, <2>2 DEF DeliverLate, GitFatal, Listen, CallsInTurn, InTurn, Forward, hook, events
  <2>. QED BY <2>1, <2>2
<1>. QED BY <1>1, <1>2, <1>4, <1>5, OthersForward DEF Forward, Ordinary

LEMMA DeployerForward ==
    ASSUME WorkInv, Forward, DeployerStep
    PROVE  Forward'
<1>1. UNCHANGED <<mode, remote, past, git, call, late, commit, delayed>>
  BY DEF DeployerStep, Begins, Takes, Opens, Reads, Runs, ReportsDeployed, ReportsChecked,
         env, hook, events
<1>2. read \in On(past) \cup {None} /\ link \in On(past) \cup {None} /\ link' = link
  BY <1>1 DEF Forward, Ordinary, git
<1>3. CASE Begins
  <2>1. UNCHANGED <<queue, work, read, cut, content, live, status>> /\ Applied' = Applied
    BY <1>1, <1>3 DEF Begins, events, release, Applied
  <2>. QED BY <1>1, <1>2, <1>3, <2>1, OthersForward
           DEF Begins, Called, Forward, Ordinary, WorkForward, LiveForward, CallsInTurn, InTurn
<1>4. CASE Takes
  <2>1. PICK c \in queue :
          /\ queue' = queue \ {c}
          /\ IF c = commit
             THEN dpc' = "init" /\ work' = c /\ UNCHANGED <<read, cut, content>>
             ELSE Rest("idle")
    BY <1>4 DEF Takes
  <2>2. UNCHANGED <<live, status>> /\ dpc = "idle" /\ Applied' = Applied
    BY <1>1, <1>4 DEF Takes, release, Applied
  <2>3. c # None /\ read = None /\ cut = FALSE
    BY <2>1, <2>2, PodAssumption DEF WorkInv, TypeOK, Forward, WorkForward
  <2>4. dpc' \in {"init", "idle"} /\ read' = None /\ cut' = FALSE /\ content' \in {content, None}
    BY <2>1, <2>3 DEF Rest
  <2>5. work' = None \/ (work' = c /\ c = commit)
    BY <2>1 DEF Rest
  <2>6. At(past, commit) \in Nat
    BY Places DEF Forward, Ordinary, Called
  <2>7. CallsInTurn'
    BY <1>1, <2>2, <2>3, <2>5, <2>6 DEF Forward, CallsInTurn, InTurn
  <2>8. WorkForward' /\ LiveForward'
    BY <1>1, <1>2, <2>2, <2>4 DEF Forward, WorkForward, LiveForward
  <2>9. Called' \subseteq Called \cup {None}
    BY <1>1, <2>1, <2>2, <2>5 DEF Called
  <2>10. /\ content' \in Contents => content'.tree \in On(past)
         /\ live' \in Contents => live'.tree \in On(past)
    BY <2>2, <2>4, PodAssumption DEF Forward, Ordinary
  <2>. QED BY <1>1, <2>4, <2>7, <2>8, <2>9, <2>10, OthersForward
<1>5. CASE Opens
  <2>1. UNCHANGED <<queue, work, cut, content, live, status>> /\ Applied' = Applied
    BY <1>1, <1>5 DEF Opens, events, release, Applied
  <2>2. dpc = "init" /\ dpc' = "reading" /\ read' = link /\ cut = FALSE
    BY <1>5 DEF Opens, Forward, WorkForward
  <2>3. Called' = Called /\ CallsInTurn'
    BY <1>1, <2>1 DEF Called, Forward, CallsInTurn, InTurn
  <2>4. At(past, work) <= At(past, link) /\ At(past, status.commit) <= At(past, link)
    BY DEF Forward, CallsLinked, Called
  <2>5. At(past, link) \in Nat
    BY <1>2, Places DEF Forward
  <2>6. WorkForward' /\ LiveForward'
    BY <1>1, <1>2, <2>1, <2>2, <2>4, <2>5 DEF Forward, WorkForward, LiveForward, Newer
  <2>. QED BY <1>1, <2>1, <2>2, <2>3, <2>6, OthersForward DEF Forward, Ordinary
<1>6. CASE Reads
  <2>1. UNCHANGED <<queue, live, status>> /\ Applied' = Applied /\ dpc = "reading"
    BY <1>1, <1>6 DEF Reads, events, release, Applied
  <2>2. /\ dpc' \in {"run", "idle", "test"} /\ read' = None /\ cut' = FALSE /\ work' \in {work, None}
        /\ dpc' = "run" => work' = work /\ content' = Rendered
        /\ content' \in {Rendered, None}
    BY <1>6 DEF Reads, Work, Rest
  <2>3. Rendered \in Contents /\ Rendered.tree = read /\ Rendered.whole = ~cut /\ read \in On(past)
    BY <1>2, <2>1, PodAssumption DEF Rendered, Contents, WorkInv, TypeOK
  <2>4. Called' \subseteq Called \cup {None}
    BY <1>1, <2>1, <2>2 DEF Called
  <2>5. CallsInTurn'
    BY <1>1, <2>1, <2>2 DEF Forward, CallsInTurn, InTurn
  <2>6. WorkForward' /\ LiveForward'
    BY <1>1, <1>2, <2>1, <2>2, <2>3 DEF Forward, WorkForward, LiveForward, Newer
  <2>7. /\ content' \in Contents => content'.tree \in On(past)
        /\ live' \in Contents => live'.tree \in On(past)
    BY <2>1, <2>2, <2>3, PodAssumption DEF Forward, Ordinary
  <2>. QED BY <1>1, <2>2, <2>4, <2>5, <2>6, <2>7, OthersForward
<1>7. CASE Runs
  <2>1. /\ UNCHANGED <<queue, work, status>> /\ live' = content /\ content \in Contents
        /\ dpc = "run" /\ dpc' = "report" /\ read' = None /\ cut' = FALSE /\ content' = None
    BY <1>7 DEF Runs, Work, events, Forward, WorkForward
  <2>2. content.tree \in On(past) /\ Newer(content.tree)
    BY <2>1 DEF Forward, WorkForward, Ordinary
  <2>3. Applied' = At(past, content.tree)
    BY <1>1, <2>1 DEF Applied
  <2>4. Called' = Called /\ CallsInTurn'
    BY <1>1, <2>1 DEF Called, Forward, CallsInTurn, InTurn
  <2>5. WorkForward' /\ LiveForward'
    BY <1>1, <1>2, <2>1, <2>2, <2>3 DEF Forward, WorkForward, LiveForward, Newer
  <2>. QED BY <1>1, <2>1, <2>2, <2>4, <2>5, OthersForward, PodAssumption
<1>8. CASE ReportsDeployed
  <2>1. /\ UNCHANGED <<queue, work, live>> /\ status'.commit = work /\ Applied' = Applied
        /\ dpc = "report" /\ dpc' = "test" /\ read' = None /\ cut' = FALSE /\ content' = None
    BY <1>1, <1>8 DEF ReportsDeployed, Work, events, Applied
  <2>2. Called' \subseteq Called
    BY <1>1, <2>1 DEF Called
  <2>3. At(past, work) \in Nat
    BY Places DEF Forward, Ordinary, Called
  <2>4. CallsInTurn'
    BY <1>1, <2>1, <2>3 DEF Forward, CallsInTurn, InTurn
  <2>5. WorkForward' /\ LiveForward'
    BY <1>1, <1>2, <2>1 DEF Forward, WorkForward, LiveForward
  <2>. QED BY <1>1, <2>1, <2>2, <2>4, <2>5, OthersForward, PodAssumption DEF Forward, Ordinary
<1>9. CASE ReportsChecked
  <2>1. /\ UNCHANGED <<queue, live>> /\ work' = None /\ Applied' = Applied
        /\ dpc' = "idle" /\ read' = None /\ cut' = FALSE /\ content' = None
    BY <1>1, <1>9 DEF ReportsChecked, Rest, events, Applied
  <2>2. status'.commit = status.commit
    BY <1>9 DEF ReportsChecked, WorkInv, TypeOK
  <2>3. Called' \subseteq Called \cup {None}
    BY <1>1, <2>1, <2>2 DEF Called
  <2>4. CallsInTurn'
    BY <1>1, <2>1, <2>2 DEF Forward, CallsInTurn, InTurn
  <2>5. WorkForward' /\ LiveForward'
    BY <1>1, <1>2, <2>1, <2>2 DEF Forward, WorkForward, LiveForward
  <2>. QED BY <1>1, <2>1, <2>3, <2>4, <2>5, OthersForward, PodAssumption DEF Forward, Ordinary
<1>. QED BY <1>3, <1>4, <1>5, <1>6, <1>7, <1>8, <1>9 DEF DeployerStep

(* A Run that ends early leaves what was live, a part, or what it rendered.*)
LEMMA DeathForward ==
    ASSUME WorkInv, Forward, Fails \/ DeployerDies
    PROVE  Forward'
<1>1. /\ UNCHANGED <<mode, remote, past, git, call, late, status>>
      /\ dpc' \in {"idle", "waiting"} /\ work' = None /\ read' = None /\ cut' = FALSE /\ content' = None
      /\ commit' \in {commit, None} /\ queue' \subseteq queue /\ delayed' \subseteq delayed \cup {work}
  BY DEF Fails, DeployerDies, Fault, Rest, hook
<1>2. \/ live' = live \/ live' = Mixed
      \/ dpc = "run" /\ live' = content
  BY DEF Fails, DeployerDies, Interrupted
<1>3. link' = link /\ link \in On(past) \cup {None}
  BY <1>1 DEF Forward, Ordinary, git
<1>4. Called' \subseteq Called \cup {None}
  BY <1>1 DEF Called
<1>5. CallsInTurn'
  BY <1>1 DEF Forward, CallsInTurn, InTurn
<1>6. LiveForward'
  <2>1. CASE live' = live
    BY <1>1, <1>3, <2>1 DEF Forward, LiveForward, Applied
  <2>2. CASE live' = Mixed
    BY <1>1, <1>3, <2>2, PodAssumption, Places DEF Forward, LiveForward, Applied
  <2>3. CASE dpc = "run" /\ live' = content
    BY <1>1, <1>3, <2>3 DEF Forward, LiveForward, WorkForward, Newer, Applied
  <2>. QED BY <1>2, <2>1, <2>2, <2>3
<1>7. WorkForward'
  BY <1>1 DEF WorkForward
<1>8. live' \in Contents => live'.tree \in On(past)
  BY <1>2, PodAssumption DEF Forward, Ordinary
<1>. QED BY <1>1, <1>4, <1>5, <1>6, <1>7, <1>8, OthersForward, PodAssumption

(* A push adds a commit after all others, whose places stay.               *)
LEMMA PushForward ==
    ASSUME WorkInv, Forward, Push
    PROVE  /\ Forward' /\ Len(past') = Len(past) + 1
           /\ \A c \in On(past) \cup {None} : At(past', c) = At(past, c)
<1>1. PICK c \in Commits : /\ \A i \in DOMAIN past : past[i] # c
                           /\ remote' = c /\ past' = Append(past, c)
  BY DEF Push, Forward
<1>2. UNCHANGED <<mode, git, call, late, commit, queue, delayed, dpc, work, read, cut, content, live, status>>
  BY DEF Push, hook, events, deployer, release
<1>3. past \in Seq(Commits) /\ Len(past) \in Nat /\ DOMAIN past = 1 .. Len(past)
  BY DEF WorkInv, TypeOK
<1>4. /\ Len(past') = Len(past) + 1 /\ DOMAIN past' = 1 .. Len(past) + 1
      /\ \A i \in DOMAIN past : past'[i] = past[i]
      /\ past'[Len(past) + 1] = c
  BY <1>1, <1>3
<1>5. Straight'
  BY <1>1, <1>3, <1>4 DEF Forward, Straight
<1>6. On(past) \subseteq On(past')
  BY <1>3, <1>4 DEF On
<1>7. ASSUME NEW d \in On(past) \cup {None} PROVE At(past', d) = At(past, d)
  <2>1. CASE d = None
    BY <2>1 DEF At
  <2>2. CASE d # None
    <3>1. PICK i \in DOMAIN past : past[i] = d
      BY <2>2 DEF On
    <3>2. past'[i] = d /\ i \in DOMAIN past'
      BY <1>3, <1>4, <3>1
    <3>3. \A j \in DOMAIN past : past[j] = d => j = i
      BY <3>1 DEF Forward, Straight
    <3>4. \A j \in DOMAIN past' : past'[j] = d => j = i
      BY <1>5, <3>2 DEF Straight
    <3>. QED BY <2>2, <3>1, <3>2, <3>3, <3>4 DEF At
  <2>. QED BY <2>1, <2>2
<1>8. Ordinary'
  BY <1>2, <1>6 DEF Forward, Ordinary, Called, git
<1>9. Applied' = Applied
  BY <1>2, <1>7 DEF Applied, Forward, Ordinary
<1>10. \A d \in Called : At(past', d) = At(past, d)
  BY <1>7 DEF Forward, Ordinary
<1>11. /\ At(past', link) = At(past, link) /\ At(past', target) = At(past, target)
       /\ At(past', prev) = At(past, prev) /\ At(past', read) = At(past, read)
       /\ At(past', work) = At(past, work) /\ At(past', commit) = At(past, commit)
       /\ At(past', call) = At(past, call) /\ At(past', status.commit) = At(past, status.commit)
       /\ content \in Contents => At(past', content.tree) = At(past, content.tree)
  BY <1>7 DEF Forward, Ordinary, Called
<1>12. GitForward' /\ CallsLinked'
  BY <1>2, <1>10, <1>11 DEF Forward, GitForward, CallsLinked, Called, git
<1>13. LiveForward' /\ CallsInTurn'
  BY <1>2, <1>9, <1>11 DEF Forward, LiveForward, CallsInTurn, InTurn, git
<1>14. WorkForward'
  BY <1>2, <1>9, <1>11 DEF Forward, WorkForward, Newer, git
<1>. QED BY <1>2, <1>4, <1>5, <1>7, <1>8, <1>12, <1>13, <1>14 DEF Forward

LEMMA NextForward == PodInv /\ WorkInv /\ ForwardInv /\ [Next]_vars => ForwardInv'
<1> SUFFICES ASSUME PodInv, WorkInv, ForwardInv, [Next]_vars, ~mode'.rewinds PROVE Forward'
  BY DEF Forward, ForwardInv
<1>1. mode' = mode
  BY DEF Next, GitStep, GitStart, GitFetch, GitCheckout, GitLink, GitRemove, GitCall, Deliver,
         DeliverAgain, DeliverLate, DeployerStep, Begins, Takes, Opens, Reads, Runs, ReportsDeployed,
         ReportsChecked, Fails, Requeues, PhaseFollows, Push, GitDies, GitFatal, DeployerDies, Fault,
         env, vars
<1>2. Forward
  BY <1>1 DEF Forward, ForwardInv
<1>3. CASE Requeues \/ PhaseFollows \/ UNCHANGED vars
  <2>1. /\ UNCHANGED <<mode, remote, past, git, call, late, commit, dpc, work, read, cut, content, live>>
        /\ status' = status
    BY <1>3 DEF Requeues, PhaseFollows, env, hook, events, deployer, release, vars
  <2>2. Called' \subseteq Called
    BY <1>3, <2>1 DEF Requeues, PhaseFollows, Called, events, vars
  <2>3. WorkForward' /\ LiveForward' /\ CallsInTurn'
    BY <1>2, <2>1 DEF Forward, WorkForward, Newer, LiveForward, Applied, CallsInTurn, InTurn, git
  <2>. QED BY <1>2, <2>1, <2>2, <2>3, OthersForward DEF Forward, Ordinary
<1>. QED BY <1>2, <1>3, GitStepForward, HookForward, DeployerForward, DeathForward, PushForward DEF Next

LEMMA ForwardAlways == Spec => []ForwardInv
BY InitForward, NextForward, PodAlways, WorkAlways, PTL DEF Spec

(* What each step is to Rollout. *)
Part == live \in Contents /\ ~live.whole
Promised == <<Len(past), At(past, link), Applied, Part, At(past, status.commit)>>

(* git-sync moves the link forward or leaves what Rollout sees alone.      *)
LEMMA GitRolls ==
    ASSUME PodInv, WorkInv, Forward, GitStep \/ GitDies
    PROVE  Roll!Follow \/ UNCHANGED Promised
<1>1. UNCHANGED <<past, live, status>>
  BY DEF GitStep, GitStart, GitFetch, GitCheckout, GitLink, GitRemove, GitCall, GitDies, Fault,
         env, release
<1>2. UNCHANGED <<Len(past), Applied, Part, At(past, status.commit)>>
  BY <1>1 DEF Applied, Part
<1>3. CASE GitLink
  <2>1. link' = target /\ At(past, link) < At(past, target)
    BY <1>3 DEF GitLink, Forward, GitForward
  <2>2. At(past, target) <= Len(past) /\ At(past, target) \in Nat /\ At(past, link) \in Nat
    BY Places DEF Forward, Ordinary
  <2>. QED BY <1>1, <1>2, <2>1, <2>2 DEF Roll!Follow, Part
<1>4. CASE link' = link
  BY <1>1, <1>2, <1>4 DEF Promised
<1>. QED BY <1>3, <1>4
         DEF GitStep, GitStart, GitFetch, GitCheckout, GitRemove, GitCall, GitDies

(* What a Run leaves: the tree it read, a part, or what was live.          *)
LEMMA RunRolls ==
    ASSUME WorkInv, Forward, Runs \/ Fails \/ DeployerDies
    PROVE  Roll!Apply \/ Roll!Break \/ UNCHANGED Promised
<1>1. UNCHANGED <<past, link, status>> /\ status'.commit = status.commit
  BY DEF Runs, Fails, DeployerDies, Fault, env, git
<1>2. \/ live' = live \/ live' = Mixed
      \/ dpc = "run" /\ live' = content
  BY DEF Runs, Fails, DeployerDies, Interrupted
<1>3. CASE live' = live
  BY <1>1, <1>3 DEF Promised, Applied, Part
<1>4. CASE live' = Mixed
  <2>1. Applied' = 0 /\ Part' = FALSE
    BY <1>4, PodAssumption DEF Applied, Part
  <2>. QED BY <1>1, <2>1 DEF Roll!Break, Part
<1>5. CASE dpc = "run" /\ live' = content
  <2>1. /\ content \in Contents /\ content.tree \in On(past) /\ content.whole \in BOOLEAN
        /\ Newer(content.tree) /\ (~content.whole => At(past, content.tree) < At(past, link))
    BY <1>5 DEF Forward, WorkForward, Ordinary, Contents
  <2>2. Applied' = At(past, content.tree) /\ Part' = ~content.whole
    BY <1>1, <1>5, <2>1 DEF Applied, Part
  <2>3. At(past, content.tree) \in Nat \ {0} /\ At(past, link) \in Nat
    BY <2>1, Places DEF Forward, Ordinary
  <2>. QED BY <1>1, <2>1, <2>2, <2>3 DEF Roll!Apply, Part, Newer
<1>. QED BY <1>2, <1>3, <1>4, <1>5

(* A commit is reported that is applied, or older than what is.            *)
LEMMA ReportRolls ==
    ASSUME WorkInv, Forward, ReportsDeployed
    PROVE  Roll!Report
<1>1. /\ UNCHANGED <<past, link, live>> /\ status'.commit = work
      /\ dpc = "report" /\ work \in Commits
  BY DEF ReportsDeployed, env, git, WorkInv
<1>2. /\ At(past, work) <= Applied /\ At(past, work) \in Nat \ {0} /\ Applied \in Nat
  BY <1>1, Places, AppliedPlace, PodAssumption DEF Forward, Ordinary, Called, WorkForward
<1>3. ~mode.late => At(past, status.commit) <= At(past, work)
  <2>1. At(past, None) <= At(past, work)
    BY <1>2, Places DEF Forward
  <2>. QED BY <1>1, <2>1, PodAssumption DEF Forward, CallsInTurn, InTurn
<1>. QED BY <1>1, <1>2, <1>3 DEF Roll!Report, Applied

(* Whatever dies, fails, is repeated or comes late: while the revision     *)
(* moves forward, the link, what is applied and what is reported follow it *)
(* in this order and never go back, as Rollout says of the pod.            *)
THEOREM AlwaysRollsOut == Spec => RollsOut
<1>1. Init => Roll!Init
  <2> SUFFICES ASSUME Init PROVE Roll!Init
    OBVIOUS
  <2>1. Len(past) = 1 /\ link = None /\ status.commit = None /\ live = None
    BY DEF Init
  <2>2. At(past, None) = 0 /\ Applied = 0 /\ Part = FALSE
    BY <2>1, PodAssumption DEF At, Applied, Part
  <2>. QED BY <2>1, <2>2 DEF Roll!Init, Part
<1>2. PodInv /\ WorkInv /\ ForwardInv /\ [Next]_vars
        => [Roll!Next]_<<mode, Len(past), At(past, link), Applied, Part, At(past, status.commit)>>
  <2> SUFFICES ASSUME PodInv, WorkInv, ForwardInv, [Next]_vars
               PROVE  Roll!Next \/ (mode' = mode /\ UNCHANGED Promised)
    BY DEF Promised
  <2>1. mode' = mode
    BY DEF Next, GitStep, GitStart, GitFetch, GitCheckout, GitLink, GitRemove, GitCall, Deliver,
           DeliverAgain, DeliverLate, DeployerStep, Begins, Takes, Opens, Reads, Runs, ReportsDeployed,
           ReportsChecked, Fails, Requeues, PhaseFollows, Push, GitDies, GitFatal, DeployerDies, Fault,
           env, vars
  <2>2. CASE mode.rewinds
    BY <2>1, <2>2 DEF Roll!Next
  <2>3. CASE ~mode.rewinds
    <3>0. Forward
      BY <2>3 DEF Forward, ForwardInv
    <3>1. CASE GitStep \/ GitDies
      BY <2>1, <3>0, <3>1, GitRolls DEF Roll!Next
    <3>2. CASE Runs \/ Fails \/ DeployerDies
      BY <2>1, <3>0, <3>2, RunRolls DEF Roll!Next
    <3>3. CASE ReportsDeployed
      BY <2>1, <3>0, <3>3, ReportRolls DEF Roll!Next
    <3>4. CASE Push
      <4>1. UNCHANGED <<link, live, status>>
        BY <3>4 DEF Push, git, release
      <4>2. Len(past') = Len(past) + 1 /\ \A c \in On(past) \cup {None} : At(past', c) = At(past, c)
        BY <3>0, <3>4, PushForward
      <4>3. UNCHANGED <<At(past, link), Applied, Part, At(past, status.commit)>>
        BY <3>0, <4>1, <4>2 DEF Forward, Ordinary, Called, Applied, Part
      <4>. QED BY <2>1, <4>2, <4>3 DEF Roll!Next, Roll!Push, Part
    <3>5. CASE ReportsChecked
      <4>1. UNCHANGED <<past, link, live>> /\ status'.commit = status.commit
        BY <3>5 DEF ReportsChecked, env, git, WorkInv, TypeOK
      <4>. QED BY <2>1, <4>1 DEF Promised, Applied, Part
    <3>6. CASE \/ Deliver \/ DeliverAgain \/ DeliverLate \/ GitFatal \/ Requeues \/ PhaseFollows
               \/ Begins \/ Takes \/ Opens \/ Reads \/ UNCHANGED vars
      <4>1. UNCHANGED <<past, link, live, status>>
        BY <3>6 DEF Deliver, DeliverAgain, DeliverLate, GitFatal, Requeues, PhaseFollows,
                    Begins, Takes, Opens, Reads, Fault, env, git, release, vars
      <4>. QED BY <2>1, <4>1 DEF Promised, Applied, Part
    <3>. QED BY <3>1, <3>2, <3>3, <3>4, <3>5, <3>6 DEF Next, DeployerStep
  <2>. QED BY <2>2, <2>3
<1>. QED BY <1>1, <1>2, PodAlways, WorkAlways, ForwardAlways, PTL DEF Spec, RollsOut, Roll!Spec, Part
=============================================================================
