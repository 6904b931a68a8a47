--------------------------- MODULE EventController ---------------------------
(****************************************************************************)
(* The calendar's controller (pkg/controller/calendar): workers take events *)
(* from a queue and lead each through the pipelines of its calendar.        *)
(*                                                                          *)
(* Events of the same name take turns by a lease (event.go), events of the  *)
(* same group elect a leader by another lease, run the Always pipelines     *)
(* each for itself and leave the LeaderOnly ones to the leader (group.go),  *)
(* and an event may run after events of other names.  The controller reads  *)
(* events and PipelineRuns from caches that lag, leases from the API        *)
(* server, and writes one status per call.                                  *)
(*                                                                          *)
(* What waits for a time (the offset of a pipeline, hours, the 15 and the   *)
(* 30 seconds) is a step that happens later; parameters and results are     *)
(* left out.                                                                *)
(****************************************************************************)
EXTENDS CalendarTime, FiniteSets

CONSTANTS
  Events,      \* names of the ReleaseEvent objects; never used twice
  Labels,      \* what NameOfEvent says
  Groups,      \* spec.group
  Pipelines,   \* keys of the template: pipelines and rollbacks
  Workers,     \* Run(threadiness): cmd/calendar/main.go starts 2
  Plans        \* calendars with their events' specs

None == "none"
Now == 24

Terminal == {"Completed", "Failed", "Cancelled"}
Phases == {"", "Pending", "Running"} \cup Terminal
Statuses == {"none", "Pending", "Running", "Completed", "Cancelled", "Failed", "Rollback"}
RunStates == {"Running", "Cancelling"} \cup Terminal

(* A plan: the calendar's pipelines, days and group policy, and for each    *)
(* event its name, its group, what it runs after, its time (0: none given)  *)
(* and its creationTimestamp.  "comes" says which events are created,       *)
(* "fails" whether runs may, and "bound" bounds crashes and users.          *)
Stages == [name : Pipelines, leaderOnly : BOOLEAN, ignoreAfter : BOOLEAN,
           rollback : Pipelines \cup {None}, auto : BOOLEAN]
Afters == [name : Labels, pipeline : Pipelines \cup {None}, offset : [hours : Int, at : 0 .. 24]]

IsPlan(p) ==
  /\ p.stages \in Seq(Stages)
  /\ p.daily \in BOOLEAN /\ p.fails \in BOOLEAN
  /\ p.label \in [Events -> Labels]
  /\ p.group \in [Events -> Groups \cup {None}]
  /\ p.after \in [Events -> SUBSET Afters] /\ \A e \in Events : IsFiniteSet(p.after[e])
  /\ p.time \in [Events -> Nat] /\ p.comes \subseteq Events
  /\ p.born \in [Events -> Nat]
  /\ p.cal.weekdays \subseteq [from : 0 .. 6, to : 0 .. 6] /\ p.cal.skipDays \subseteq Nat
  /\ IsFiniteSet(p.cal.skipDays) /\ Searchable(p.cal)
  /\ p.bound \in [crashes : Nat, asks : Nat, deletes : Nat]

ASSUME EventAssumption ==
  /\ None \notin Events \cup Labels \cup Groups \cup Pipelines /\ IsFiniteSet(Events)
  /\ \A p \in Plans : IsPlan(p)

VARIABLES
  plan,    \* the calendar and the specs of its events
  live,    \* the events in the API server
  gone,    \* the events that were deleted
  api,     \* status of each event
  known,   \* the events in the controller's cache
  cache,   \* their status there
  fresh,   \* the events whose cached version is the one of the API server
  holder,  \* lease of a name: its holder
  leader,  \* lease of a group: its holder
  runs,    \* PipelineRuns made for an event and a pipeline, by generated name
  seen,    \* the same in the cache
  queue,   \* keys in the workqueue
  worker,  \* where each worker is
  left     \* what users and crashes may still do

resources == <<live, gone, api, holder, leader, runs>>
caches == <<known, cache, fresh, seen>>
vars == <<plan, resources, caches, queue, worker, left>>

NoEntry == [status |-> "none", id |-> 0]
Entries == [status : Statuses, id : Nat]
EventStatuses == [phase : Phases, time : Nat, leader : Events \cup {None},
                  entry : [Pipelines -> Entries]]
NewStatus == [phase |-> "", time |-> 0, leader |-> None, entry |-> [p \in Pipelines |-> NoEntry]]

Idle == [pc |-> "idle", event |-> None, copy |-> NewStatus, current |-> FALSE, stage |-> 0]

Init ==
  /\ plan \in Plans
  /\ live = {} /\ gone = {}
  /\ api = [e \in Events |-> NewStatus]
  /\ known = {} /\ cache = api /\ fresh = {}
  /\ holder = [n \in Labels |-> None] /\ leader = [g \in Groups |-> None]
  /\ runs = [e \in Events |-> [p \in Pipelines |-> <<>>]] /\ seen = runs
  /\ queue = {} /\ worker = [w \in Workers |-> Idle]
  /\ left = plan.bound

-----------------------------------------------------------------------------
(* What the specs say. *)

SameLabel(e, f) == plan.label[e] = plan.label[f]
SameGroup(e, f) == plan.group[e] # None /\ plan.group[e] = plan.group[f]
RunsAfter(e, n) == \E a \in plan.after[e] : a.name = n
Stage(i) == plan.stages[i]
Indexes == DOMAIN plan.stages

Concerned_NotTheName(e, status, present, statuses) ==
  {e} \cup ({status.leader} \ {None})
      \cup {f \in present : statuses[f].leader = e \/ RunsAfter(f, plan.label[e]) \/ SameGroup(f, e)}

(* enqueueEvent: whom a change of e concerns, as the cache has it. *)
Concerned(e, status, present, statuses) ==
  {e} \cup ({status.leader} \ {None})
      \cup {f \in present : SameLabel(e, f) \/ statuses[f].leader = e
                            \/ RunsAfter(f, plan.label[e]) \/ SameGroup(f, e)}

-----------------------------------------------------------------------------
(* syncHandler before the lease: time and phase. *)

(* probeTime: the time of the spec, or the one found before, or now; a      *)
(* pending event does not start before those it runs after, and as long as  *)
(* one of them has no time its own stays as it is                           *)
ProbeTime(e, s) ==
  LET own == IF plan.time[e] # 0 THEN plan.time[e] ELSE IF s.time # 0 THEN s.time ELSE Now
      before == {f \in known : RunsAfter(e, plan.label[f])}
      from == {x \in before \X plan.after[e] : x[2].name = plan.label[x[1]]}
      times == {own} \cup {TimeWithOffset(cache[x[1]].time, x[2].offset, plan.cal) : x \in from} IN
  IF s.phase \notin {"", "Pending"} THEN own
  ELSE IF \E f \in before : cache[f].time = 0 THEN s.time
  ELSE Greatest(times)

ProbePhase_Skipped(e, s) == IF s.leader \in {None, e} THEN s.phase ELSE "Skipped"

(* probePhase *)
ProbePhase(e, s) ==
  IF \A p \in Pipelines : s.entry[p].status = "none" THEN "Pending"
  ELSE IF /\ s.leader \notin {None, e}
          /\ \A i \in Indexes : Stage(i).leaderOnly
                                  \/ s.entry[Stage(i).name].status = "Completed"
       THEN "Completed"
       ELSE s.phase

Probe(e, s) == [phase |-> ProbePhase(e, s), time |-> ProbeTime(e, s), leader |-> s.leader, entry |-> s.entry]

-----------------------------------------------------------------------------
(* How a step of a worker ends. *)

Goes(w, pc, s, stage) ==
  /\ worker' = [worker EXCEPT ![w] = [pc |-> pc, event |-> @.event, copy |-> s,
                                      current |-> @.current, stage |-> stage]]
  /\ UNCHANGED <<api, fresh, queue>>
Move(w, pc) == Goes(w, pc, worker[w].copy, worker[w].stage)

(* No error: the queue waits for an event that concerns the key. *)
Leave(w) == worker' = [worker EXCEPT ![w] = Idle] /\ UNCHANGED <<api, fresh, queue>>

(* An error: AddRateLimited. *)
Fail(w) ==
  /\ worker' = [worker EXCEPT ![w] = Idle]
  /\ queue' = queue \cup {worker[w].event}
  /\ UNCHANGED <<api, fresh>>

(* The next pipeline, if this one is done. *)
Pass(w) == Goes(w, "stage", worker[w].copy, worker[w].stage + 1)

(* UpdateStatus, refused if the version read is not the last one; whatever  *)
(* it says the call returns.                                                *)
Write(e, s, current) ==
  IF current /\ e \in live
  THEN api' = [api EXCEPT ![e] = s] /\ fresh' = fresh \ {e} /\ UNCHANGED queue
  ELSE queue' = queue \cup {e} /\ UNCHANGED <<api, fresh>>
Store(w, s) ==
  /\ worker' = [worker EXCEPT ![w] = Idle]
  /\ Write(worker[w].event, s, worker[w].current)
StoreOrLeave(w, s) == IF s # worker[w].copy THEN Store(w, s) ELSE Leave(w)

(* The same in a step of its own, for what was read from a lease. *)
Propose(w, s) == Goes(w, "save", s, worker[w].stage)

-----------------------------------------------------------------------------
(* acquireLease: a pending event takes the lease of its name when it is     *)
(* free or its holder is done; an event older than the holder is deleted.   *)

Begin(w, e) ==
  /\ worker' = [worker EXCEPT ![w] = [pc |-> "stage", event |-> e, copy |-> cache[e],
                                      current |-> e \in fresh, stage |-> 1]]
  /\ queue' = queue \ {e}
Refuse(e) == queue' = queue \ {e} /\ UNCHANGED worker
Pending(e) == cache[e].phase \in {"", "Pending"}
Holder(e) == holder[plan.label[e]]

AcquireKept(w, e) ==
  /\ ~Pending(e) \/ Holder(e) = e
  /\ Begin(w, e) /\ UNCHANGED <<holder, live, gone>>

AcquireTaken_BusyHolder(w, e) ==
  /\ Pending(e)
  /\ Holder(e) = None \/ (Holder(e) \in known \ {e} /\ cache[Holder(e)].phase # "Pending")
  /\ holder' = [holder EXCEPT ![plan.label[e]] = e]
  /\ Begin(w, e) /\ UNCHANGED <<live, gone>>

AcquireTaken_AnyAge(w, e) ==
  /\ Pending(e)
  /\ Holder(e) = None \/ (Holder(e) \in known \ {e} /\ cache[Holder(e)].phase \in Terminal)
  /\ holder' = [holder EXCEPT ![plan.label[e]] = e]
  /\ Begin(w, e) /\ UNCHANGED <<live, gone>>

AcquireTaken_RestingHolder(w, e) ==
  /\ Pending(e)
  /\ \/ Holder(e) = None
     \/ /\ Holder(e) \in known \ {e} /\ plan.born[e] >= plan.born[Holder(e)]
        /\ cache[Holder(e)].phase \notin {"", "Pending"}
        /\ \A p \in Pipelines : cache[Holder(e)].entry[p].status \notin {"Pending", "Running"}
  /\ holder' = [holder EXCEPT ![plan.label[e]] = e]
  /\ Begin(w, e) /\ UNCHANGED <<live, gone>>

AcquireTaken(w, e) ==
  /\ Pending(e)
  /\ \/ Holder(e) = None
     \/ Holder(e) \in known \ {e} /\ plan.born[e] >= plan.born[Holder(e)] /\ cache[Holder(e)].phase \in Terminal
  /\ holder' = [holder EXCEPT ![plan.label[e]] = e]
  /\ Begin(w, e) /\ UNCHANGED <<live, gone>>

(* The holder is at work.  (Of a holder who is gone the call fails, and     *)
(* again until the lease is collected.)                                     *)
AcquireWaits(e) ==
  /\ Pending(e) /\ Holder(e) \in known \ {e} /\ plan.born[e] >= plan.born[Holder(e)]
  /\ cache[Holder(e)].phase \in {"", "Pending", "Running"}
  /\ Refuse(e) /\ UNCHANGED <<holder, live, gone>>

AcquireTooOld(e) ==
  /\ Pending(e) /\ Holder(e) \in known \ {e} /\ plan.born[e] < plan.born[Holder(e)] /\ e \in live
  /\ live' = live \ {e} /\ gone' = gone \cup {e}
  /\ Refuse(e) /\ UNCHANGED holder

(* processNextWorkItem and syncHandler up to the pipelines.  One worker at  *)
(* a time works on an event; what is added to the queue meanwhile stays.    *)
Take(w, e) ==
  /\ worker[w] = Idle /\ e \in queue
  /\ \A v \in Workers : worker[v].event # e
  /\ LET s == Probe(e, cache[e]) IN
     \/ e \notin known /\ Refuse(e) /\ UNCHANGED <<api, fresh, holder, live, gone>>
     \/ /\ e \in known /\ s # cache[e] /\ e \in fresh \cap live
        /\ api' = [api EXCEPT ![e] = s] /\ fresh' = fresh \ {e}
        /\ Refuse(e) /\ UNCHANGED <<holder, live, gone>>
     \/ /\ e \in known /\ s = cache[e] /\ s.phase = "Completed"
        /\ Refuse(e) /\ UNCHANGED <<api, fresh, holder, live, gone>>
     \/ /\ e \in known /\ s = cache[e] /\ s.time # 0 /\ s.phase # "Completed"
        /\ AcquireKept(w, e) \/ AcquireTaken(w, e) \/ AcquireWaits(e) \/ AcquireTooOld(e)
        /\ UNCHANGED <<api, fresh>>
  /\ UNCHANGED <<plan, leader, runs, known, cache, seen, left>>

-----------------------------------------------------------------------------
(* syncEventPipeline before the PipelineRun: leader, runAfter, lock.        *)

(* probeLeader: an event joins the leader that is gathering a group. *)
Joins(e, s) ==
  LET l == leader[plan.group[e]] IN
  /\ plan.group[e] # None /\ s.leader = None
  /\ l \in known
  /\ plan.daily => InSameDay(cache[l].time, s.time)

(* pipelineCompleted *)
Completed(s, p) == IF p = None THEN s.phase = "Completed" ELSE s.entry[p].status = "Completed"

(* What event f, named in a.name, must have done before e runs pipeline i.  *)
(* In one group the pipeline to wait for is the last of e's own row.        *)
Precedes(f, a, e, s, i) ==
  LET t == cache[f]
      last == Ends(plan.stages)[i]
      own == {Stage(j).name : j \in Begins(plan.stages)[i] .. last} IN
  IF t.leader = None \/ t.leader # s.leader THEN Completed(t, a.pipeline)
  ELSE \/ Stage(i).leaderOnly /\ t.leader # f
       \/ Completed(t, IF a.pipeline \in own THEN a.pipeline ELSE Stage(last).name)

(* filterEvents: of the events of one name, those without a day and one of  *)
(* the last day; which one, if there are several, is up to the list.        *)
NamedBy(a) == {f \in known : plan.label[f] = a.name}
Undated(a) == {f \in NamedBy(a) : cache[f].time = 0}
Newest(a) == {f \in NamedBy(a) \ Undated(a) : \A g \in NamedBy(a) : cache[g].time <= cache[f].time}
AfterMet(e, s, i) ==
  Stage(i).ignoreAfter \/
  \A a \in plan.after[e] :
    /\ \A f \in Undated(a) : Precedes(f, a, e, s, i)
    /\ Newest(a) # {} => \E f \in Newest(a) : Precedes(f, a, e, s, i)
AfterUnmet(e, s, i) ==
  ~Stage(i).ignoreAfter /\
  \E a \in plan.after[e] : \E f \in Undated(a) \cup Newest(a) : ~Precedes(f, a, e, s, i)

(* lockLeader, with the lease there: those of the group who have not said   *)
(* whom they follow; of another day they do not count.  An event without a  *)
(* day has no day to compare: the process panics.                           *)
Undecided(e, s) ==
  {f \in known : /\ SameGroup(e, f) /\ cache[f].leader = None
                 /\ plan.daily => InSameDay(cache[f].time, s.time)}
NoDay(e) == plan.daily /\ \E f \in known : SameGroup(e, f) /\ cache[f].time = 0

StageJoin(w) ==
  LET e == worker[w].event  s == worker[w].copy IN
  /\ Joins(e, s)
  /\ Propose(w, [s EXCEPT !.leader = leader[plan.group[e]]])
  /\ UNCHANGED <<leader, runs>>

StageWait(w) ==
  LET e == worker[w].event  s == worker[w].copy IN
  /\ ~Joins(e, s) /\ AfterUnmet(e, s, worker[w].stage)
  /\ Leave(w) /\ UNCHANGED <<leader, runs>>

StageReady(w) ==
  /\ ~Joins(worker[w].event, worker[w].copy)
  /\ AfterMet(worker[w].event, worker[w].copy, worker[w].stage)

(* leaderElect *)
StageElect(w) ==
  LET e == worker[w].event  s == worker[w].copy  g == plan.group[e] IN
  /\ StageReady(w) /\ Stage(worker[w].stage).leaderOnly /\ s.leader = None
  /\ UNCHANGED runs
  /\ \/ g = None /\ Store(w, [s EXCEPT !.leader = e]) /\ UNCHANGED leader
     \/ /\ g # None /\ leader[g] = None
        /\ leader' = [leader EXCEPT ![g] = e]
        /\ Propose(w, [s EXCEPT !.leader = e])
     \/ /\ g # None /\ leader[g] # None
        /\ Propose(w, [s EXCEPT !.leader = leader[g]])
        /\ UNCHANGED leader

(* A follower is done with a LeaderOnly pipeline when its leader is. *)
StageFollow(w) ==
  LET e == worker[w].event  l == worker[w].copy.leader  p == Stage(worker[w].stage).name IN
  /\ StageReady(w) /\ Stage(worker[w].stage).leaderOnly /\ l \notin {None, e}
  /\ \/ l \notin known /\ Fail(w)
     \/ l \in known /\ cache[l].entry[p].status = "Completed" /\ Pass(w)
     \/ l \in known /\ cache[l].entry[p].status # "Completed" /\ Leave(w)
  /\ UNCHANGED <<leader, runs>>

(* lockLeader up to the deletion of the lease; without a lease nobody else  *)
(* joins.                                                                   *)
Leads(w) == /\ StageReady(w) /\ Stage(worker[w].stage).leaderOnly
            /\ worker[w].copy.leader = worker[w].event
Lease(w) == LET g == plan.group[worker[w].event] IN IF g = None THEN None ELSE leader[g]

StageLock(w) ==
  LET e == worker[w].event  s == worker[w].copy IN
  /\ Leads(w) /\ Lease(w) # None
  /\ \/ Undecided(e, s) # {} /\ Leave(w)
     \/ Undecided(e, s) = {} /\ ~NoDay(e) /\ Move(w, "unlock")
  /\ UNCHANGED <<leader, runs>>

(* The lease is deleted by name, whoever holds it by now. *)
Unlock(w) ==
  LET g == plan.group[worker[w].event] IN
  /\ worker[w].pc = "unlock"
  /\ leader' = [leader EXCEPT ![g] = None]
  /\ IF leader[g] # None THEN Move(w, "run") ELSE Fail(w)
  /\ UNCHANGED <<plan, live, gone, holder, runs, known, cache, seen, left>>

(* All pipelines are done. *)
Finish(w) ==
  /\ worker[w].pc = "stage" /\ worker[w].stage \notin Indexes
  /\ Store(w, [worker[w].copy EXCEPT !.phase = "Completed"])
  /\ UNCHANGED <<plan, live, gone, holder, leader, runs, known, cache, seen, left>>

-----------------------------------------------------------------------------
(* syncEventPipeline from the PipelineRun on.                               *)

(* getFollowersParams: has everyone who follows e done the last pipeline    *)
(* that all run before i?                                                   *)
Gathered(e, i) ==
  LET always == {j \in Indexes : j < i /\ ~Stage(j).leaderOnly}
      last == Greatest(always) IN
  IF always = {} THEN TRUE ELSE
  \A f \in known : cache[f].leader = e =>
    \/ cache[f].phase \in {"Failed", "Cancelled"}
    \/ cache[f].entry[Stage(last).name].status \in {"Completed", "Cancelled", "Failed", "Rollback"}

(* A PipelineRun, by the id in the status, as the cache has it. *)
Look(e, p, id) == IF id \in DOMAIN seen[e][p] THEN seen[e][p][id] ELSE "absent"

(* getPipelineRunStatusOrInit: a new name. *)
NewEntry(e, p) == [status |-> "Pending", id |-> Len(runs[e][p]) + 1]
SetEntry(s, p, status) == [s EXCEPT !.entry[p].status = status]

(* createPipelineRun, under the name in the status. *)
MakeRun(w, s, p) ==
  LET e == worker[w].event IN
  IF s.entry[p].id > Len(runs[e][p])
  THEN runs' = [runs EXCEPT ![e][p] = Append(@, "Running")] /\ StoreOrLeave(w, s)
  ELSE Fail(w) /\ UNCHANGED runs

(* cancelPipelineRun: the update is refused if the cache is behind. *)
CancelRun(w, s, p) ==
  LET e == worker[w].event  id == s.entry[p].id IN
  IF Look(e, p, id) = "Cancelling" THEN StoreOrLeave(w, s) /\ UNCHANGED runs
  ELSE IF runs[e][p][id] = "Running"
  THEN runs' = [runs EXCEPT ![e][p][id] = "Cancelling"] /\ StoreOrLeave(w, s)
  ELSE Fail(w) /\ UNCHANGED runs

(* rollbackEventPipeline *)
RollBack(w, s, p) ==
  LET e == worker[w].event
      entry == s.entry[p]
      run == Look(e, p, entry.id) IN
  \/ /\ entry.status = "none"
     /\ Store(w, [s EXCEPT !.entry[p] = NewEntry(e, p)]) /\ UNCHANGED runs
  \/ entry.status \in {"Completed", "Failed"} /\ StoreOrLeave(w, s) /\ UNCHANGED runs
  \/ entry.status = "Cancelled" /\ run = "absent" /\ StoreOrLeave(w, s) /\ UNCHANGED runs
  \/ entry.status \in {"Pending", "Running"} /\ run = "absent" /\ MakeRun(w, s, p)
  \/ /\ entry.status \in {"Pending", "Running", "Cancelled"} /\ run \in Terminal
     /\ StoreOrLeave(w, SetEntry(s, p, run)) /\ UNCHANGED runs
  \/ /\ entry.status \in {"Pending", "Running"} /\ run \in {"Running", "Cancelling"}
     /\ StoreOrLeave(w, SetEntry(s, p, "Running")) /\ UNCHANGED runs
  \/ /\ entry.status = "Cancelled" /\ run \in {"Running", "Cancelling"}
     /\ CancelRun(w, s, p)

RunInit_MakesIt(w, s, p) ==
  LET e == worker[w].event IN
  /\ s.entry[p].status = "none"
  /\ Store(w, [s EXCEPT !.entry[p] = NewEntry(e, p)])
  /\ runs' = [runs EXCEPT ![e][p] = Append(@, "Running")]

RunInit(w, s, p) ==
  LET e == worker[w].event IN
  /\ s.entry[p].status = "none"
  /\ Store(w, [s EXCEPT !.entry[p] = NewEntry(e, p)])
  /\ UNCHANGED runs

RunPassed(w, s, p) ==
  /\ s.entry[p].status = "Completed"
  /\ Pass(w) /\ UNCHANGED runs

(* The cache has no PipelineRun of that name. *)
RunAbsent(w, s, i, p) ==
  /\ Look(worker[w].event, p, s.entry[p].id) = "absent"
  /\ \/ s.entry[p].status = "Cancelled" /\ Leave(w) /\ UNCHANGED runs
     \/ /\ s.entry[p].status = "Failed"
        /\ StoreOrLeave(w, IF Stage(i).rollback # None /\ Stage(i).auto
                           THEN SetEntry(s, p, "Rollback") ELSE s)
        /\ UNCHANGED runs
     \/ s.entry[p].status = "Rollback" /\ RollBack(w, s, Stage(i).rollback)
     \/ s.entry[p].status \in {"Pending", "Running"} /\ MakeRun(w, s, p)

RunCompleted(w, s, p) ==
  /\ s.entry[p].status \notin {"none", "Completed"}
  /\ Look(worker[w].event, p, s.entry[p].id) = "Completed"
  /\ Store(w, [SetEntry(s, p, "Completed") EXCEPT !.phase = "Running"])
  /\ UNCHANGED runs

(* Cancelled or Failed; a rollback may have been asked for already. *)
RunStopped(w, s, i, p) ==
  LET run == Look(worker[w].event, p, s.entry[p].id)
      t == [s EXCEPT !.phase = run] IN
  /\ s.entry[p].status \notin {"none", "Completed"} /\ run \in {"Cancelled", "Failed"}
  /\ IF s.entry[p].status = "Rollback" THEN RollBack(w, t, Stage(i).rollback)
     ELSE /\ StoreOrLeave(w, SetEntry(t, p,
               IF run = "Failed" /\ Stage(i).rollback # None /\ Stage(i).auto
               THEN "Rollback" ELSE run))
          /\ UNCHANGED runs

RunRunning_Passes(w, s, p) ==
  /\ s.entry[p].status \notin {"none", "Completed"}
  /\ Look(worker[w].event, p, s.entry[p].id) \in {"Running", "Cancelling"}
  /\ IF s.entry[p].status = "Running" THEN Pass(w) ELSE StoreOrLeave(w, SetEntry(s, p, "Running"))
  /\ UNCHANGED runs

RunRunning(w, s, p) ==
  LET t == [s EXCEPT !.phase = "Running"] IN
  /\ s.entry[p].status \notin {"none", "Completed"}
  /\ Look(worker[w].event, p, s.entry[p].id) \in {"Running", "Cancelling"}
  /\ IF s.entry[p].status = "Cancelled" THEN CancelRun(w, t, p)
     ELSE StoreOrLeave(w, SetEntry(t, p, "Running")) /\ UNCHANGED runs

StageRun(w) ==
  LET s == worker[w].copy  i == worker[w].stage  p == Stage(i).name IN
  \/ Stage(i).leaderOnly /\ ~Gathered(worker[w].event, i) /\ Leave(w) /\ UNCHANGED runs
  \/ /\ Stage(i).leaderOnly => Gathered(worker[w].event, i)
     /\ \/ RunInit(w, s, p) \/ RunPassed(w, s, p)
        \/ s.entry[p].status \notin {"none", "Completed"} /\ RunAbsent(w, s, i, p)
        \/ RunCompleted(w, s, p) \/ RunStopped(w, s, i, p) \/ RunRunning(w, s, p)

(* One pipeline of syncEventPipeline. *)
DoStage(w) ==
  /\ \/ /\ worker[w].pc = "stage" /\ worker[w].stage \in Indexes
        /\ \/ StageJoin(w) \/ StageWait(w) \/ StageElect(w) \/ StageFollow(w) \/ StageLock(w)
           \/ /\ StageReady(w)
              /\ Stage(worker[w].stage).leaderOnly => Leads(w) /\ Lease(w) = None
              /\ StageRun(w) /\ UNCHANGED leader
     \/ worker[w].pc = "run" /\ StageRun(w) /\ UNCHANGED leader
  /\ UNCHANGED <<plan, live, gone, holder, known, cache, seen, left>>

(* UpdateStatus with a leader. *)
Save(w) ==
  /\ worker[w].pc = "save"
  /\ Store(w, worker[w].copy)
  /\ UNCHANGED <<plan, live, gone, holder, leader, runs, known, cache, seen, left>>

-----------------------------------------------------------------------------
(* The informers.  The handlers of events know additions and updates only:  *)
(* a deletion queues nothing.                                               *)

ObserveEvent(e) ==
  /\ e \in live \ fresh
  /\ known' = known \cup {e} /\ fresh' = fresh \cup {e}
  /\ cache' = [cache EXCEPT ![e] = api[e]]
  /\ queue' = queue \cup Concerned(e, api[e], known', cache')
  /\ UNCHANGED <<plan, resources, seen, worker, left>>

ObserveDeletion(e) ==
  /\ e \in known \ live
  /\ known' = known \ {e} /\ fresh' = fresh \ {e}
  /\ cache' = [cache EXCEPT ![e] = NewStatus]
  /\ UNCHANGED <<plan, resources, seen, queue, worker, left>>

(* handlePipelineRun *)
ObserveRun(e, p) ==
  /\ seen[e][p] # runs[e][p]
  /\ seen' = [seen EXCEPT ![e][p] = runs[e][p]]
  /\ queue' = queue \cup {e}
  /\ UNCHANGED <<plan, resources, known, cache, fresh, worker, left>>

(* The process dies, or a worker panics, and the next one lists everything. *)
Reborn ==
  /\ known' = live /\ fresh' = live /\ seen' = runs
  /\ cache' = [e \in Events |-> IF e \in live THEN api[e] ELSE NewStatus]
  /\ queue' = live
  /\ worker' = [w \in Workers |-> Idle]
  /\ UNCHANGED <<plan, resources>>

Crash ==
  /\ left.crashes > 0 /\ left' = [left EXCEPT !.crashes = @ - 1]
  /\ Reborn

Panic(w) ==
  LET e == worker[w].event IN
  /\ worker[w].pc = "stage" /\ worker[w].stage \in Indexes
  /\ Leads(w) /\ Lease(w) # None /\ NoDay(e)
  /\ Reborn /\ UNCHANGED left

-----------------------------------------------------------------------------
(* Users, Tekton and the garbage collector. *)

Create(e) ==
  /\ e \in plan.comes \ (live \cup gone)
  /\ \A f \in live \cup gone : plan.born[f] <= plan.born[e]
  /\ live' = live \cup {e}
  /\ UNCHANGED <<plan, gone, api, holder, leader, runs, caches, queue, worker, left>>

(* Another version of e: a write from a version read before is refused. *)
Supersede(e) ==
  /\ fresh' = fresh \ {e}
  /\ worker' = [w \in Workers |-> IF worker[w].event = e
                                   THEN [worker[w] EXCEPT !.current = FALSE] ELSE worker[w]]

(* A user asks in the status for a run to be cancelled, or for its rollback.*)
Ask(e, i) ==
  LET p == Stage(i).name IN
  /\ e \in live /\ left.asks > 0
  /\ \/ /\ api[e].entry[p].status \in {"Pending", "Running"}
        /\ api' = [api EXCEPT ![e] = SetEntry(@, p, "Cancelled")]
     \/ /\ Stage(i).rollback # None /\ api[e].entry[p].status \in {"Cancelled", "Failed"}
        /\ api' = [api EXCEPT ![e] = SetEntry(@, p, "Rollback")]
  /\ left' = [left EXCEPT !.asks = @ - 1]
  /\ Supersede(e)
  /\ UNCHANGED <<plan, live, gone, holder, leader, runs, known, cache, seen, queue>>

Delete(e) ==
  /\ e \in live /\ left.deletes > 0
  /\ live' = live \ {e} /\ gone' = gone \cup {e}
  /\ left' = [left EXCEPT !.deletes = @ - 1]
  /\ UNCHANGED <<plan, api, holder, leader, runs, caches, queue, worker>>

(* A lease goes with the event that owns it. *)
Collect ==
  /\ \/ \E n \in Labels : /\ holder[n] \in gone
                          /\ holder' = [holder EXCEPT ![n] = None] /\ UNCHANGED leader
     \/ \E g \in Groups : /\ leader[g] \in gone
                          /\ leader' = [leader EXCEPT ![g] = None] /\ UNCHANGED holder
  /\ UNCHANGED <<plan, live, gone, api, runs, caches, queue, worker, left>>

(* Tekton runs a PipelineRun to its end; one to be cancelled may still end  *)
(* in time.                                                                 *)
EndRun(e, p) ==
  \E id \in DOMAIN runs[e][p] :
    /\ runs[e][p][id] \in {"Running", "Cancelling"}
    /\ \E end \in {"Completed"} \cup (IF plan.fails THEN {"Failed"} ELSE {})
                    \cup (IF runs[e][p][id] = "Cancelling" THEN {"Cancelled"} ELSE {}) :
         runs' = [runs EXCEPT ![e][p][id] = end]
    /\ UNCHANGED <<plan, live, gone, api, holder, leader, caches, queue, worker, left>>

-----------------------------------------------------------------------------
Work(w) == \/ DoStage(w) \/ Unlock(w) \/ Finish(w) \/ Save(w) \/ Panic(w)
           \/ \E e \in Events : Take(w, e)

Next ==
  \/ \E w \in Workers : Work(w)
  \/ \E e \in Events :
       \/ ObserveEvent(e) \/ ObserveDeletion(e) \/ Create(e) \/ Delete(e)
       \/ \E p \in Pipelines : ObserveRun(e, p) \/ EndRun(e, p)
       \/ \E i \in Indexes : Ask(e, i)
  \/ Crash \/ Collect

Spec == Init /\ [][Next]_vars

(* Workers do not stop in the middle, the queue is served in order and no   *)
(* key waits for ever, caches follow, runs end, events come, and leases are *)
(* collected.                                                               *)
Watch == \E e \in Events : ObserveEvent(e) \/ ObserveDeletion(e) \/ \E p \in Pipelines : ObserveRun(e, p)
World == Collect \/ \E e \in Events : Create(e) \/ \E p \in Pipelines : EndRun(e, p)
Fairness ==
  /\ WF_vars(Watch) /\ WF_vars(World) /\ \A w \in Workers : WF_vars(Work(w))
  /\ \A e \in Events : WF_vars(\E w \in Workers : Take(w, e))

FairSpec == Spec /\ Fairness

-----------------------------------------------------------------------------
TypeOK ==
  /\ plan \in Plans
  /\ live \subseteq Events /\ gone \subseteq Events
  /\ api \in [Events -> EventStatuses] /\ cache \in [Events -> EventStatuses]
  /\ known \subseteq Events /\ fresh \subseteq Events
  /\ holder \in [Labels -> Events \cup {None}]
  /\ leader \in [Groups -> Events \cup {None}]
  /\ runs \in [Events -> [Pipelines -> Seq(RunStates)]]
  /\ seen \in [Events -> [Pipelines -> Seq(RunStates)]]
  /\ queue \subseteq Events
  /\ worker \in [Workers -> [pc : {"idle", "stage", "unlock", "run", "save"},
                             event : Events \cup {None}, copy : EventStatuses,
                             current : BOOLEAN, stage : Nat]]
  /\ left \in [crashes : Nat, asks : Nat, deletes : Nat]

Unfinished(e, p) == \E id \in DOMAIN runs[e][p] : runs[e][p][id] \in {"Running", "Cancelling"}
Done(e, p) == e # None /\ runs[e][p] # <<>> /\ \A id \in DOMAIN runs[e][p] : runs[e][p][id] = "Completed"
Begun(e) == \E p \in Pipelines : runs[e][p] # <<>>
Forward == {Stage(i).name : i \in Indexes} \ {Stage(i).rollback : i \in Indexes}

(* The PipelineRun of an event and a pipeline; there is one at most.       *)
RunOf(e, p) == IF runs[e][p] = <<>> THEN "none" ELSE runs[e][p][1]
Fin(e, p) == e # None /\ RunOf(e, p) = "Completed"

(* e may run the i-th pipeline itself.                                     *)
Own(e, i) == Stage(i).leaderOnly => api[e].leader = e

(* The i-th pipeline of e is done, or e, as a follower, does not run it.    *)
Passed(e, i) == Fin(e, Stage(i).name) \/ (Stage(i).leaderOnly /\ api[e].leader \notin {None, e})

(* e will start no other run of the calendar's pipelines: it has passed    *)
(* them all, or one of them has failed or was cancelled.                   *)
Blocked(e, i) ==
  /\ RunOf(e, Stage(i).name) \in {"Failed", "Cancelled"} /\ Own(e, i)
  /\ \A k \in Indexes : k < i => Passed(e, k)
Over(e) == (\A k \in Indexes : Passed(e, k)) \/ \E i \in Indexes : Blocked(e, i)

(* Two events of one name never both run a pipeline of the calendar,        *)
(* whatever two workers read from lagging caches (acquireLease).            *)
TakeTurns ==
  \A e, f \in live : e # f /\ SameLabel(e, f) =>
    \/ \A p \in Forward : ~Unfinished(e, p)
    \/ \A p \in Forward : ~Unfinished(f, p)

(* An event makes one PipelineRun of a pipeline, however often the call     *)
(* that makes it is repeated with an old cache: its name is in the status   *)
(* before it is made.                                                       *)
OneRunEach == \A e \in Events, p \in Pipelines : Len(runs[e][p]) <= 1

(* A pipeline starts in a place where those before it have completed, its   *)
(* own, or its leader's if they are LeaderOnly; and one that is LeaderOnly  *)
(* only for the leader (syncEventPipeline).                                 *)
Behind(e, i) == \A j \in 1 .. i - 1 : Done(IF Stage(j).leaderOnly THEN api[e].leader ELSE e, Stage(j).name)
InOrder ==
  \A e \in live, p \in Forward : runs[e][p] # <<>> =>
    \E i \in Indexes : /\ Stage(i).name = p /\ Behind(e, i)
                       /\ Stage(i).leaderOnly => api[e].leader = e

(* An event does not begin once a later one of its name has: it was deleted *)
(* for its age, or never got the lease (acquireLease).  Unless a user has   *)
(* deleted one: with the holder goes the lease, and what the lease knew.    *)
NoStepBack ==
  [][\A e, f \in live :
       /\ left.deletes = plan.bound.deletes
       /\ SameLabel(e, f) /\ plan.born[e] < plan.born[f] /\ Begun(f) /\ ~Begun(e)
       => runs'[e] = runs[e]]_vars

(* The runs of events of one name do not interleave: the calendar keeps the *)
(* promise of NameTurns, for the pipelines that are not rollbacks, by       *)
(* leases that change hands on what caches say (acquireLease).              *)
MadeBy(e) == IF e \in gone THEN {} ELSE {p \in Forward : runs[e][p] # <<>>}
Made == [e \in Events |-> MadeBy(e)]
Through == gone \cup {e \in Events : Over(e)}
T == INSTANCE NameTurns WITH Event <- Events, Label <- Labels, Pipeline <- Pipelines,
                             label <- plan.label, made <- Made, over <- Through
KeepsTurns == T!Spec

(* If no run fails and no user interferes, every event is led through its   *)
(* pipelines: each wait, for a turn, a leader, a follower or an event       *)
(* before, is ended by an event that queues the one that waits.             *)
Interfered ==
  \/ left.asks # plan.bound.asks \/ left.deletes # plan.bound.deletes
  \/ \E e \in Events, p \in Pipelines, id \in 1 .. 2 :
       id \in DOMAIN runs[e][p] /\ runs[e][p][id] = "Failed"
EventuallyDone ==
  <>Interfered \/ \A e \in Events : <>[](e \in live => api[e].phase = "Completed")

-----------------------------------------------------------------------------
(* What a comment of the code says, and the code does not keep.             *)

(* "Leader is the name of release event which acts as the group leader."    *)
(* A worker with an old copy of a follower takes the lease the leader just  *)
(* let go; its write is refused, the lease stays, and who joins next        *)
(* follows an event that leads nobody.                                      *)
FollowsALeader ==
  \A f \in live : LET l == api[f].leader IN
    l \in live \ {f} => api[l].leader = l \/ (api[l].leader = None /\ leader[plan.group[f]] = l)
=============================================================================
