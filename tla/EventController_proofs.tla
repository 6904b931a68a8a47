------------------------ MODULE EventController_proofs ------------------------
(***************************************************************************)
(* Proofs about EventController, for any events, calendars, workers and    *)
(* bounds: an event makes at most one PipelineRun of a pipeline.           *)
(*                                                                         *)
(* The argument: a status never loses an entry, copies of it are behind or *)
(* equal, only the worker that holds an event writes it, and a write based *)
(* on an old copy is refused.  So an entry is made once, and with it the   *)
(* name under which the run is made.                                       *)
(***************************************************************************)
EXTENDS EventController, SequenceTheorems, TLAPS

-----------------------------------------------------------------------------
(* Statuses. *)

Named == Statuses \ {"none"}
OneEntries == {NoEntry} \cup [status : Named, id : {1}]
Good(s) ==
  /\ s = [phase |-> s.phase, time |-> s.time, leader |-> s.leader, entry |-> s.entry]
  /\ s.entry \in [Pipelines -> OneEntries]

(* t has every entry that s has. *)
Ahead(s, t) == \A p \in Pipelines : s.entry[p].status # "none" => t.entry[p].status # "none"

LEMMA NewIsGood == Good(NewStatus)
BY DEF Good, NewStatus, OneEntries

LEMMA PhaseGood ==
  ASSUME NEW s, Good(s), NEW phase
  PROVE  Good([s EXCEPT !.phase = phase]) /\ [s EXCEPT !.phase = phase].entry = s.entry
BY DEF Good

LEMMA LeaderGood ==
  ASSUME NEW s, Good(s), NEW e
  PROVE  Good([s EXCEPT !.leader = e]) /\ [s EXCEPT !.leader = e].entry = s.entry
BY DEF Good

LEMMA ProbeGood ==
  ASSUME NEW s, Good(s), NEW e
  PROVE  Good(Probe(e, s)) /\ Probe(e, s).entry = s.entry
BY DEF Good, Probe

LEMMA EntryGood ==
  ASSUME NEW s, Good(s), NEW p, NEW status \in Named, p \in Pipelines => s.entry[p].status # "none"
  PROVE  Good(SetEntry(s, p, status)) /\ Ahead(s, SetEntry(s, p, status))
<1>1. CASE p \in Pipelines
  <2>1. s.entry[p] \in [status : Named, id : {1}]
    BY <1>1 DEF Good, OneEntries, NoEntry
  <2>2. SetEntry(s, p, status) =
          [phase |-> s.phase, time |-> s.time, leader |-> s.leader,
           entry |-> [s.entry EXCEPT ![p] = [status |-> status, id |-> 1]]]
    BY <1>1, <2>1 DEF Good, SetEntry
  <2> QED BY <1>1, <2>1, <2>2 DEF Good, Ahead, OneEntries, Named
<1>2. CASE p \notin Pipelines
  <2>1. SetEntry(s, p, status) = s
    BY <1>2 DEF Good, SetEntry
  <2> QED BY <2>1 DEF Ahead
<1> QED BY <1>1, <1>2

LEMMA NewEntryGood ==
  ASSUME NEW s, Good(s), NEW p, NEW e, p \in Pipelines => Len(runs[e][p]) = 0 /\ s.entry[p].status = "none"
  PROVE  /\ Good([s EXCEPT !.entry[p] = NewEntry(e, p)])
         /\ Ahead(s, [s EXCEPT !.entry[p] = NewEntry(e, p)])
<1>1. CASE p \in Pipelines
  <2>1. NewEntry(e, p) = [status |-> "Pending", id |-> 1]
    BY <1>1 DEF NewEntry
  <2>2. [s EXCEPT !.entry[p] = NewEntry(e, p)] =
          [phase |-> s.phase, time |-> s.time, leader |-> s.leader,
           entry |-> [s.entry EXCEPT ![p] = [status |-> "Pending", id |-> 1]]]
    BY <1>1, <2>1 DEF Good
  <2> QED BY <1>1, <2>1, <2>2 DEF Good, Ahead, OneEntries, Named, Statuses
<1>2. CASE p \notin Pipelines
  <2>1. [s EXCEPT !.entry[p] = NewEntry(e, p)] = s
    BY <1>2 DEF Good
  <2> QED BY <2>1 DEF Ahead
<1> QED BY <1>1, <1>2

-----------------------------------------------------------------------------
(* The invariant. *)

Slot(r) ==
  /\ r = [pc |-> r.pc, event |-> r.event, copy |-> r.copy, current |-> r.current, stage |-> r.stage]
  /\ Good(r.copy) /\ r.current \in BOOLEAN
  /\ r.event \in Events \cup {None}
  /\ r.event = None <=> r.pc = "idle"

(* What is copied of a status is behind it, or equal if it is current. *)
Follows(r) ==
  r.event # None => /\ Ahead(r.copy, api[r.event])
                    /\ r.current => r.copy.entry = api[r.event].entry

StatusInv ==
  /\ plan \in Plans
  /\ live \subseteq Events /\ known \subseteq Events /\ fresh \subseteq Events
  /\ api = [e \in Events |-> api[e]] /\ cache = [e \in Events |-> cache[e]]
  /\ worker = [w \in Workers |-> worker[w]]
  /\ \A e \in Events : Good(api[e]) /\ Good(cache[e]) /\ Ahead(cache[e], api[e])
  /\ \A e \in fresh : cache[e] = api[e]
  /\ \A w \in Workers : Slot(worker[w]) /\ Follows(worker[w])
  /\ \A v, w \in Workers : v # w /\ worker[v].event = worker[w].event => worker[v].event = None

(* The name of a run is in the status before the run is made. *)
RunInv ==
  /\ runs \in [Events -> [Pipelines -> Seq(RunStates)]]
  /\ \A e \in Events, p \in Pipelines : Len(runs[e][p]) = 0 \/ (Len(runs[e][p]) = 1 /\ api[e].entry[p].status # "none")

(* Statuses only gain entries. *)
Advances == \A e \in Events : Ahead(api[e], api'[e])

(* What a step of a worker may do to its event: no write, and it goes on   *)
(* with the entries it has; or a write of a status with more entries, if   *)
(* what it has is current.                                                 *)
GoesOn(w) ==
  /\ UNCHANGED <<api, fresh>>
  /\ \E r : /\ Slot(r) /\ worker' = [worker EXCEPT ![w] = r]
            /\ r = Idle \/ /\ r.event = worker[w].event /\ r.copy.entry = worker[w].copy.entry
                           /\ r.current = worker[w].current
Writes(w) ==
  /\ worker[w].current /\ worker' = [worker EXCEPT ![w] = Idle]
  /\ fresh' = fresh \ {worker[w].event}
  /\ \E s : Good(s) /\ Ahead(worker[w].copy, s) /\ api' = [api EXCEPT ![worker[w].event] = s]
WorkStep(w) == GoesOn(w) \/ Writes(w)

LEMMA IdleSlot == Slot(Idle)
<1>1. None \notin Events
  BY EventAssumption DEF EventAssumption
<1> QED BY <1>1, NewIsGood DEF Slot, Idle

LEMMA LeaveSteps ==
  ASSUME NEW w \in Workers, Leave(w) \/ Fail(w)
  PROVE  WorkStep(w)
BY IdleSlot DEF Leave, Fail, WorkStep, GoesOn

LEMMA GoesSteps ==
  ASSUME StatusInv, NEW w \in Workers, worker[w].pc # "idle", NEW pc, pc # "idle", NEW s, Good(s), NEW stage,
         s.entry = worker[w].copy.entry, Goes(w, pc, s, stage)
  PROVE  WorkStep(w)
<1> DEFINE r == [pc |-> pc, event |-> worker[w].event, copy |-> s, current |-> worker[w].current, stage |-> stage]
<1>1. Slot(worker[w]) /\ worker = [v \in Workers |-> worker[v]]
  BY DEF StatusInv
<1>2. Slot(r)
  BY <1>1 DEF Slot
<1>3. worker' = [worker EXCEPT ![w] = r] /\ UNCHANGED <<api, fresh>>
  BY <1>1 DEF Goes
<1>4. r.event = worker[w].event /\ r.copy.entry = worker[w].copy.entry /\ r.current = worker[w].current
  OBVIOUS
<1> HIDE DEF r
<1> QED BY <1>2, <1>3, <1>4 DEF WorkStep, GoesOn

LEMMA StoreSteps ==
  ASSUME StatusInv, NEW w \in Workers, NEW s, Store(w, s),
         worker[w].current => Good(s) /\ Ahead(worker[w].copy, s)
  PROVE  WorkStep(w)
<1>1. CASE worker[w].current /\ worker[w].event \in live
  BY <1>1 DEF Store, Write, WorkStep, Writes
<1>2. CASE ~(worker[w].current /\ worker[w].event \in live)
  BY <1>2, IdleSlot DEF Store, Write, WorkStep, GoesOn
<1> QED BY <1>1, <1>2

LEMMA StoreOrLeaveSteps ==
  ASSUME StatusInv, NEW w \in Workers, NEW s, StoreOrLeave(w, s),
         worker[w].current => Good(s) /\ Ahead(worker[w].copy, s)
  PROVE  WorkStep(w)
BY LeaveSteps, StoreSteps DEF StoreOrLeave

(* A step of a worker keeps the statuses and their copies in line.         *)
LEMMA WorkStepKeeps ==
  ASSUME StatusInv, NEW w \in Workers, WorkStep(w), worker[w].pc # "idle",
         UNCHANGED <<plan, live, known, cache>>
  PROVE  StatusInv' /\ Advances
<1> DEFINE e == worker[w].event
<1>1. e \in Events /\ Slot(worker[w]) /\ Follows(worker[w]) /\ None \notin Events
  BY EventAssumption DEF StatusInv, Slot, EventAssumption
<1>2. \A v \in Workers : v # w => worker[v].event # e
  BY <1>1 DEF StatusInv
<1>3. CASE GoesOn(w)
  <2>1. PICK r : /\ Slot(r) /\ worker' = [worker EXCEPT ![w] = r]
                 /\ r = Idle \/ /\ r.event = worker[w].event /\ r.copy.entry = worker[w].copy.entry
                                /\ r.current = worker[w].current
    BY <1>3 DEF GoesOn
  <2>2. UNCHANGED <<api, fresh>>
    BY <1>3 DEF GoesOn
  <2>3. Advances
    BY <2>2 DEF Advances, Ahead
  <2>4. worker' = [v \in Workers |-> worker'[v]] /\ worker'[w] = r
        /\ \A v \in Workers : v # w => worker'[v] = worker[v]
    BY <2>1 DEF StatusInv
  <2>5. Follows(r)
    BY <1>1, <2>1 DEF Follows, Ahead, Idle
  <2>6. \A v \in Workers : Slot(worker'[v]) /\ Follows(worker[v])'
    BY <2>1, <2>2, <2>4, <2>5 DEF StatusInv, Follows, Ahead
  <2>7. \A u, v \in Workers : u # v /\ worker'[u].event = worker'[v].event => worker'[u].event = None
    BY <1>2, <2>1, <2>4 DEF StatusInv, Idle
  <2>8. /\ plan' \in Plans /\ live' \subseteq Events /\ known' \subseteq Events /\ fresh' \subseteq Events
        /\ api' = [f \in Events |-> api'[f]] /\ cache' = [f \in Events |-> cache'[f]]
        /\ \A f \in Events : Good(api'[f]) /\ Good(cache'[f]) /\ Ahead(cache'[f], api'[f])
        /\ \A f \in fresh' : cache'[f] = api'[f]
    BY <2>2 DEF StatusInv
  <2> QED BY <2>3, <2>4, <2>6, <2>7, <2>8 DEF StatusInv
<1>4. CASE Writes(w)
  <2>1. PICK s : Good(s) /\ Ahead(worker[w].copy, s) /\ api' = [api EXCEPT ![e] = s]
    BY <1>4 DEF Writes
  <2>2. worker[w].current /\ worker' = [worker EXCEPT ![w] = Idle] /\ fresh' = fresh \ {e}
    BY <1>4 DEF Writes
  <2>3. api' = [f \in Events |-> api'[f]] /\ api'[e] = s /\ \A f \in Events : f # e => api'[f] = api[f]
    BY <1>1, <2>1 DEF StatusInv
  <2>4. Ahead(api[e], s)
    BY <1>1, <2>1, <2>2 DEF Follows, Ahead
  <2>5. Advances
    BY <2>3, <2>4 DEF Advances, Ahead
  <2>6. worker' = [v \in Workers |-> worker'[v]] /\ worker'[w] = Idle
        /\ \A v \in Workers : v # w => worker'[v] = worker[v]
    BY <2>2 DEF StatusInv
  <2>7. \A v \in Workers : Slot(worker'[v]) /\ Follows(worker[v])'
    <3>1. Slot(worker'[w]) /\ Follows(worker[w])'
      BY <2>6, IdleSlot DEF Follows, Idle
    <3>2. ASSUME NEW v \in Workers, v # w PROVE Slot(worker'[v]) /\ Follows(worker[v])'
      <4>1. worker'[v] = worker[v] /\ Slot(worker[v]) /\ Follows(worker[v])
        BY <2>6, <3>2 DEF StatusInv
      <4>2. worker[v].event \in Events => api'[worker[v].event] = api[worker[v].event]
        BY <1>2, <2>3, <3>2
      <4> QED BY <4>1, <4>2 DEF Slot, Follows
    <3> QED BY <3>1, <3>2
  <2>8. \A u, v \in Workers : u # v /\ worker'[u].event = worker'[v].event => worker'[u].event = None
    BY <2>6 DEF StatusInv, Idle
  <2>9. /\ plan' \in Plans /\ live' \subseteq Events /\ known' \subseteq Events /\ fresh' \subseteq Events
        /\ cache' = [f \in Events |-> cache'[f]]
        /\ \A f \in fresh' : cache'[f] = api'[f]
    BY <2>2, <2>3 DEF StatusInv
  <2>10. \A f \in Events : Good(api'[f]) /\ Good(cache'[f]) /\ Ahead(cache'[f], api'[f])
    <3>1. ASSUME NEW f \in Events PROVE Good(api'[f])
      BY <2>1, <2>3 DEF StatusInv
    <3>2. ASSUME NEW f \in Events PROVE Ahead(cache[f], api'[f])
      BY <2>5 DEF StatusInv, Ahead, Advances
    <3> QED BY <3>1, <3>2 DEF StatusInv
  <2> QED BY <2>3, <2>5, <2>6, <2>7, <2>8, <2>9, <2>10 DEF StatusInv
<1> QED BY <1>3, <1>4 DEF WorkStep

-----------------------------------------------------------------------------
(* The steps of a worker.                                                  *)

(* What a step of a worker may do to PipelineRuns: make the first one of a *)
(* pipeline whose entry it has, or ask for one to be cancelled.            *)
MakesFirst(w) ==
  \E p \in Pipelines :
    /\ Len(runs[worker[w].event][p]) = 0 /\ worker[w].copy.entry[p].status # "none"
    /\ runs' = [runs EXCEPT ![worker[w].event][p] = Append(@, "Running")]
Cancels(w) == \E p, id : runs' = [runs EXCEPT ![worker[w].event][p][id] = "Cancelling"]
RunsStep(w) == UNCHANGED runs \/ MakesFirst(w) \/ Cancels(w)

(* A worker that is at work, with a status it goes on with: its copy, or   *)
(* the copy with another phase.                                            *)
AtWork(w, s) ==
  /\ worker[w].pc # "idle" /\ Good(s) /\ s.entry = worker[w].copy.entry

LEMMA AtWorkIsGood ==
  ASSUME StatusInv, NEW w \in Workers, worker[w].pc # "idle"
  PROVE  AtWork(w, worker[w].copy) /\ worker[w].event \in Events
BY DEF AtWork, StatusInv, Slot

LEMMA SameEntriesSteps ==
  ASSUME StatusInv, NEW w \in Workers, NEW s, AtWork(w, s), Store(w, s) \/ StoreOrLeave(w, s)
  PROVE  WorkStep(w)
BY StoreSteps, StoreOrLeaveSteps DEF AtWork, Ahead

LEMMA SetEntrySteps ==
  ASSUME StatusInv, NEW w \in Workers, NEW s, AtWork(w, s), NEW p, NEW status \in Named,
         p \in Pipelines => s.entry[p].status # "none",
         Store(w, SetEntry(s, p, status)) \/ StoreOrLeave(w, SetEntry(s, p, status))
  PROVE  WorkStep(w)
<1>1. Good(SetEntry(s, p, status)) /\ Ahead(s, SetEntry(s, p, status))
  BY EntryGood DEF AtWork
<1>2. Ahead(worker[w].copy, SetEntry(s, p, status))
  BY <1>1 DEF AtWork, Ahead
<1> QED BY <1>1, <1>2, StoreSteps, StoreOrLeaveSteps

(* A new entry is written only if the status has none, and then there is   *)
(* no run yet.                                                             *)
LEMMA NewEntrySteps ==
  ASSUME StatusInv, RunInv, NEW w \in Workers, NEW s, AtWork(w, s), NEW p, s.entry[p].status = "none",
         Store(w, [s EXCEPT !.entry[p] = NewEntry(worker[w].event, p)])
  PROVE  WorkStep(w)
<1> DEFINE e == worker[w].event
           t == [s EXCEPT !.entry[p] = NewEntry(e, p)]
<1>1. ASSUME worker[w].current PROVE Good(t) /\ Ahead(worker[w].copy, t)
  <2>1. e \in Events /\ Follows(worker[w]) /\ None \notin Events
    BY AtWorkIsGood, EventAssumption DEF AtWork, StatusInv, EventAssumption
  <2>2. s.entry = api[e].entry
    BY <1>1, <2>1 DEF Follows, AtWork
  <2>3. p \in Pipelines => Len(runs[e][p]) = 0
    BY <2>1, <2>2 DEF RunInv
  <2>4. Good(t) /\ Ahead(s, t)
    BY <2>3, NewEntryGood DEF AtWork
  <2>5. Ahead(worker[w].copy, t)
    BY <2>4 DEF AtWork, Ahead
  <2> QED BY <2>4, <2>5
<1> QED BY <1>1, StoreSteps

LEMMA MakeRunSteps ==
  ASSUME StatusInv, RunInv, NEW w \in Workers, NEW s, AtWork(w, s), NEW p, MakeRun(w, s, p)
  PROVE  WorkStep(w) /\ RunsStep(w)
<1> DEFINE e == worker[w].event
<1>1. WorkStep(w)
  BY SameEntriesSteps, LeaveSteps DEF MakeRun
<1>2. CASE s.entry[p].id > Len(runs[e][p])
  <2>1. runs' = [runs EXCEPT ![e][p] = Append(@, "Running")] /\ e \in Events
    BY <1>2, AtWorkIsGood DEF MakeRun, AtWork
  <2>2. CASE p \in Pipelines
    <3>1. s.entry[p] \in OneEntries /\ Len(runs[e][p]) \in {0, 1}
      BY <2>1, <2>2 DEF AtWork, Good, RunInv
    <3>2. Len(runs[e][p]) = 0 /\ s.entry[p].status # "none"
      BY <1>2, <3>1 DEF OneEntries, NoEntry, Named
    <3> QED BY <1>1, <2>1, <2>2, <3>2 DEF RunsStep, MakesFirst, AtWork
  <2>3. CASE p \notin Pipelines
    <3>1. runs[e] = [runs[e] EXCEPT ![p] = Append(runs[e][p], "Running")]
      BY <2>1, <2>3 DEF RunInv
    <3> QED BY <1>1, <2>1, <3>1 DEF RunsStep, RunInv
  <2> QED BY <2>2, <2>3
<1>3. CASE ~(s.entry[p].id > Len(runs[e][p]))
  BY <1>1, <1>3 DEF MakeRun, RunsStep
<1> QED BY <1>2, <1>3

LEMMA CancelRunSteps ==
  ASSUME StatusInv, NEW w \in Workers, NEW s, AtWork(w, s), NEW p, CancelRun(w, s, p)
  PROVE  WorkStep(w) /\ RunsStep(w)
<1>1. WorkStep(w)
  BY SameEntriesSteps, LeaveSteps DEF CancelRun
<1>2. UNCHANGED runs \/ Cancels(w)
  BY DEF CancelRun, Cancels
<1> QED BY <1>1, <1>2 DEF RunsStep

LEMMA RollBackSteps ==
  ASSUME StatusInv, RunInv, NEW w \in Workers, NEW s, AtWork(w, s), NEW p, RollBack(w, s, p)
  PROVE  WorkStep(w) /\ RunsStep(w)
<1> DEFINE run == Look(worker[w].event, p, s.entry[p].id)
           status == s.entry[p].status
<1>1. CASE status = "none" /\ Store(w, [s EXCEPT !.entry[p] = NewEntry(worker[w].event, p)]) /\ UNCHANGED runs
  BY <1>1, NewEntrySteps DEF RunsStep
<1>2. CASE StoreOrLeave(w, s) /\ UNCHANGED runs
  BY <1>2, SameEntriesSteps DEF RunsStep
<1>3. CASE MakeRun(w, s, p)
  BY <1>3, MakeRunSteps
<1>4. CASE status \in {"Pending", "Running", "Cancelled"} /\ run \in Terminal
           /\ StoreOrLeave(w, SetEntry(s, p, run)) /\ UNCHANGED runs
  <2>1. run \in Named /\ status # "none"
    BY <1>4 DEF Terminal, Named, Statuses
  <2> QED BY <1>4, <2>1, SetEntrySteps DEF RunsStep
<1>5. CASE status \in {"Pending", "Running"} /\ StoreOrLeave(w, SetEntry(s, p, "Running")) /\ UNCHANGED runs
  <2>1. "Running" \in Named /\ status # "none"
    BY <1>5 DEF Named, Statuses
  <2> QED BY <1>5, <2>1, SetEntrySteps DEF RunsStep
<1>6. CASE CancelRun(w, s, p)
  BY <1>6, CancelRunSteps
<1> QED BY <1>1, <1>2, <1>3, <1>4, <1>5, <1>6 DEF RollBack

LEMMA PassSteps ==
  ASSUME StatusInv, NEW w \in Workers, worker[w].pc # "idle", Pass(w)
  PROVE  WorkStep(w)
BY AtWorkIsGood, GoesSteps DEF Pass, AtWork

LEMMA ProposeSteps ==
  ASSUME StatusInv, NEW w \in Workers, worker[w].pc # "idle", NEW e,
         Propose(w, [worker[w].copy EXCEPT !.leader = e])
  PROVE  WorkStep(w)
<1>1. Good([worker[w].copy EXCEPT !.leader = e])
      /\ [worker[w].copy EXCEPT !.leader = e].entry = worker[w].copy.entry
  BY AtWorkIsGood, LeaderGood DEF AtWork
<1> QED BY <1>1, GoesSteps DEF Propose

LEMMA PhaseAtWork ==
  ASSUME NEW w \in Workers, NEW s, AtWork(w, s), NEW phase
  PROVE  AtWork(w, [s EXCEPT !.phase = phase]) /\ [s EXCEPT !.phase = phase].entry = s.entry
BY PhaseGood DEF AtWork

LEMMA StageRunSteps ==
  ASSUME StatusInv, RunInv, NEW w \in Workers, worker[w].pc # "idle", StageRun(w)
  PROVE  WorkStep(w) /\ RunsStep(w)
<1> DEFINE s == worker[w].copy
           i == worker[w].stage
           p == Stage(i).name
           status == s.entry[p].status
           run == Look(worker[w].event, p, s.entry[p].id)
<1>1. AtWork(w, s)
  BY AtWorkIsGood
<1>2. CASE (Leave(w) \/ Pass(w)) /\ UNCHANGED runs
  BY <1>2, LeaveSteps, PassSteps DEF RunsStep
<1>3. CASE RunInit(w, s, p)
  BY <1>1, <1>3, NewEntrySteps DEF RunInit, RunsStep
<1>4. CASE status \notin {"none", "Completed"} /\ RunAbsent(w, s, i, p)
  <2>1. CASE StoreOrLeave(w, SetEntry(s, p, "Rollback")) /\ UNCHANGED runs
    <3>1. "Rollback" \in Named
      BY DEF Named, Statuses
    <3> QED BY <1>1, <1>4, <2>1, <3>1, SetEntrySteps DEF RunsStep
  <2>2. CASE StoreOrLeave(w, s) /\ UNCHANGED runs
    BY <1>1, <2>2, SameEntriesSteps DEF RunsStep
  <2>3. CASE RollBack(w, s, Stage(i).rollback)
    BY <1>1, <2>3, RollBackSteps
  <2>4. CASE MakeRun(w, s, p)
    BY <1>1, <2>4, MakeRunSteps
  <2> QED BY <1>2, <1>4, <2>1, <2>2, <2>3, <2>4 DEF RunAbsent
<1>5. CASE RunCompleted(w, s, p)
  <2> DEFINE t == SetEntry(s, p, "Completed")
  <2>1. Good(t) /\ Ahead(s, t)
    <3>1. "Completed" \in Named
      BY DEF Named, Statuses
    <3> QED BY <1>1, <1>5, <3>1, EntryGood DEF AtWork, RunCompleted
  <2> HIDE DEF t
  <2>2. Good([t EXCEPT !.phase = "Running"]) /\ Ahead(s, [t EXCEPT !.phase = "Running"])
    BY <2>1, PhaseGood DEF Ahead
  <2> QED BY <1>5, <2>2, StoreSteps DEF RunCompleted, RunsStep, t
<1>6. CASE RunStopped(w, s, i, p)
  <2> DEFINE t == [s EXCEPT !.phase = run]
  <2>1. AtWork(w, t) /\ t.entry = s.entry
    BY <1>1, PhaseAtWork
  <2> HIDE DEF t
  <2>2. status \notin {"none", "Completed"} /\ run \in {"Cancelled", "Failed"}
    BY <1>6 DEF RunStopped
  <2>3. CASE RollBack(w, t, Stage(i).rollback)
    BY <2>1, <2>3, RollBackSteps
  <2>4. CASE status # "Rollback"
    <3>1. PICK end \in {"Rollback", "Cancelled", "Failed"} :
             StoreOrLeave(w, SetEntry(t, p, end)) /\ UNCHANGED runs
      BY <1>6, <2>2, <2>4 DEF RunStopped, t
    <3>2. end \in Named
      BY <3>1 DEF Named, Statuses
    <3> QED BY <2>1, <2>2, <3>1, <3>2, SetEntrySteps DEF RunsStep
  <2> QED BY <1>6, <2>3, <2>4 DEF RunStopped, t
<1>7. CASE RunRunning(w, s, p)
  <2> DEFINE t == [s EXCEPT !.phase = "Running"]
  <2>1. AtWork(w, t) /\ t.entry = s.entry
    BY <1>1, PhaseAtWork
  <2> HIDE DEF t
  <2>2. CASE CancelRun(w, t, p)
    BY <2>1, <2>2, CancelRunSteps
  <2>3. CASE StoreOrLeave(w, SetEntry(t, p, "Running")) /\ UNCHANGED runs
    <3>1. "Running" \in Named /\ status # "none"
      BY <1>7 DEF Named, Statuses, RunRunning
    <3> QED BY <2>1, <2>3, <3>1, SetEntrySteps DEF RunsStep
  <2> QED BY <1>7, <2>2, <2>3 DEF RunRunning, t
<1> QED BY <1>2, <1>3, <1>4, <1>5, <1>6, <1>7 DEF StageRun, RunPassed

LEMMA DoStageSteps ==
  ASSUME StatusInv, RunInv, NEW w \in Workers, DoStage(w)
  PROVE  WorkStep(w) /\ RunsStep(w)
<1>1. worker[w].pc # "idle"
  BY DEF DoStage
<1>2. CASE StageJoin(w)
  BY <1>1, <1>2, ProposeSteps DEF StageJoin, RunsStep
<1>3. CASE StageWait(w)
  BY <1>3, LeaveSteps DEF StageWait, RunsStep
<1>4. CASE StageElect(w)
  <2> DEFINE t == [worker[w].copy EXCEPT !.leader = worker[w].event]
  <2>1. CASE Store(w, t)
    <3>1. AtWork(w, t)
      BY <1>1, AtWorkIsGood, LeaderGood DEF AtWork
    <3> QED BY <1>4, <2>1, <3>1, SameEntriesSteps DEF StageElect, RunsStep
  <2>2. CASE \E e : Propose(w, [worker[w].copy EXCEPT !.leader = e])
    BY <1>1, <1>4, <2>2, ProposeSteps DEF StageElect, RunsStep
  <2> QED BY <1>4, <2>1, <2>2 DEF StageElect
<1>5. CASE StageFollow(w)
  BY <1>1, <1>5, LeaveSteps, PassSteps DEF StageFollow, RunsStep
<1>6. CASE StageLock(w)
  <2>1. CASE Move(w, "unlock")
    BY <1>1, <1>6, <2>1, AtWorkIsGood, GoesSteps DEF StageLock, Move, AtWork, RunsStep
  <2> QED BY <1>6, <2>1, LeaveSteps DEF StageLock, RunsStep
<1>7. CASE StageRun(w)
  BY <1>1, <1>7, StageRunSteps
<1> QED BY <1>2, <1>3, <1>4, <1>5, <1>6, <1>7 DEF DoStage

LEMMA UnlockSteps ==
  ASSUME StatusInv, NEW w \in Workers, Unlock(w)
  PROVE  WorkStep(w)
<1>1. worker[w].pc # "idle"
  BY DEF Unlock
<1>2. CASE Move(w, "run")
  BY <1>1, <1>2, AtWorkIsGood, GoesSteps DEF Move, AtWork
<1> QED BY <1>2, LeaveSteps DEF Unlock

LEMMA EndSteps ==
  ASSUME StatusInv, NEW w \in Workers, Finish(w) \/ Save(w)
  PROVE  WorkStep(w)
<1>1. AtWork(w, worker[w].copy)
  BY AtWorkIsGood DEF Finish, Save
<1>2. AtWork(w, [worker[w].copy EXCEPT !.phase = "Completed"])
  BY <1>1, PhaseAtWork
<1> QED BY <1>1, <1>2, SameEntriesSteps DEF Finish, Save

(* A worker takes an event nobody is at work on.                           *)
LEMMA TakeKeeps ==
  ASSUME StatusInv, NEW w \in Workers, NEW e \in Events, Take(w, e)
  PROVE  StatusInv' /\ Advances
<1>1. /\ worker[w] = Idle /\ \A v \in Workers : worker[v].event # e
      /\ UNCHANGED <<plan, known, cache>>
  BY DEF Take
<1>2. live' \subseteq Events
  BY DEF Take, StatusInv, AcquireKept, AcquireTaken, AcquireWaits, AcquireTooOld
<1>3. e # None
  BY EventAssumption DEF EventAssumption
<1>4. CASE UNCHANGED <<worker, api, fresh>>
  <2>1. Advances
    BY <1>4 DEF Advances, Ahead
  <2> QED BY <1>1, <1>2, <1>4, <2>1 DEF StatusInv, Follows, Ahead
<1>5. CASE e \in fresh /\ UNCHANGED worker /\ api' = [api EXCEPT ![e] = Probe(e, cache[e])] /\ fresh' = fresh \ {e}
  <2> DEFINE s == Probe(e, cache[e])
  <2>1. Good(s) /\ s.entry = api[e].entry
    <3>1. Good(cache[e]) /\ cache[e] = api[e]
      BY <1>5 DEF StatusInv
    <3> QED BY <3>1, ProbeGood
  <2> HIDE DEF s
  <2>2. api' = [f \in Events |-> api'[f]] /\ api'[e] = s /\ \A f \in Events : f # e => api'[f] = api[f]
    BY <1>5 DEF StatusInv, s
  <2>3. \A f \in Events : Good(api'[f]) /\ api'[f].entry = api[f].entry
    BY <2>1, <2>2 DEF StatusInv
  <2>4. Advances
    BY <2>3 DEF Advances, Ahead
  <2>5. \A f \in Events : Good(cache'[f]) /\ Ahead(cache'[f], api'[f])
    BY <1>1, <2>3 DEF StatusInv, Ahead
  <2>6. \A f \in fresh' : cache'[f] = api'[f]
    BY <1>1, <1>5, <2>2 DEF StatusInv
  <2>7. \A v \in Workers : Slot(worker[v])' /\ Follows(worker[v])'
    <3>1. ASSUME NEW v \in Workers PROVE Slot(worker[v]) /\ Follows(worker[v])'
      <4>1. Slot(worker[v]) /\ Follows(worker[v]) /\ worker'[v] = worker[v]
        BY <1>5 DEF StatusInv
      <4>2. worker[v].event \in Events => api'[worker[v].event].entry = api[worker[v].event].entry
        BY <2>3
      <4> QED BY <4>1, <4>2 DEF Slot, Follows, Ahead
    <3> QED BY <1>5, <3>1 DEF Slot
  <2> QED BY <1>1, <1>2, <1>5, <2>2, <2>3, <2>4, <2>5, <2>6, <2>7 DEF StatusInv
<1>6. CASE Begin(w, e) /\ UNCHANGED <<api, fresh>>
  <2> DEFINE r == [pc |-> "stage", event |-> e, copy |-> cache[e], current |-> e \in fresh, stage |-> 1]
  <2>1. Slot(r)
    BY <1>3 DEF Slot, StatusInv
  <2>2. r.event = e /\ Ahead(r.copy, api[e]) /\ (r.current => r.copy.entry = api[e].entry)
    BY DEF StatusInv
  <2>3. worker' = [worker EXCEPT ![w] = r]
    BY <1>6 DEF Begin
  <2> HIDE DEF r
  <2>4. worker' = [v \in Workers |-> worker'[v]] /\ worker'[w] = r
        /\ \A v \in Workers : v # w => worker'[v] = worker[v]
    BY <2>3 DEF StatusInv
  <2>5. \A v \in Workers : Slot(worker[v])' /\ Follows(worker[v])'
    BY <1>6, <2>1, <2>2, <2>4 DEF StatusInv, Slot, Follows, Ahead
  <2>6. \A u, v \in Workers : u # v /\ worker'[u].event = worker'[v].event => worker'[u].event = None
    BY <1>1, <2>2, <2>4 DEF StatusInv
  <2>7. Advances
    BY <1>6 DEF Advances, Ahead
  <2> QED BY <1>1, <1>2, <1>6, <2>4, <2>5, <2>6, <2>7 DEF StatusInv
<1> QED BY <1>4, <1>5, <1>6 DEF Take, Refuse, AcquireKept, AcquireTaken, AcquireWaits, AcquireTooOld

(* The informers take over what is in the API server.                      *)
LEMMA ObserveKeeps ==
  ASSUME StatusInv, NEW e \in Events, ObserveEvent(e) \/ ObserveDeletion(e)
  PROVE  StatusInv' /\ Advances
<1>1. /\ UNCHANGED <<plan, live, api, worker>> /\ known' \subseteq Events /\ fresh' \subseteq Events
      /\ \A f \in fresh' \ {e} : f \in fresh
  BY DEF ObserveEvent, ObserveDeletion, resources, StatusInv
<1>2. PICK s \in {api[e], NewStatus} : cache' = [cache EXCEPT ![e] = s] /\ (e \in fresh' => s = api[e])
  BY DEF ObserveEvent, ObserveDeletion
<1>3. Good(s) /\ Ahead(s, api[e])
  <2>1. \A p \in Pipelines : NewStatus.entry[p].status = "none"
    BY DEF NewStatus, NoEntry
  <2> QED BY <1>2, <2>1, NewIsGood DEF StatusInv, Ahead
<1>4. cache' = [f \in Events |-> cache'[f]] /\ cache'[e] = s /\ \A f \in Events : f # e => cache'[f] = cache[f]
  BY <1>2 DEF StatusInv
<1>5. \A f \in Events : Good(cache'[f]) /\ Ahead(cache'[f], api[f])
  BY <1>3, <1>4 DEF StatusInv
<1>6. \A f \in fresh' : cache'[f] = api'[f]
  BY <1>1, <1>2, <1>4 DEF StatusInv
<1>7. Advances
  BY <1>1 DEF Advances, Ahead
<1>8. \A v \in Workers : Slot(worker[v])' /\ Follows(worker[v])'
  BY <1>1 DEF StatusInv, Slot, Follows, Ahead
<1> QED BY <1>1, <1>4, <1>5, <1>6, <1>7, <1>8 DEF StatusInv

(* After a restart the cache is what the API server has.                   *)
LEMMA RebornKeeps ==
  ASSUME StatusInv, Reborn
  PROVE  StatusInv' /\ Advances
<1>1. /\ UNCHANGED <<plan, live, api>> /\ known' = live /\ fresh' = live
      /\ cache' = [e \in Events |-> IF e \in live THEN api[e] ELSE NewStatus]
      /\ worker' = [w \in Workers |-> Idle]
  BY DEF Reborn, resources
<1>2. Advances
  BY <1>1 DEF Advances, Ahead
<1>3. \A w \in Workers : Slot(worker[w])' /\ Follows(worker[w])'
  BY <1>1, IdleSlot DEF Slot, Follows, Idle
<1>4. \A f \in Events : Good(cache'[f]) /\ Ahead(cache'[f], api'[f])
  BY <1>1, NewIsGood DEF StatusInv, Ahead, NewStatus, NoEntry
<1>5. \A u, v \in Workers : worker'[u].event = None
  BY <1>1 DEF Idle
<1>6. cache' = [f \in Events |-> cache'[f]] /\ worker' = [v \in Workers |-> worker'[v]]
      /\ \A f \in fresh' : cache'[f] = api'[f]
  BY <1>1 DEF StatusInv
<1> QED BY <1>1, <1>2, <1>3, <1>4, <1>5, <1>6 DEF StatusInv

(* A user asks for what has an entry, and makes every copy an old one.     *)
LEMMA AskKeeps ==
  ASSUME StatusInv, NEW e \in Events, NEW i \in Indexes, Ask(e, i)
  PROVE  StatusInv' /\ Advances
<1> DEFINE p == Stage(i).name
<1>1. /\ UNCHANGED <<plan, live, known, cache>> /\ fresh' = fresh \ {e}
      /\ worker' = [w \in Workers |-> IF worker[w].event = e
                                       THEN [worker[w] EXCEPT !.current = FALSE] ELSE worker[w]]
  BY DEF Ask, Supersede
<1>2. PICK status \in Named : api' = [api EXCEPT ![e] = SetEntry(api[e], p, status)] /\ api[e].entry[p].status # "none"
  BY DEF Ask, Named, Statuses
<1>3. Good(SetEntry(api[e], p, status)) /\ Ahead(api[e], SetEntry(api[e], p, status))
  BY <1>2, EntryGood DEF StatusInv
<1>4. api' = [f \in Events |-> api'[f]] /\ api'[e] = SetEntry(api[e], p, status)
      /\ \A f \in Events : f # e => api'[f] = api[f]
  BY <1>2 DEF StatusInv
<1>5. Advances
  BY <1>3, <1>4 DEF Advances, Ahead
<1>6. \A f \in Events : Good(api'[f]) /\ Good(cache'[f]) /\ Ahead(cache'[f], api'[f])
  <2>1. ASSUME NEW f \in Events PROVE Good(api'[f])
    BY <1>3, <1>4 DEF StatusInv
  <2>2. ASSUME NEW f \in Events PROVE Ahead(cache[f], api'[f])
    BY <1>5 DEF StatusInv, Ahead, Advances
  <2> QED BY <1>1, <2>1, <2>2 DEF StatusInv
<1>7. \A f \in fresh' : cache'[f] = api'[f]
  BY <1>1, <1>4 DEF StatusInv
<1>8. ASSUME NEW w \in Workers PROVE Slot(worker[w])' /\ Follows(worker[w])' /\ worker'[w].event = worker[w].event
  <2>1. Slot(worker[w]) /\ Follows(worker[w])
    BY DEF StatusInv
  <2>2. CASE worker[w].event = e
    <3>1. worker'[w] = [pc |-> worker[w].pc, event |-> e, copy |-> worker[w].copy,
                        current |-> FALSE, stage |-> worker[w].stage]
      <4>1. worker'[w] = [worker[w] EXCEPT !.current = FALSE]
        BY <1>1, <2>2
      <4> QED BY <2>1, <2>2, <4>1 DEF Slot
    <3>2. Ahead(worker[w].copy, api'[e])
      BY <1>5, <2>1, <2>2, EventAssumption DEF Follows, Ahead, Advances, EventAssumption
    <3> QED BY <2>1, <2>2, <3>1, <3>2 DEF Slot, Follows
  <2>3. CASE worker[w].event # e
    <3>1. worker'[w] = worker[w]
      BY <1>1, <2>3
    <3>2. worker[w].event # None => api'[worker[w].event] = api[worker[w].event]
      BY <1>4, <2>1, <2>3 DEF Slot
    <3> QED BY <2>1, <3>1, <3>2 DEF Slot, Follows
  <2> QED BY <2>2, <2>3
<1>9. worker' = [w \in Workers |-> worker'[w]]
  BY <1>1
<1>10. \A u, v \in Workers : u # v /\ worker'[u].event = worker'[v].event => worker'[u].event = None
  BY <1>8 DEF StatusInv
<1> QED BY <1>1, <1>4, <1>5, <1>6, <1>7, <1>8, <1>9, <1>10 DEF StatusInv

LEMMA OthersKeep ==
  ASSUME StatusInv, UNCHANGED <<plan, api, caches, worker>>, live' \subseteq Events
  PROVE  StatusInv' /\ Advances
<1>1. Advances
  BY DEF Advances, Ahead
<1>2. \A v \in Workers : Slot(worker[v])' /\ Follows(worker[v])'
  BY DEF StatusInv, Slot, Follows, Ahead
<1> QED BY <1>1, <1>2 DEF StatusInv, caches

-----------------------------------------------------------------------------
(* PipelineRuns. *)

LEMMA SeqWith ==
  ASSUME NEW t \in Seq(RunStates), NEW id, NEW x \in RunStates
  PROVE  [t EXCEPT ![id] = x] \in Seq(RunStates) /\ Len([t EXCEPT ![id] = x]) = Len(t)
<1>1. CASE id \in 1 .. Len(t)
  BY <1>1, ExceptSeq
<1>2. CASE id \notin 1 .. Len(t)
  <2>1. DOMAIN t = 1 .. Len(t)
    OBVIOUS
  <2>2. t = [i \in DOMAIN t |-> t[i]]
    OBVIOUS
  <2>3. [t EXCEPT ![id] = x] = t
    BY <1>2, <2>1, <2>2
  <2> QED BY <2>3
<1> QED BY <1>1, <1>2

(* The invariant, if one pipeline of one event gets other runs. *)
LEMMA RunsWith ==
  ASSUME RunInv, Advances, NEW e \in Events, NEW p \in Pipelines, NEW t \in Seq(RunStates),
         runs' = [runs EXCEPT ![e][p] = t],
         Len(t) = Len(runs[e][p]) \/ (Len(t) = 1 /\ api'[e].entry[p].status # "none")
  PROVE  RunInv'
<1>1. runs' \in [Events -> [Pipelines -> Seq(RunStates)]] /\ runs'[e][p] = t
      /\ \A f \in Events, q \in Pipelines : f # e \/ q # p => runs'[f][q] = runs[f][q]
  BY DEF RunInv
<1>2. ASSUME NEW f \in Events, NEW q \in Pipelines, api[f].entry[q].status # "none"
      PROVE  api'[f].entry[q].status # "none"
  BY <1>2 DEF Advances, Ahead
<1>3. ASSUME NEW f \in Events, NEW q \in Pipelines
      PROVE  Len(runs'[f][q]) = 0 \/ (Len(runs'[f][q]) = 1 /\ api'[f].entry[q].status # "none")
  <2>1. CASE f = e /\ q = p
    BY <1>1, <1>2, <2>1 DEF RunInv
  <2>2. CASE ~(f = e /\ q = p)
    BY <1>1, <1>2, <2>2 DEF RunInv
  <2> QED BY <2>1, <2>2
<1> QED BY <1>1, <1>3 DEF RunInv

LEMMA RunsStepKeeps ==
  ASSUME StatusInv, RunInv, Advances, NEW w \in Workers, worker[w].pc # "idle", RunsStep(w)
  PROVE  RunInv'
<1> DEFINE e == worker[w].event
<1>1. e \in Events /\ Follows(worker[w]) /\ e # None
  BY AtWorkIsGood DEF StatusInv, Slot
<1>2. CASE UNCHANGED runs
  BY <1>2 DEF RunInv, Advances, Ahead
<1>3. CASE MakesFirst(w)
  <2>1. PICK p \in Pipelines :
          /\ Len(runs[e][p]) = 0 /\ worker[w].copy.entry[p].status # "none"
          /\ runs' = [runs EXCEPT ![e][p] = Append(runs[e][p], "Running")]
    BY <1>1, <1>3 DEF MakesFirst, RunInv
  <2>2. api'[e].entry[p].status # "none"
    BY <1>1, <2>1 DEF Follows, Ahead, Advances
  <2>3. Append(runs[e][p], "Running") \in Seq(RunStates) /\ Len(Append(runs[e][p], "Running")) = 1
    <3>1. runs[e][p] \in Seq(RunStates) /\ "Running" \in RunStates
      BY <1>1 DEF RunInv, RunStates
    <3> QED BY <2>1, <3>1
  <2> QED BY <1>1, <2>1, <2>2, <2>3, RunsWith
<1>4. CASE Cancels(w)
  <2>1. PICK p, id : runs' = [runs EXCEPT ![e][p][id] = "Cancelling"]
    BY <1>4 DEF Cancels
  <2>2. CASE p \in Pipelines
    <3>1. runs[e][p] \in Seq(RunStates) /\ "Cancelling" \in RunStates
      BY <1>1, <2>2 DEF RunInv, RunStates
    <3>2. runs' = [runs EXCEPT ![e][p] = [runs[e][p] EXCEPT ![id] = "Cancelling"]]
      BY <2>1
    <3> QED BY <1>1, <2>2, <3>1, <3>2, SeqWith, RunsWith
  <2>3. CASE p \notin Pipelines
    <3>1. runs' = runs
      BY <1>1, <2>1, <2>3 DEF RunInv
    <3> QED BY <3>1 DEF RunInv, Advances, Ahead
  <2> QED BY <2>2, <2>3
<1> QED BY <1>2, <1>3, <1>4 DEF RunsStep

LEMMA EndRunKeeps ==
  ASSUME RunInv, Advances, NEW e \in Events, NEW p \in Pipelines, EndRun(e, p)
  PROVE  RunInv'
<1>1. PICK id \in DOMAIN runs[e][p], end \in {"Completed", "Failed", "Cancelled"} :
        runs' = [runs EXCEPT ![e][p][id] = end]
  BY DEF EndRun
<1>2. runs[e][p] \in Seq(RunStates) /\ end \in RunStates
  BY DEF RunInv, RunStates, Terminal
<1>3. runs' = [runs EXCEPT ![e][p] = [runs[e][p] EXCEPT ![id] = end]]
  BY <1>1
<1> QED BY <1>2, <1>3, SeqWith, RunsWith

LEMMA StepKeeps == StatusInv /\ RunInv /\ [Next]_vars => StatusInv' /\ RunInv'
<1> SUFFICES ASSUME StatusInv, RunInv, [Next]_vars PROVE StatusInv' /\ RunInv'
  OBVIOUS
<1>1. ASSUME Advances, UNCHANGED runs PROVE RunInv'
  BY <1>1 DEF RunInv, Advances, Ahead
<1>2. ASSUME NEW w \in Workers, DoStage(w) PROVE StatusInv' /\ RunInv'
  <2>1. WorkStep(w) /\ RunsStep(w) /\ worker[w].pc # "idle" /\ UNCHANGED <<plan, live, known, cache>>
    BY <1>2, DoStageSteps DEF DoStage
  <2> QED BY <2>1, WorkStepKeeps, RunsStepKeeps
<1>3. ASSUME NEW w \in Workers, Unlock(w) \/ Finish(w) \/ Save(w) PROVE StatusInv' /\ RunInv'
  <2>1. WorkStep(w) /\ worker[w].pc # "idle" /\ UNCHANGED <<plan, live, known, cache, runs>>
    BY <1>3, UnlockSteps, EndSteps DEF Unlock, Finish, Save
  <2> QED BY <1>1, <2>1, WorkStepKeeps
<1>4. ASSUME NEW w \in Workers, NEW e \in Events, Take(w, e) PROVE StatusInv' /\ RunInv'
  <2>1. UNCHANGED runs
    BY <1>4 DEF Take
  <2> QED BY <1>1, <1>4, <2>1, TakeKeeps
<1>5. CASE Crash \/ \E w \in Workers : Panic(w)
  <2>1. Reborn
    BY <1>5 DEF Crash, Panic
  <2>2. UNCHANGED runs
    BY <2>1 DEF Reborn, resources
  <2> QED BY <1>1, <2>1, <2>2, RebornKeeps
<1>6. ASSUME NEW e \in Events, ObserveEvent(e) \/ ObserveDeletion(e) PROVE StatusInv' /\ RunInv'
  <2>1. UNCHANGED runs
    BY <1>6 DEF ObserveEvent, ObserveDeletion, resources
  <2> QED BY <1>1, <1>6, <2>1, ObserveKeeps
<1>7. ASSUME NEW e \in Events, NEW i \in Indexes, Ask(e, i) PROVE StatusInv' /\ RunInv'
  <2>1. UNCHANGED runs
    BY <1>7 DEF Ask
  <2> QED BY <1>1, <1>7, <2>1, AskKeeps
<1>8. ASSUME NEW e \in Events, NEW p \in Pipelines, EndRun(e, p) PROVE StatusInv' /\ RunInv'
  <2>1. UNCHANGED <<plan, live, api, caches, worker>>
    BY <1>8 DEF EndRun
  <2>2. StatusInv' /\ Advances
    BY <2>1, OthersKeep DEF StatusInv
  <2> QED BY <1>8, <2>2, EndRunKeeps
<1>9. ASSUME NEW e \in Events, NEW p \in Pipelines, ObserveRun(e, p) PROVE StatusInv' /\ RunInv'
  <2>1. UNCHANGED <<plan, live, api, known, cache, fresh, worker, runs>>
    BY <1>9 DEF ObserveRun, resources
  <2>2. StatusInv' /\ Advances
    <3>1. Advances
      BY <2>1 DEF Advances, Ahead
    <3>2. \A v \in Workers : Slot(worker[v])' /\ Follows(worker[v])'
      BY <2>1 DEF StatusInv, Slot, Follows, Ahead
    <3> QED BY <2>1, <3>1, <3>2 DEF StatusInv
  <2> QED BY <1>1, <2>1, <2>2
<1>10. CASE Collect \/ UNCHANGED vars \/ \E e \in Events : Create(e) \/ Delete(e)
  <2>1. UNCHANGED <<plan, api, caches, worker, runs>> /\ live' \subseteq Events
    BY <1>10 DEF Collect, Create, Delete, vars, resources, StatusInv
  <2> QED BY <1>1, <2>1, OthersKeep
<1> QED BY <1>2, <1>3, <1>4, <1>5, <1>6, <1>7, <1>8, <1>9, <1>10 DEF Next, Work

LEMMA Starts == Init => StatusInv /\ RunInv
<1> SUFFICES ASSUME Init PROVE StatusInv /\ RunInv
  OBVIOUS
<1>1. \A e \in Events : api[e] = NewStatus /\ cache[e] = NewStatus
  BY DEF Init
<1>2. \A w \in Workers : worker[w] = Idle
  BY DEF Init
<1>3. \A w \in Workers : Slot(worker[w]) /\ Follows(worker[w]) /\ worker[w].event = None
  BY <1>2, IdleSlot DEF Follows, Idle
<1>4. \A e \in Events : Good(api[e]) /\ Good(cache[e]) /\ Ahead(cache[e], api[e])
  BY <1>1, NewIsGood DEF Ahead
<1>5. StatusInv
  BY <1>3, <1>4 DEF Init, StatusInv
<1>6. RunInv
  BY DEF Init, RunInv
<1> QED BY <1>5, <1>6

(* However often the call that makes a PipelineRun is repeated, with       *)
(* whatever cache, by however many workers, and after crashes: an event    *)
(* makes one run of a pipeline, because its name is in the status before   *)
(* (getPipelineRunStatusOrInit and createPipelineRun of pipelinerun.go).   *)
THEOREM AlwaysOneRunEach == Spec => []OneRunEach
<1>1. RunInv => OneRunEach
  <2>1. ASSUME RunInv, NEW e \in Events, NEW p \in Pipelines PROVE Len(runs[e][p]) <= 1
    <3>1. \A n : n = 0 \/ n = 1 => n <= 1
      OBVIOUS
    <3> QED BY <2>1, <3>1 DEF RunInv
  <2> QED BY <2>1 DEF OneRunEach
<1>2. Spec => [](StatusInv /\ RunInv)
  BY Starts, StepKeeps, PTL DEF Spec
<1> QED BY <1>1, <1>2, PTL
=============================================================================
