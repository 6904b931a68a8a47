-------------------------- MODULE EventTurns_proofs --------------------------
(***************************************************************************)
(* Proofs about EventController, for any events, calendars, workers and    *)
(* bounds: events of one name take turns, the pipelines of an event start  *)
(* in their order, an event does not begin once a later one has, and the   *)
(* controller implements NameTurns.                                        *)
(*                                                                         *)
(* The argument: caches, copies and leases lag, so what they say must be   *)
(* of the kind that stays true.  That a run has ended, whom an event       *)
(* follows and that an event is over are such facts, and a lease changes   *)
(* hands only over a holder that is over or gone.  The invariant says that *)
(* whatever a status claims, in the API server, in the cache or in the     *)
(* hands of a worker, is backed by such a fact.                            *)
(***************************************************************************)
EXTENDS EventController_proofs, CalendarTime_proofs

(* The i-th pipeline of e is done where it runs.                          *)
Ready(e, i) == Fin(IF Stage(i).leaderOnly THEN api[e].leader ELSE e, Stage(i).name)

(* e has the lease of its name or is done with it, and the holder is not   *)
(* older, unless a user has deleted one.                                   *)
NoDeletes == left.deletes = plan.bound.deletes
Turned(e) == NoDeletes => /\ holder[plan.label[e]] # None
                          /\ plan.born[e] <= plan.born[holder[plan.label[e]]]
Held(e) == (holder[plan.label[e]] = e \/ Over(e) \/ e \in gone) /\ Turned(e)

(* e stands at its i-th pipeline; what is asked for there.                 *)
Stands(e, i) == Own(e, i) /\ \A k \in Indexes : k < i => Ready(e, k)
Reached(e, p) == \E i \in Indexes : Stage(i).name = p /\ Stands(e, i)

(* What a status claims is backed.                                         *)
Fit(e, s) ==
  /\ s.leader \in Events \cup {None}
  /\ \A p \in Pipelines : s.entry[p].status = "Completed" => Fin(e, p)
  /\ \A p \in Forward : s.entry[p].status # "none" => Reached(e, p)
  /\ s.phase \in Terminal => Over(e)
  /\ s.phase \notin {"", "Pending"} => Held(e)
  /\ (\E p \in Pipelines : s.entry[p].status # "none") => Held(e)
Knows(e, s) == s.leader # None => api[e].leader = s.leader

(* What a worker is at, is: it holds the lease, has done what is before.   *)
(* In "save" it has a leader to write, in "unlock" and "run" it leads.     *)
Sits(r) ==
  r.event # None =>
    /\ Fit(r.event, r.copy) /\ Held(r.event)
    /\ r.pc # "save" => Knows(r.event, r.copy)
    /\ r.current => api[r.event].leader = (IF r.pc = "save" THEN None ELSE r.copy.leader)
    /\ r.pc # "save" => r.stage \in Nat \ {0} /\ \A k \in Indexes : k < r.stage => Ready(r.event, k)
    /\ r.pc \in {"unlock", "run"} => r.stage \in Indexes /\ r.copy.leader = r.event

-----------------------------------------------------------------------------
(* The invariant. *)

FitInv == \A e \in Events : Fit(e, api[e]) /\ Fit(e, cache[e]) /\ Knows(e, cache[e])
SitInv == \A w \in Workers : Sits(worker[w])

(* The end of a run in the cache is its end.                               *)
SeenInv ==
  \A e \in Events, p \in Pipelines : LET run == Look(e, p, 1) IN
    /\ run # "absent" => RunOf(e, p) # "none"
    /\ run \in Terminal => RunOf(e, p) = run

(* Without deletions by users, who is gone was older than who has the      *)
(* lease.                                                                  *)
LeaseInv ==
  /\ gone \subseteq Events /\ live \cap gone = {}
  /\ leader \in [Groups -> Events \cup {None}]
  /\ holder \in [Labels -> Events \cup {None}]
  /\ \A n \in Labels : holder[n] # None => plan.label[holder[n]] = n
  /\ left \in [crashes : Nat, asks : Nat, deletes : Nat] /\ left.deletes <= plan.bound.deletes
  /\ NoDeletes => \A g \in gone : LET h == holder[plan.label[g]] IN h # None /\ plan.born[g] < plan.born[h]

TurnInv == FitInv /\ SitInv /\ SeenInv /\ LeaseInv

(* What no step takes back.                                                *)
RunsGoOn ==
  \A e \in Events, p \in Pipelines :
    /\ RunOf(e, p) \in Terminal => RunOf(e, p)' = RunOf(e, p)
    /\ RunOf(e, p) # "none" => RunOf(e, p)' # "none"
Onward ==
  /\ plan' = plan /\ gone \subseteq gone'
  /\ \A e \in Events : api[e].leader # None => api'[e].leader = api[e].leader
  /\ RunsGoOn
  /\ \A n \in Labels : /\ holder'[n] \in Events \cup {None}
                       /\ holder[n] \in {None, holder'[n]} \/ holder[n] \in gone \/ Over(holder[n])
  /\ NoDeletes' => /\ NoDeletes
                   /\ \A n \in Labels : holder[n] # None =>
                        holder'[n] # None /\ plan.born[holder[n]] <= plan.born[holder'[n]]

LEMMA PlanTypes ==
  ASSUME StatusInv
  PROVE  /\ None \notin Events \cup Labels \cup Groups \cup Pipelines
         /\ plan.stages \in Seq(Stages) /\ Indexes = 1 .. Len(plan.stages) /\ Len(plan.stages) \in Nat
         /\ \A i \in Indexes : Stage(i).name \in Pipelines
         /\ Forward \subseteq Pipelines
         /\ \A i \in Indexes : Stage(i).rollback \notin Forward
         /\ \A e \in Events : /\ plan.label[e] \in Labels /\ plan.born[e] \in Nat
                              /\ plan.group[e] \in Groups \cup {None}
         /\ plan.bound \in [crashes : Nat, asks : Nat, deletes : Nat]
<1>1. IsPlan(plan) /\ None \notin Events \cup Labels \cup Groups \cup Pipelines
  BY EventAssumption DEF EventAssumption, StatusInv
<1>2. plan.stages \in Seq(Stages)
  BY <1>1 DEF IsPlan
<1>3. Indexes = 1 .. Len(plan.stages) /\ Len(plan.stages) \in Nat
  BY <1>2 DEF Indexes
<1>4. \A i \in Indexes : Stage(i) \in Stages
  BY <1>2, <1>3 DEF Stage
<1>5. \A i \in Indexes : Stage(i).name \in Pipelines
  BY <1>4 DEF Stages
<1>6. Forward \subseteq Pipelines /\ \A i \in Indexes : Stage(i).rollback \notin Forward
  BY <1>5 DEF Forward
<1> QED BY <1>1, <1>2, <1>3, <1>5, <1>6 DEF IsPlan

-----------------------------------------------------------------------------
(* PipelineRuns, of which there is one at most.                            *)

LEMMA ShortSeqs ==
  ASSUME NEW t \in Seq(RunStates)
  PROVE  /\ Len(t) = 0 <=> t = <<>>
         /\ Len(t) = 1 => DOMAIN t = {1} /\ t[1] \in RunStates
<1>1. Len(t) = 0 <=> t = <<>>
  BY EmptySeq
<1>2. Len(t) = 1 => DOMAIN t = {1} /\ t[1] \in RunStates
  <2>1. DOMAIN t = 1 .. Len(t)
    OBVIOUS
  <2>2. 1 .. 1 = {1}
    OBVIOUS
  <2> QED BY <2>1, <2>2
<1> QED BY <1>1, <1>2

LEMMA RunCases ==
  ASSUME RunInv, NEW e \in Events, NEW p \in Pipelines
  PROVE  \/ runs[e][p] = <<>> /\ Len(runs[e][p]) = 0 /\ RunOf(e, p) = "none"
         \/ /\ runs[e][p] # <<>> /\ Len(runs[e][p]) = 1 /\ DOMAIN runs[e][p] = {1}
            /\ RunOf(e, p) = runs[e][p][1] /\ RunOf(e, p) \in RunStates
            /\ RunOf(e, p) # "none" /\ api[e].entry[p].status # "none"
<1>1. runs[e][p] \in Seq(RunStates)
  BY DEF RunInv
<1>2. CASE Len(runs[e][p]) = 0
  BY <1>1, <1>2, ShortSeqs DEF RunOf
<1>3. CASE Len(runs[e][p]) = 1
  <2>1. DOMAIN runs[e][p] = {1} /\ runs[e][p] # <<>> /\ runs[e][p][1] \in RunStates
    BY <1>1, <1>3, ShortSeqs
  <2>2. "none" \notin RunStates
    BY DEF RunStates, Terminal
  <2> QED BY <1>3, <2>1, <2>2 DEF RunOf, RunInv
<1> QED BY <1>2, <1>3 DEF RunInv

LEMMA DoneIsFin ==
  ASSUME RunInv, NEW e \in Events \cup {None}, NEW p \in Pipelines
  PROVE  Done(e, p) <=> Fin(e, p)
<1>1. CASE e = None
  BY <1>1 DEF Done, Fin
<1>2. CASE e \in Events
  BY <1>2, RunCases DEF Done, Fin
<1> QED BY <1>1, <1>2

LEMMA UnfinishedIsRunning ==
  ASSUME RunInv, NEW e \in Events, NEW p \in Pipelines
  PROVE  Unfinished(e, p) <=> RunOf(e, p) \in {"Running", "Cancelling"}
BY RunCases DEF Unfinished

-----------------------------------------------------------------------------
(* What is so, stays so. *)

LEMMA LeaderType ==
  ASSUME FitInv, NEW e \in Events
  PROVE  api[e].leader \in Events \cup {None}
BY DEF FitInv, Fit

LEMMA PlanStays ==
  ASSUME Onward
  PROVE  /\ plan' = plan /\ Indexes' = Indexes /\ Forward' = Forward
         /\ \A i : Stage(i)' = Stage(i)
BY DEF Onward, Indexes, Forward, Stage

LEMMA FinStays ==
  ASSUME Onward, NEW e \in Events \cup {None}, NEW p \in Pipelines, Fin(e, p)
  PROVE  Fin(e, p)'
BY DEF Onward, RunsGoOn, Fin, Terminal

LEMMA ReadyStays ==
  ASSUME StatusInv, FitInv, Onward, NEW e \in Events, NEW i \in Indexes, Ready(e, i)
  PROVE  Ready(e, i)'
<1>1. Stage(i).name \in Pipelines /\ Stage(i)' = Stage(i)
  BY PlanTypes, PlanStays
<1>2. CASE Stage(i).leaderOnly
  <2>1. Fin(api[e].leader, Stage(i).name) /\ api[e].leader \in Events
    BY <1>2, LeaderType DEF Ready, Fin
  <2>2. api'[e].leader = api[e].leader
    BY <2>1, PlanTypes DEF Onward
  <2>3. \A l \in Events : Fin(l, Stage(i).name) => Fin(l, Stage(i).name)'
    BY <1>1, FinStays
  <2> QED BY <1>1, <1>2, <2>1, <2>2, <2>3 DEF Ready
<1>3. CASE ~Stage(i).leaderOnly
  BY <1>1, <1>3, FinStays DEF Ready
<1> QED BY <1>2, <1>3

LEMMA PassedStays ==
  ASSUME StatusInv, FitInv, Onward, NEW e \in Events, NEW i \in Indexes, Passed(e, i)
  PROVE  Passed(e, i)'
<1>1. Stage(i).name \in Pipelines /\ Stage(i)' = Stage(i)
  BY PlanTypes, PlanStays
<1>2. CASE Fin(e, Stage(i).name)
  BY <1>1, <1>2, FinStays DEF Passed
<1>3. CASE Stage(i).leaderOnly /\ api[e].leader \notin {None, e}
  BY <1>1, <1>3 DEF Passed, Onward
<1> QED BY <1>2, <1>3 DEF Passed

LEMMA OwnStays ==
  ASSUME StatusInv, Onward, NEW e \in Events, NEW i \in Indexes, Own(e, i)
  PROVE  Own(e, i)'
BY PlanStays, PlanTypes DEF Own, Onward

LEMMA OverStays ==
  ASSUME StatusInv, FitInv, Onward, NEW e \in Events, Over(e)
  PROVE  Over(e)'
<1>1. Indexes' = Indexes /\ \A k \in Indexes : Passed(e, k) => Passed(e, k)'
  BY PassedStays, PlanStays
<1>2. CASE \A k \in Indexes : Passed(e, k)
  BY <1>1, <1>2 DEF Over
<1>3. ASSUME NEW i \in Indexes, Blocked(e, i) PROVE Blocked(e, i)'
  <2>1. Stage(i).name \in Pipelines /\ Stage(i)' = Stage(i)
    BY PlanTypes, PlanStays
  <2>2. RunOf(e, Stage(i).name)' \in {"Failed", "Cancelled"}
    BY <1>3, <2>1 DEF Blocked, Onward, RunsGoOn, Terminal
  <2>3. Own(e, i)'
    BY <1>3, OwnStays DEF Blocked
  <2> QED BY <1>1, <1>3, <2>1, <2>2, <2>3 DEF Blocked
<1> QED BY <1>1, <1>2, <1>3 DEF Over

LEMMA HeldStays ==
  ASSUME StatusInv, FitInv, Onward, LeaseInv, NEW e \in Events, Held(e)
  PROVE  Held(e)'
<1> DEFINE n == plan.label[e]
<1>1. n \in Labels /\ plan' = plan /\ None \notin Events
  BY PlanTypes, PlanStays
<1>2. Over(e) => Over(e)'
  BY OverStays
<1>3. holder'[n] = e \/ Over(e)' \/ e \in gone'
  BY <1>1, <1>2 DEF Held, Onward
<1>4. ASSUME NoDeletes' PROVE holder'[n] # None /\ plan.born[e] <= plan.born[holder'[n]]
  <2>1. holder[n] # None /\ plan.born[e] <= plan.born[holder[n]]
    BY <1>4 DEF Held, Turned, Onward
  <2>2. holder'[n] # None /\ plan.born[holder[n]] <= plan.born[holder'[n]]
    BY <1>1, <1>4, <2>1 DEF Onward
  <2>3. plan.born[e] \in Nat /\ plan.born[holder[n]] \in Nat /\ plan.born[holder'[n]] \in Nat
    BY <1>1, <2>1, <2>2, PlanTypes DEF LeaseInv, Onward
  <2> QED BY <2>1, <2>2, <2>3
<1> QED BY <1>1, <1>3, <1>4 DEF Held, Turned

LEMMA ReachedStays ==
  ASSUME StatusInv, FitInv, Onward, NEW e \in Events, NEW p, Reached(e, p)
  PROVE  Reached(e, p)'
<1>1. PICK i \in Indexes : Stage(i).name = p /\ Stands(e, i)
  BY DEF Reached
<1>2. Indexes' = Indexes /\ Stage(i)' = Stage(i)
  BY PlanStays
<1>3. Own(e, i)' /\ \A k \in Indexes : k < i => Ready(e, k)'
  BY <1>1, OwnStays, ReadyStays DEF Stands
<1> QED BY <1>1, <1>2, <1>3 DEF Reached, Stands

LEMMA FitStays ==
  ASSUME StatusInv, FitInv, LeaseInv, Onward, NEW e \in Events, NEW s, Fit(e, s)
  PROVE  Fit(e, s)'
<1>1. Forward' = Forward
  BY PlanStays
<1>2. \A p \in Pipelines : Fin(e, p) => Fin(e, p)'
  BY FinStays
<1>3. \A p : Reached(e, p) => Reached(e, p)'
  BY ReachedStays
<1>4. (Over(e) => Over(e)') /\ (Held(e) => Held(e)')
  BY OverStays, HeldStays
<1> QED BY <1>1, <1>2, <1>3, <1>4 DEF Fit

LEMMA SitsStays ==
  ASSUME StatusInv, FitInv, LeaseInv, Onward, NEW r, r.event \in Events \cup {None}, Sits(r),
         r.event # None /\ r.current => api'[r.event].leader = api[r.event].leader
  PROVE  Sits(r)'
<1>1. CASE r.event = None
  BY <1>1 DEF Sits
<1>2. CASE r.event \in Events
  <2>1. r.event # None
    BY <1>2, PlanTypes
  <2>2. Fit(r.event, r.copy)' /\ Held(r.event)'
    BY <1>2, <2>1, FitStays, HeldStays DEF Sits
  <2>3. Indexes' = Indexes /\ \A k \in Indexes : Ready(r.event, k) => Ready(r.event, k)'
    BY <1>2, PlanStays, ReadyStays
  <2>4. r.copy.leader # None /\ Knows(r.event, r.copy) => Knows(r.event, r.copy)'
    BY <1>2 DEF Knows, Onward
  <2>5. Knows(r.event, r.copy) => Knows(r.event, r.copy)'
    BY <2>4 DEF Knows
  <2> QED BY <2>1, <2>2, <2>3, <2>5 DEF Sits
<1> QED BY <1>1, <1>2

-----------------------------------------------------------------------------
(* Statuses that are backed. *)

LEMMA NewFits ==
  ASSUME StatusInv, NEW e \in Events
  PROVE  Fit(e, NewStatus)
<1>1. NewStatus.leader = None /\ NewStatus.phase = "" /\ \A p \in Pipelines : NewStatus.entry[p].status = "none"
  BY DEF NewStatus, NoEntry
<1> QED BY <1>1, PlanTypes DEF Fit, Terminal

LEMMA PhaseFits ==
  ASSUME NEW e \in Events, NEW s, Good(s), Fit(e, s), Held(e), NEW phase, phase \in Terminal => Over(e)
  PROVE  Fit(e, [s EXCEPT !.phase = phase])
<1> DEFINE t == [s EXCEPT !.phase = phase]
<1>1. t.phase = phase /\ t.leader = s.leader /\ t.entry = s.entry
  BY DEF Good
<1> HIDE DEF t
<1>2. Fit(e, t)
  BY <1>1 DEF Fit
<1> QED BY <1>2 DEF t

LEMMA LeaderFits ==
  ASSUME NEW e \in Events, NEW s, Good(s), Fit(e, s), NEW l \in Events \cup {None}
  PROVE  Fit(e, [s EXCEPT !.leader = l]) /\ [s EXCEPT !.leader = l].leader = l
<1> DEFINE t == [s EXCEPT !.leader = l]
<1>1. t.phase = s.phase /\ t.leader = l /\ t.entry = s.entry
  BY DEF Good
<1> HIDE DEF t
<1>2. Fit(e, t)
  BY <1>1 DEF Fit
<1> QED BY <1>1, <1>2 DEF t

(* An entry says something else, and is backed if it says "Completed".     *)
LEMMA EntryFits ==
  ASSUME StatusInv, NEW e \in Events, NEW s, Good(s), Fit(e, s), NEW p, NEW status \in Named,
         p \in Pipelines => s.entry[p].status # "none" /\ (status = "Completed" => Fin(e, p))
  PROVE  Fit(e, SetEntry(s, p, status)) /\ SetEntry(s, p, status).leader = s.leader
<1> DEFINE t == SetEntry(s, p, status)
<1>1. CASE p \in Pipelines
  <2>1. t.phase = s.phase /\ t.leader = s.leader
    BY DEF Good, SetEntry
  <2>2. t.entry[p].status = status /\ \A q \in Pipelines : q # p => t.entry[q] = s.entry[q]
    BY <1>1 DEF Good, SetEntry, OneEntries, NoEntry
  <2>3. \A q \in Pipelines : t.entry[q].status # "none" => s.entry[q].status # "none"
    BY <1>1, <2>2
  <2> HIDE DEF t
  <2>4. Fit(e, t)
    BY <1>1, <2>1, <2>2, <2>3, PlanTypes DEF Fit
  <2> QED BY <2>1, <2>4 DEF t
<1>2. CASE p \notin Pipelines
  <2>1. t = s
    BY <1>2 DEF Good, SetEntry
  <2> QED BY <2>1
<1> QED BY <1>1, <1>2

LEMMA NewEntryFits ==
  ASSUME StatusInv, NEW e \in Events, NEW s, Good(s), Fit(e, s), Held(e), NEW p, p \in Forward => Reached(e, p)
  PROVE  /\ Fit(e, [s EXCEPT !.entry[p] = NewEntry(e, p)])
         /\ [s EXCEPT !.entry[p] = NewEntry(e, p)].leader = s.leader
<1> DEFINE t == [s EXCEPT !.entry[p] = NewEntry(e, p)]
<1>1. CASE p \in Pipelines
  <2>1. t.phase = s.phase /\ t.leader = s.leader
    BY DEF Good
  <2>2. t.entry[p].status = "Pending" /\ \A q \in Pipelines : q # p => t.entry[q] = s.entry[q]
    BY <1>1 DEF Good, NewEntry
  <2> HIDE DEF t
  <2>3. Fit(e, t)
    BY <1>1, <2>1, <2>2, PlanTypes DEF Fit
  <2> QED BY <2>1, <2>3 DEF t
<1>2. CASE p \notin Pipelines
  <2>1. t = s
    BY <1>2 DEF Good
  <2> QED BY <2>1
<1> QED BY <1>1, <1>2

-----------------------------------------------------------------------------
(* The steps of a worker.                                                  *)

Event(w) == worker[w].event
AtStage(w) == /\ worker[w].pc \in {"stage", "run"} /\ worker[w].stage \in Indexes
              /\ Stands(Event(w), worker[w].stage)

(* What a worker may write: a status that is backed, with the leader that  *)
(* is known.                                                               *)
Offers(w, s) == AtWork(w, s) /\ Fit(Event(w), s) /\ s.leader = worker[w].copy.leader
Backed(w, s) == worker[w].current => /\ Fit(Event(w), s)
                                     /\ api[Event(w)].leader # None => s.leader = api[Event(w)].leader

(* A step goes on from a place where the worker may be, or writes.         *)
Sitting(w) == \E r : /\ Sits(r) /\ r.event \in {None, Event(w)}
                     /\ worker' = [worker EXCEPT ![w] = r] /\ UNCHANGED api
Writing(w) == \E s : /\ Fit(Event(w), s)
                     /\ api[Event(w)].leader # None => s.leader = api[Event(w)].leader
                     /\ worker' = [worker EXCEPT ![w] = Idle] /\ api' = [api EXCEPT ![Event(w)] = s]
TurnStep(w) == Sitting(w) \/ Writing(w)

(* It makes a run where the event stands, or asks for one to be cancelled. *)
MakesOwn(w) ==
  \E p \in Pipelines :
    /\ \E i \in Indexes : Own(Event(w), i)
    /\ runs[Event(w)][p] = <<>> /\ runs' = [runs EXCEPT ![Event(w)][p] = <<"Running">>]
StopsOwn(w) ==
  \E p \in Pipelines :
    /\ RunOf(Event(w), p) = "Running" /\ runs' = [runs EXCEPT ![Event(w)][p] = <<"Cancelling">>]
RunTurn(w) == UNCHANGED runs \/ MakesOwn(w) \/ StopsOwn(w)

LEMMA IdleSits == Sits(Idle)
BY DEF Sits, Idle

LEMMA LeaveTurns ==
  ASSUME NEW w \in Workers, Leave(w) \/ Fail(w)
  PROVE  TurnStep(w)
<1>1. Idle.event = None
  BY DEF Idle
<1> QED BY <1>1, IdleSits DEF Leave, Fail, TurnStep, Sitting

LEMMA StoreTurns ==
  ASSUME NEW w \in Workers, NEW s, Backed(w, s), Store(w, s) \/ StoreOrLeave(w, s)
  PROVE  TurnStep(w)
<1>1. CASE Leave(w)
  BY <1>1, LeaveTurns
<1>2. CASE Store(w, s)
  <2>1. Idle.event = None
    BY DEF Idle
  <2>2. CASE worker[w].current /\ worker[w].event \in live
    BY <1>2, <2>2 DEF Store, Write, TurnStep, Writing, Backed, Event
  <2>3. CASE ~(worker[w].current /\ worker[w].event \in live)
    BY <1>2, <2>1, <2>3, IdleSits DEF Store, Write, TurnStep, Sitting
  <2> QED BY <2>2, <2>3
<1> QED BY <1>1, <1>2 DEF StoreOrLeave

LEMMA GoesTurns ==
  ASSUME StatusInv, NEW w \in Workers, NEW pc, NEW s, NEW stage, Goes(w, pc, s, stage),
         Sits([pc |-> pc, event |-> Event(w), copy |-> s, current |-> worker[w].current, stage |-> stage])
  PROVE  TurnStep(w)
<1> DEFINE r == [pc |-> pc, event |-> Event(w), copy |-> s, current |-> worker[w].current, stage |-> stage]
<1>1. worker' = [worker EXCEPT ![w] = r] /\ UNCHANGED api
  BY DEF Goes, Event, StatusInv
<1>2. r.event = Event(w)
  OBVIOUS
<1>3. Sits(r)
  OBVIOUS
<1> HIDE DEF r
<1> QED BY <1>1, <1>2, <1>3 DEF TurnStep, Sitting

(* Where a worker is.                                                      *)
LEMMA WorkerFacts ==
  ASSUME StatusInv, TurnInv, NEW w \in Workers, worker[w].pc # "idle"
  PROVE  /\ Event(w) \in Events /\ Event(w) # None
         /\ Good(worker[w].copy) /\ Slot(worker[w]) /\ Sits(worker[w])
         /\ Fit(Event(w), worker[w].copy) /\ Held(Event(w))
         /\ AtWork(w, worker[w].copy) /\ Offers(w, worker[w].copy)
<1>1. Slot(worker[w]) /\ Sits(worker[w])
  BY DEF StatusInv, TurnInv, SitInv
<1>2. Event(w) \in Events /\ Event(w) # None
  BY <1>1, PlanTypes DEF Slot, Event
<1>3. Good(worker[w].copy) /\ Fit(Event(w), worker[w].copy) /\ Held(Event(w))
  BY <1>1, <1>2 DEF Slot, Sits, Event
<1> QED BY <1>1, <1>2, <1>3 DEF AtWork, Offers

LEMMA OfferIsBacked ==
  ASSUME StatusInv, TurnInv, NEW w \in Workers, NEW s, Offers(w, s), worker[w].pc # "save"
  PROVE  Backed(w, s)
<1>1. Sits(worker[w]) /\ Event(w) # None
  BY WorkerFacts DEF Offers, AtWork
<1> QED BY <1>1 DEF Offers, Backed, Sits, Event

LEMMA OneWith ==
  ASSUME NEW t \in Seq(RunStates), Len(t) = 1, NEW x \in RunStates
  PROVE  [t EXCEPT ![1] = x] = <<x>>
<1>1. /\ [t EXCEPT ![1] = x] \in Seq(RunStates) /\ Len([t EXCEPT ![1] = x]) = 1
      /\ [t EXCEPT ![1] = x][1] = x
  BY ExceptSeq
<1>2. <<x>> \in Seq(RunStates) /\ Len(<<x>>) = 1 /\ <<x>>[1] = x
  OBVIOUS
<1> QED BY <1>1, <1>2, SeqEqual

LEMMA MakeRunTurns ==
  ASSUME StatusInv, RunInv, TurnInv, NEW w \in Workers, worker[w].pc # "save", NEW s, Offers(w, s), NEW p,
         \E i \in Indexes : Own(Event(w), i), MakeRun(w, s, p)
  PROVE  TurnStep(w) /\ RunTurn(w)
<1> DEFINE e == Event(w)
<1>1. TurnStep(w)
  BY OfferIsBacked, StoreTurns, LeaveTurns DEF MakeRun
<1>2. e \in Events
  BY WorkerFacts DEF Offers, AtWork
<1>3. CASE s.entry[p].id > Len(runs[e][p])
  <2>1. runs' = [runs EXCEPT ![e][p] = Append(runs[e][p], "Running")]
    BY <1>3 DEF MakeRun, Event
  <2>2. CASE p \in Pipelines
    <3>1. s.entry[p].id \in {0, 1}
      BY <2>2 DEF Offers, AtWork, Good, OneEntries, NoEntry
    <3>2. runs[e][p] = <<>>
      BY <1>2, <1>3, <2>2, <3>1, RunCases
    <3>3. Append(runs[e][p], "Running") = <<"Running">>
      BY <3>2
    <3> QED BY <1>1, <2>1, <2>2, <3>2, <3>3 DEF RunTurn, MakesOwn
  <2>3. CASE p \notin Pipelines
    <3>1. runs' = runs
      BY <1>2, <2>1, <2>3 DEF RunInv
    <3> QED BY <1>1, <3>1 DEF RunTurn
  <2> QED BY <2>2, <2>3
<1>4. CASE ~(s.entry[p].id > Len(runs[e][p]))
  BY <1>1, <1>4 DEF MakeRun, RunTurn, Event
<1> QED BY <1>3, <1>4

LEMMA CancelRunTurns ==
  ASSUME StatusInv, RunInv, TurnInv, NEW w \in Workers, worker[w].pc # "save", NEW s, Offers(w, s), NEW p,
         s.entry[p].status # "none", Look(Event(w), p, s.entry[p].id) # "absent", CancelRun(w, s, p)
  PROVE  TurnStep(w) /\ RunTurn(w)
<1> DEFINE e == Event(w)
           id == s.entry[p].id
<1>1. TurnStep(w)
  BY OfferIsBacked, StoreTurns, LeaveTurns DEF CancelRun
<1>2. e \in Events
  BY WorkerFacts DEF Offers, AtWork
<1>3. CASE UNCHANGED runs
  BY <1>1, <1>3 DEF RunTurn
<1>4. CASE runs[e][p][id] = "Running" /\ runs' = [runs EXCEPT ![e][p][id] = "Cancelling"]
  <2>1. CASE p \in Pipelines
    <3>1. id = 1
      BY <2>1 DEF Offers, AtWork, Good, OneEntries, NoEntry
    <3>2. RunOf(e, p) # "none"
      BY <1>2, <2>1, <3>1 DEF TurnInv, SeenInv
    <3>3. RunOf(e, p) = "Running" /\ Len(runs[e][p]) = 1 /\ runs[e][p] \in Seq(RunStates)
      BY <1>2, <1>4, <2>1, <3>1, <3>2, RunCases DEF RunInv
    <3>4. [runs[e][p] EXCEPT ![1] = "Cancelling"] = <<"Cancelling">>
      BY <3>3, OneWith DEF RunStates
    <3>5. runs' = [runs EXCEPT ![e][p] = [runs[e][p] EXCEPT ![1] = "Cancelling"]]
      BY <1>4, <3>1
    <3> QED BY <1>1, <2>1, <3>3, <3>4, <3>5 DEF RunTurn, StopsOwn
  <2>2. CASE p \notin Pipelines
    <3>1. runs' = runs
      BY <1>2, <1>4, <2>2 DEF RunInv
    <3> QED BY <1>1, <3>1 DEF RunTurn
  <2> QED BY <2>1, <2>2
<1> QED BY <1>3, <1>4 DEF CancelRun, Event

(* An entry that a worker changes.                                         *)
LEMMA SetEntryTurns ==
  ASSUME StatusInv, TurnInv, NEW w \in Workers, worker[w].pc # "save", NEW s, Offers(w, s), NEW p, NEW status \in Named,
         p \in Pipelines => s.entry[p].status # "none" /\ (status = "Completed" => Fin(Event(w), p)),
         Store(w, SetEntry(s, p, status)) \/ StoreOrLeave(w, SetEntry(s, p, status))
  PROVE  TurnStep(w)
<1>1. Event(w) \in Events /\ Sits(worker[w]) /\ Event(w) # None
  BY WorkerFacts DEF Offers, AtWork
<1>2. Fit(Event(w), SetEntry(s, p, status)) /\ SetEntry(s, p, status).leader = s.leader
  BY <1>1, EntryFits DEF Offers, AtWork
<1>3. Backed(w, SetEntry(s, p, status))
  BY <1>1, <1>2 DEF Offers, Backed, Sits, Event
<1> QED BY <1>3, StoreTurns

LEMMA NewEntryTurns ==
  ASSUME StatusInv, TurnInv, NEW w \in Workers, worker[w].pc # "save", NEW s, Offers(w, s), NEW p,
         p \in Forward => Reached(Event(w), p),
         Store(w, [s EXCEPT !.entry[p] = NewEntry(worker[w].event, p)])
  PROVE  TurnStep(w)
<1> DEFINE t == [s EXCEPT !.entry[p] = NewEntry(worker[w].event, p)]
<1>1. Event(w) \in Events /\ Sits(worker[w]) /\ Event(w) # None /\ Held(Event(w))
  BY WorkerFacts DEF Offers, AtWork
<1>2. Fit(Event(w), t) /\ t.leader = s.leader
  BY <1>1, NewEntryFits DEF Offers, AtWork, Event
<1> HIDE DEF t
<1>3. Backed(w, t)
  BY <1>1, <1>2 DEF Offers, Backed, Sits, Event
<1>4. Store(w, t)
  BY DEF t
<1> QED BY <1>3, <1>4, StoreTurns

(* What the cache says of a run, of an entry that is there.                *)
LEMMA LookTells ==
  ASSUME StatusInv, RunInv, TurnInv, NEW w \in Workers, NEW s, Offers(w, s), NEW p \in Pipelines, s.entry[p].status # "none",
         NEW run \in Terminal, Look(Event(w), p, s.entry[p].id) = run
  PROVE  RunOf(Event(w), p) = run /\ (run = "Completed" => Fin(Event(w), p))
<1>1. s.entry[p].id = 1
  BY DEF Offers, AtWork, Good, OneEntries, NoEntry
<1>2. Event(w) \in Events /\ Event(w) # None
  BY WorkerFacts DEF Offers, AtWork
<1> QED BY <1>1, <1>2 DEF TurnInv, SeenInv, Fin

(* A rollback is not one of the calendar's pipelines: nothing is asked of  *)
(* the place where it starts.                                              *)
LEMMA RollBackTurns ==
  ASSUME StatusInv, RunInv, TurnInv, NEW w \in Workers, worker[w].pc # "save", NEW s, Offers(w, s), NEW p, p \notin Forward,
         \E i \in Indexes : Own(Event(w), i), RollBack(w, s, p)
  PROVE  TurnStep(w) /\ RunTurn(w)
<1> DEFINE run == Look(Event(w), p, s.entry[p].id)
           status == s.entry[p].status
<1>1. CASE Store(w, [s EXCEPT !.entry[p] = NewEntry(worker[w].event, p)]) /\ UNCHANGED runs
  BY <1>1, NewEntryTurns DEF RunTurn
<1>2. CASE StoreOrLeave(w, s) /\ UNCHANGED runs
  BY <1>2, OfferIsBacked, StoreTurns DEF RunTurn
<1>3. CASE MakeRun(w, s, p)
  BY <1>3, MakeRunTurns
<1>4. CASE status \in {"Pending", "Running", "Cancelled"} /\ run \in Terminal
           /\ StoreOrLeave(w, SetEntry(s, p, run)) /\ UNCHANGED runs
  <2>1. run \in Named /\ status # "none"
    BY <1>4 DEF Terminal, Named, Statuses
  <2>2. p \in Pipelines /\ run = "Completed" => Fin(Event(w), p)
    BY <1>4, <2>1, LookTells
  <2> HIDE DEF run
  <2> QED BY <1>4, <2>1, <2>2, SetEntryTurns DEF RunTurn
<1>5. CASE status \in {"Pending", "Running"} /\ StoreOrLeave(w, SetEntry(s, p, "Running")) /\ UNCHANGED runs
  <2>1. "Running" \in Named /\ status # "none"
    BY <1>5 DEF Named, Statuses
  <2> QED BY <1>5, <2>1, SetEntryTurns DEF RunTurn
<1>6. CASE status = "Cancelled" /\ run \in {"Running", "Cancelling"} /\ CancelRun(w, s, p)
  BY <1>6, CancelRunTurns
<1> QED BY <1>1, <1>2, <1>3, <1>4, <1>5, <1>6 DEF RollBack, Event

LEMMA OfferPhase ==
  ASSUME StatusInv, TurnInv, NEW w \in Workers, NEW s, Offers(w, s), NEW phase, phase \in Terminal => Over(Event(w))
  PROVE  Offers(w, [s EXCEPT !.phase = phase]) /\ [s EXCEPT !.phase = phase].entry = s.entry
<1>1. Event(w) \in Events /\ Held(Event(w))
  BY WorkerFacts DEF Offers, AtWork
<1>2. Fit(Event(w), [s EXCEPT !.phase = phase])
  BY <1>1, PhaseFits DEF Offers, AtWork
<1>3. AtWork(w, [s EXCEPT !.phase = phase]) /\ [s EXCEPT !.phase = phase].entry = s.entry
  BY PhaseAtWork DEF Offers
<1>4. [s EXCEPT !.phase = phase].leader = s.leader
  BY DEF Offers, AtWork, Good
<1> QED BY <1>2, <1>3, <1>4 DEF Offers

LEMMA PassTurns ==
  ASSUME StatusInv, TurnInv, NEW w \in Workers, worker[w].pc \in {"stage", "run"},
         Ready(Event(w), worker[w].stage), Pass(w)
  PROVE  TurnStep(w)
<1> DEFINE i == worker[w].stage
           r == [pc |-> "stage", event |-> Event(w), copy |-> worker[w].copy, current |-> worker[w].current, stage |-> i + 1]
<1>1. Sits(worker[w]) /\ Event(w) # None
  BY WorkerFacts
<1>2. i \in Nat \ {0} /\ \A k \in Indexes : k < i => Ready(Event(w), k)
  BY <1>1 DEF Sits, Event
<1>3. i + 1 \in Nat \ {0} /\ \A k \in Indexes : k < i + 1 => Ready(Event(w), k)
  <2>1. \A k \in Indexes : k < i + 1 => k < i \/ k = i
    BY <1>2, PlanTypes
  <2> QED BY <1>2, <2>1
<1>4. Sits(r)
  BY <1>1, <1>3 DEF Sits, Event
<1> QED BY <1>4, GoesTurns DEF Pass

LEMMA StageRunTurns ==
  ASSUME StatusInv, RunInv, TurnInv, NEW w \in Workers, AtStage(w), StageRun(w)
  PROVE  TurnStep(w) /\ RunTurn(w)
<1> DEFINE s == worker[w].copy
           i == worker[w].stage
           p == Stage(i).name
           e == Event(w)
           status == s.entry[p].status
           run == Look(worker[w].event, p, s.entry[p].id)
<1>1. /\ i \in Indexes /\ Own(e, i) /\ \E k \in Indexes : Own(e, k)
      /\ worker[w].pc \notin {"idle", "save"} /\ worker[w].pc \in {"stage", "run"}
  BY DEF AtStage, Stands
<1>2. /\ e \in Events /\ e # None /\ Offers(w, s) /\ Fit(e, s) /\ Good(s)
      /\ p \in Pipelines /\ Stage(i).rollback \notin Forward
  BY <1>1, WorkerFacts, PlanTypes
<1>3. run \in Terminal /\ status # "none" => RunOf(e, p) = run /\ (run = "Completed" => Fin(e, p))
  BY <1>1, <1>2, LookTells DEF Event
<1>4. CASE Leave(w) /\ UNCHANGED runs
  BY <1>4, LeaveTurns DEF RunTurn
<1>5. CASE StoreOrLeave(w, s) /\ UNCHANGED runs
  BY <1>1, <1>2, <1>5, OfferIsBacked, StoreTurns DEF RunTurn
<1>6. CASE RunInit(w, s, p)
  <2>1. Reached(e, p)
    BY <1>1 DEF Reached, AtStage
  <2> QED BY <1>1, <1>2, <1>6, <2>1, NewEntryTurns DEF RunInit, RunTurn
<1>7. CASE RunPassed(w, s, p)
  <2>1. Fin(e, p)
    BY <1>2, <1>7 DEF RunPassed, Fit
  <2>2. Ready(e, i)
    BY <1>1, <2>1 DEF Ready, Own
  <2> QED BY <1>1, <1>7, <2>2, PassTurns DEF RunPassed, RunTurn
<1>8. CASE status \notin {"none", "Completed"} /\ RunAbsent(w, s, i, p)
  <2>1. CASE StoreOrLeave(w, SetEntry(s, p, "Rollback")) /\ UNCHANGED runs
    <3>1. "Rollback" \in Named
      BY DEF Named, Statuses
    <3> QED BY <1>1, <1>2, <1>8, <2>1, <3>1, SetEntryTurns DEF RunTurn
  <2>2. CASE RollBack(w, s, Stage(i).rollback)
    BY <1>1, <1>2, <2>2, RollBackTurns
  <2>3. CASE MakeRun(w, s, p)
    BY <1>1, <1>2, <2>3, MakeRunTurns
  <2> QED BY <1>4, <1>5, <1>8, <2>1, <2>2, <2>3 DEF RunAbsent
<1>9. CASE RunCompleted(w, s, p)
  <2> DEFINE t == SetEntry(s, p, "Completed")
  <2>1. "Completed" \in Named /\ status # "none" /\ Fin(e, p)
    BY <1>3, <1>9 DEF Named, Statuses, RunCompleted, Terminal
  <2>2. Fit(e, t) /\ t.leader = s.leader /\ Good(t)
    BY <1>2, <2>1, EntryFits, EntryGood
  <2> HIDE DEF t
  <2> DEFINE u == [t EXCEPT !.phase = "Running"]
  <2>3. Fit(e, u)
    BY <1>1, <1>2, <2>2, PhaseFits, WorkerFacts DEF Terminal
  <2>4. u.leader = s.leader
    BY <2>2 DEF Good
  <2> HIDE DEF u
  <2>5. Backed(w, u)
    BY <1>1, <1>2, <2>3, <2>4, WorkerFacts DEF Backed, Sits, Event
  <2>6. Store(w, u) /\ UNCHANGED runs
    BY <1>9 DEF RunCompleted, u, t
  <2> QED BY <2>5, <2>6, StoreTurns DEF RunTurn
<1>10. CASE RunStopped(w, s, i, p)
  <2> DEFINE t == [s EXCEPT !.phase = run]
  <2>1. status \notin {"none", "Completed"} /\ run \in {"Cancelled", "Failed"} /\ RunOf(e, p) = run
    BY <1>3, <1>10 DEF RunStopped, Terminal
  <2>2. \A k \in Indexes : k < i => Passed(e, k)
    <3>1. ASSUME NEW k \in Indexes, Ready(e, k) PROVE Passed(e, k)
      BY <3>1 DEF Ready, Passed, Fin
    <3> QED BY <3>1 DEF AtStage, Stands
  <2>3. Over(e)
    BY <1>1, <2>1, <2>2 DEF Over, Blocked
  <2>4. Offers(w, t) /\ t.entry = s.entry
    BY <1>2, <2>3, OfferPhase
  <2> HIDE DEF t
  <2>5. CASE RollBack(w, t, Stage(i).rollback)
    BY <1>1, <1>2, <2>4, <2>5, RollBackTurns
  <2>6. CASE status # "Rollback"
    <3>1. PICK end \in {"Rollback", "Cancelled", "Failed"} :
             StoreOrLeave(w, SetEntry(t, p, end)) /\ UNCHANGED runs
      BY <1>10, <2>1, <2>6 DEF RunStopped, t
    <3>2. end \in Named /\ end # "Completed"
      BY <3>1 DEF Named, Statuses
    <3> QED BY <1>1, <2>1, <2>4, <3>1, <3>2, SetEntryTurns DEF RunTurn
  <2> QED BY <1>10, <2>5, <2>6 DEF RunStopped, t
<1>11. CASE RunRunning(w, s, p)
  <2> DEFINE t == [s EXCEPT !.phase = "Running"]
  <2>1. Offers(w, t) /\ t.entry = s.entry
    BY <1>2, OfferPhase DEF Terminal
  <2> HIDE DEF t
  <2>2. status \notin {"none", "Completed"} /\ run \in {"Running", "Cancelling"}
    BY <1>11 DEF RunRunning
  <2>3. CASE CancelRun(w, t, p)
    BY <1>1, <2>1, <2>2, <2>3, CancelRunTurns DEF Event
  <2>4. CASE StoreOrLeave(w, SetEntry(t, p, "Running")) /\ UNCHANGED runs
    <3>1. "Running" \in Named
      BY DEF Named, Statuses
    <3> QED BY <1>1, <2>1, <2>2, <2>4, <3>1, SetEntryTurns DEF RunTurn
  <2> QED BY <1>11, <2>3, <2>4 DEF RunRunning, t
<1> QED BY <1>4, <1>6, <1>7, <1>8, <1>9, <1>10, <1>11 DEF StageRun

LEMMA AtStageIf ==
  ASSUME StatusInv, TurnInv, NEW w \in Workers, worker[w].pc \in {"stage", "run"}, worker[w].stage \in Indexes,
         Stage(worker[w].stage).leaderOnly => worker[w].copy.leader = Event(w)
  PROVE  AtStage(w)
<1>1. Sits(worker[w]) /\ Event(w) # None
  BY WorkerFacts
<1>2. Own(Event(w), worker[w].stage)
  BY <1>1 DEF Sits, Knows, Own, Event
<1>3. \A k \in Indexes : k < worker[w].stage => Ready(Event(w), k)
  BY <1>1 DEF Sits, Event
<1> QED BY <1>2, <1>3 DEF AtStage, Stands

(* A leader, from the lease or the event itself, is proposed only by a     *)
(* worker whose copy has none.                                             *)
LEMMA ProposeTurns ==
  ASSUME StatusInv, TurnInv, NEW w \in Workers, worker[w].pc = "stage", worker[w].copy.leader = None,
         NEW l \in Events \cup {None}
  PROVE  /\ Propose(w, [worker[w].copy EXCEPT !.leader = l]) => TurnStep(w)
         /\ Store(w, [worker[w].copy EXCEPT !.leader = l]) => TurnStep(w)
<1> DEFINE s == [worker[w].copy EXCEPT !.leader = l]
           r == [pc |-> "save", event |-> Event(w), copy |-> s, current |-> worker[w].current, stage |-> worker[w].stage]
<1>1. /\ Event(w) \in Events /\ Event(w) # None /\ Held(Event(w)) /\ Sits(worker[w])
      /\ Good(worker[w].copy) /\ Fit(Event(w), worker[w].copy)
  BY WorkerFacts
<1>2. Fit(Event(w), s)
  BY <1>1, LeaderFits
<1>3. worker[w].current => api[Event(w)].leader = None
  BY <1>1 DEF Sits, Event
<1> HIDE DEF s
<1>4. Sits(r)
  BY <1>1, <1>2, <1>3 DEF Sits
<1>5. Propose(w, s) => TurnStep(w)
  BY <1>4, GoesTurns DEF Propose
<1>6. Store(w, s) => TurnStep(w)
  <2>1. Backed(w, s)
    BY <1>2, <1>3 DEF Backed
  <2> QED BY <2>1, StoreTurns
<1> QED BY <1>5, <1>6 DEF s

LEMMA DoStageTurns ==
  ASSUME StatusInv, RunInv, TurnInv, NEW w \in Workers, DoStage(w)
  PROVE  TurnStep(w) /\ RunTurn(w) /\ leader' \in [Groups -> Events \cup {None}]
<1> DEFINE e == Event(w)
           s == worker[w].copy
           i == worker[w].stage
           g == plan.group[e]
<1>1. worker[w].pc \in {"stage", "run"}
  BY DEF DoStage
<1>2. /\ e \in Events /\ e # None /\ Sits(worker[w]) /\ Fit(e, s) /\ Held(e)
      /\ known \subseteq Events /\ leader \in [Groups -> Events \cup {None}] /\ g \in Groups \cup {None}
  BY <1>1, WorkerFacts, PlanTypes DEF TurnInv, LeaseInv, StatusInv
<1>3. CASE worker[w].pc = "stage" /\ StageJoin(w)
  <2>1. s.leader = None /\ leader[g] \in Events /\ Propose(w, [s EXCEPT !.leader = leader[g]]) /\ UNCHANGED <<leader, runs>>
    BY <1>2, <1>3 DEF StageJoin, Joins, Event
  <2> QED BY <1>2, <1>3, <2>1, ProposeTurns DEF RunTurn
<1>4. CASE StageWait(w)
  BY <1>2, <1>4, LeaveTurns DEF StageWait, RunTurn
<1>5. CASE worker[w].pc = "stage" /\ StageElect(w)
  <2>1. s.leader = None /\ UNCHANGED runs
    BY <1>5 DEF StageElect
  <2>2. CASE Store(w, [s EXCEPT !.leader = e]) /\ UNCHANGED leader
    BY <1>2, <1>5, <2>1, <2>2, ProposeTurns DEF RunTurn
  <2>3. CASE leader' = [leader EXCEPT ![g] = e] /\ Propose(w, [s EXCEPT !.leader = e])
    BY <1>2, <1>5, <2>1, <2>3, ProposeTurns DEF RunTurn
  <2>4. CASE g # None /\ Propose(w, [s EXCEPT !.leader = leader[g]]) /\ UNCHANGED leader
    <3>1. leader[g] \in Events \cup {None}
      BY <1>2, <2>4
    <3> QED BY <1>2, <1>5, <2>1, <2>4, <3>1, ProposeTurns DEF RunTurn
  <2> QED BY <1>5, <2>2, <2>3, <2>4 DEF StageElect, Event
<1>6. CASE i \in Indexes /\ StageFollow(w)
  <2>1. UNCHANGED <<leader, runs>> /\ s.leader \notin {None, e} /\ Stage(i).leaderOnly
    BY <1>6 DEF StageFollow, Event
  <2>2. ASSUME s.leader \in known, cache[s.leader].entry[Stage(i).name].status = "Completed", Pass(w)
        PROVE  TurnStep(w)
    <3>1. api[e].leader = s.leader
      <4>1. CASE worker[w].pc # "save"
        BY <1>2, <2>1, <4>1 DEF Sits, Knows, Event
      <4> QED BY <1>1, <4>1
    <3>2. Fin(s.leader, Stage(i).name)
      <4>1. Fit(s.leader, cache[s.leader]) /\ Stage(i).name \in Pipelines
        BY <1>2, <1>6, <2>2, PlanTypes DEF TurnInv, FitInv
      <4> QED BY <2>2, <4>1 DEF Fit
    <3>3. Ready(e, i)
      BY <2>1, <3>1, <3>2 DEF Ready
    <3> QED BY <1>1, <2>2, <3>3, PassTurns
  <2> QED BY <1>2, <1>6, <2>1, <2>2, LeaveTurns DEF StageFollow, RunTurn
<1>7. CASE i \in Indexes /\ StageLock(w)
  <2>1. UNCHANGED <<leader, runs>> /\ s.leader = e
    BY <1>7 DEF StageLock, Leads, Event
  <2>2. ASSUME Move(w, "unlock") PROVE TurnStep(w)
    <3> DEFINE r == [pc |-> "unlock", event |-> e, copy |-> s, current |-> worker[w].current, stage |-> i]
    <3>1. Sits(r)
      BY <1>1, <1>2, <1>7, <2>1 DEF Sits, Event
    <3> QED BY <2>2, <3>1, GoesTurns DEF Move
  <2> QED BY <1>2, <1>7, <2>1, <2>2, LeaveTurns DEF StageLock, RunTurn
<1>8. CASE /\ worker[w].pc = "stage" /\ i \in Indexes /\ StageRun(w) /\ UNCHANGED leader
           /\ Stage(i).leaderOnly => Leads(w)
  <2>1. AtStage(w)
    BY <1>8, AtStageIf DEF Leads, Event
  <2> QED BY <1>2, <1>8, <2>1, StageRunTurns
<1>9. CASE worker[w].pc = "run" /\ StageRun(w) /\ UNCHANGED leader
  <2>1. AtStage(w)
    BY <1>2, <1>9, AtStageIf DEF Sits, Event
  <2> QED BY <1>2, <1>9, <2>1, StageRunTurns
<1> QED BY <1>3, <1>4, <1>5, <1>6, <1>7, <1>8, <1>9 DEF DoStage

LEMMA UnlockTurns ==
  ASSUME StatusInv, TurnInv, NEW w \in Workers, Unlock(w)
  PROVE  TurnStep(w) /\ leader' \in [Groups -> Events \cup {None}]
<1>1. worker[w].pc = "unlock"
  BY DEF Unlock
<1>2. Sits(worker[w]) /\ Event(w) # None /\ leader \in [Groups -> Events \cup {None}]
  BY <1>1, WorkerFacts DEF TurnInv, LeaseInv
<1>3. leader' \in [Groups -> Events \cup {None}]
  BY <1>2 DEF Unlock
<1>4. ASSUME Move(w, "run") PROVE TurnStep(w)
  <2> DEFINE r == [pc |-> "run", event |-> Event(w), copy |-> worker[w].copy,
                   current |-> worker[w].current, stage |-> worker[w].stage]
  <2>1. Sits(r)
    BY <1>1, <1>2 DEF Sits, Event
  <2> QED BY <1>4, <2>1, GoesTurns DEF Move
<1> QED BY <1>3, <1>4, LeaveTurns DEF Unlock

LEMMA EndTurns ==
  ASSUME StatusInv, TurnInv, NEW w \in Workers, Finish(w) \/ Save(w)
  PROVE  TurnStep(w)
<1> DEFINE e == Event(w)
           s == worker[w].copy
<1>1. Sits(worker[w]) /\ e # None /\ e \in Events /\ Offers(w, s) /\ Fit(e, s)
  BY WorkerFacts DEF Finish, Save
<1>2. CASE Finish(w)
  <2>1. worker[w].pc = "stage" /\ worker[w].stage \in Nat \ {0} /\ worker[w].stage \notin Indexes
        /\ \A k \in Indexes : k < worker[w].stage => Ready(e, k)
    BY <1>1, <1>2 DEF Finish, Sits, Event
  <2>2. \A k \in Indexes : k < worker[w].stage
    BY <2>1, PlanTypes
  <2>3. ASSUME NEW k \in Indexes PROVE Passed(e, k)
    BY <2>1, <2>2 DEF Ready, Passed, Fin
  <2>4. Over(e)
    BY <2>3 DEF Over
  <2>5. Offers(w, [s EXCEPT !.phase = "Completed"])
    BY <1>1, <2>4, OfferPhase
  <2> QED BY <1>2, <2>1, <2>5, OfferIsBacked, StoreTurns DEF Finish
<1>3. CASE Save(w)
  <2>1. Backed(w, s)
    BY <1>1, <1>3 DEF Save, Sits, Backed, Event
  <2> QED BY <1>3, <2>1, StoreTurns DEF Save
<1> QED BY <1>2, <1>3

-----------------------------------------------------------------------------
(* Every step goes onward and keeps the invariant.                         *)

LEMMA SetRunGoesOn ==
  ASSUME RunInv, NEW e \in Events, NEW p \in Pipelines, RunOf(e, p) \notin Terminal, NEW x \in RunStates,
         runs' = [runs EXCEPT ![e][p] = <<x>>]
  PROVE  RunsGoOn
<1>1. runs'[e][p] = <<x>> /\ \A f \in Events, q \in Pipelines : f # e \/ q # p => runs'[f][q] = runs[f][q]
  BY DEF RunInv
<1>2. RunOf(e, p)' = x
  BY <1>1 DEF RunOf
<1>3. \A f \in Events, q \in Pipelines : f # e \/ q # p => RunOf(f, q)' = RunOf(f, q)
  BY <1>1 DEF RunOf
<1>4. x # "none"
  BY DEF RunStates, Terminal
<1> QED BY <1>2, <1>3, <1>4 DEF RunsGoOn

LEMMA RunTurnGoesOn ==
  ASSUME StatusInv, RunInv, NEW w \in Workers, Event(w) \in Events, RunTurn(w)
  PROVE  RunsGoOn
<1>1. "Running" \in RunStates /\ "Cancelling" \in RunStates /\ "none" \notin Terminal /\ "Running" \notin Terminal
  BY DEF RunStates, Terminal
<1>2. CASE UNCHANGED runs
  BY <1>2 DEF RunsGoOn, RunOf
<1>3. CASE MakesOwn(w)
  <2>1. PICK p \in Pipelines : runs[Event(w)][p] = <<>> /\ runs' = [runs EXCEPT ![Event(w)][p] = <<"Running">>]
    BY <1>3 DEF MakesOwn
  <2>2. RunOf(Event(w), p) = "none"
    BY <2>1 DEF RunOf
  <2> QED BY <1>1, <2>1, <2>2, SetRunGoesOn
<1>4. CASE StopsOwn(w)
  BY <1>1, <1>4, SetRunGoesOn DEF StopsOwn
<1> QED BY <1>2, <1>3, <1>4 DEF RunTurn

LEMMA EndRunGoesOn ==
  ASSUME RunInv, NEW e \in Events, NEW p \in Pipelines, EndRun(e, p)
  PROVE  RunsGoOn
<1>1. PICK id \in DOMAIN runs[e][p], end \in {"Completed", "Failed", "Cancelled"} :
        runs' = [runs EXCEPT ![e][p][id] = end] /\ runs[e][p][id] \in {"Running", "Cancelling"}
  BY DEF EndRun
<1>2. runs[e][p] # <<>>
  BY <1>1
<1>3. Len(runs[e][p]) = 1 /\ DOMAIN runs[e][p] = {1} /\ RunOf(e, p) = runs[e][p][1]
      /\ runs[e][p] \in Seq(RunStates)
  BY <1>2, RunCases DEF RunInv
<1>4. end \in RunStates
  BY DEF RunStates, Terminal
<1>5. runs' = [runs EXCEPT ![e][p] = <<end>>]
  <2>1. runs' = [runs EXCEPT ![e][p] = [runs[e][p] EXCEPT ![1] = end]]
    BY <1>1, <1>3
  <2> QED BY <1>3, <1>4, <2>1, OneWith
<1>6. RunOf(e, p) \notin Terminal
  BY <1>1, <1>3 DEF Terminal
<1> QED BY <1>4, <1>5, <1>6, SetRunGoesOn

LEMMA OnwardIf ==
  ASSUME StatusInv, LeaseInv, RunsGoOn, UNCHANGED <<plan, holder>>, gone \subseteq gone',
         left'.deletes = left.deletes \/ ~NoDeletes',
         \A e \in Events : api[e].leader # None => api'[e].leader = api[e].leader
  PROVE  Onward
<1>1. \A n \in Labels : holder'[n] \in Events \cup {None} /\ holder[n] \in {None, holder'[n]}
  BY DEF LeaseInv
<1>2. ASSUME NoDeletes', NEW n \in Labels, holder[n] # None
      PROVE  NoDeletes /\ holder'[n] # None /\ plan.born[holder[n]] <= plan.born[holder'[n]]
  <2>1. plan.born[holder[n]] \in Nat /\ holder'[n] = holder[n]
    BY <1>2, PlanTypes DEF LeaseInv
  <2> QED BY <1>2, <2>1 DEF NoDeletes
<1>3. NoDeletes' => NoDeletes
  BY DEF NoDeletes
<1> QED BY <1>1, <1>2, <1>3 DEF Onward

LEMMA LeaseKeeps ==
  ASSUME StatusInv, LeaseInv, UNCHANGED <<plan, live, gone, holder>>, leader' \in [Groups -> Events \cup {None}],
         left' \in [crashes : Nat, asks : Nat, deletes : Nat], left'.deletes = left.deletes
  PROVE  LeaseInv'
BY DEF LeaseInv, NoDeletes

LEMMA SeenKeeps ==
  ASSUME SeenInv, RunsGoOn, UNCHANGED seen
  PROVE  SeenInv'
<1>1. \A e, p : Look(e, p, 1)' = Look(e, p, 1)
  BY DEF Look
<1> QED BY <1>1 DEF SeenInv, RunsGoOn

(* The statuses after a step are backed by what was so before.             *)
FitNext ==
  \A e \in Events : /\ \A s \in {api'[e], cache'[e]} : Fit(e, s)
                    /\ cache'[e].leader # None => api'[e].leader = cache'[e].leader

LEMMA FitKeeps ==
  ASSUME StatusInv, FitInv, LeaseInv, Onward, FitNext
  PROVE  FitInv'
<1>1. ASSUME NEW e \in Events, NEW s \in {api'[e], cache'[e]} PROVE Fit(e, s)'
  BY <1>1, FitStays DEF FitNext
<1>2. ASSUME NEW e \in Events PROVE (Fit(e, api[e]) /\ Fit(e, cache[e]) /\ Knows(e, cache[e]))'
  BY <1>1 DEF FitNext, Knows
<1> QED BY <1>2 DEF FitInv

LEMMA WorkTurnKeeps ==
  ASSUME StatusInv, RunInv, TurnInv, NEW w \in Workers, worker[w].pc # "idle",
         TurnStep(w), RunTurn(w), leader' \in [Groups -> Events \cup {None}],
         UNCHANGED <<plan, live, gone, holder, known, cache, seen, left>>
  PROVE  TurnInv'
<1> DEFINE e == Event(w)
<1>1. /\ e \in Events /\ e # None /\ FitInv /\ SitInv /\ SeenInv /\ LeaseInv
      /\ \A v \in Workers : v # w => worker[v].event # e
  BY WorkerFacts DEF TurnInv, StatusInv, Event
<1>2. RunsGoOn
  BY <1>1, RunTurnGoesOn
<1>3. left'.deletes = left.deletes /\ gone \subseteq gone' /\ UNCHANGED <<plan, holder>>
  OBVIOUS
<1>4. LeaseInv'
  BY <1>1, LeaseKeeps DEF LeaseInv
<1>5. SeenInv'
  BY <1>1, <1>2, SeenKeeps
<1>6. CASE Sitting(w)
  <2>1. PICK r : Sits(r) /\ r.event \in {None, e} /\ worker' = [worker EXCEPT ![w] = r] /\ UNCHANGED api
    BY <1>6 DEF Sitting
  <2>2. Onward
    BY <1>1, <1>2, <1>3, <2>1, OnwardIf
  <2>3. FitNext
    BY <1>1, <2>1 DEF FitNext, FitInv, Knows
  <2>4. FitInv'
    BY <1>1, <2>2, <2>3, FitKeeps
  <2>5. worker'[w] = r /\ \A v \in Workers : v # w => worker'[v] = worker[v]
    BY <2>1 DEF StatusInv
  <2>6. ASSUME NEW q, Sits(q), q.event \in Events \cup {None} PROVE Sits(q)'
    BY <1>1, <2>1, <2>2, <2>6, SitsStays
  <2>7. ASSUME NEW v \in Workers PROVE Sits(worker[v])'
    <3>1. PICK q : q = worker'[v]
      OBVIOUS
    <3>2. Sits(q) /\ q.event \in Events \cup {None}
      BY <1>1, <2>1, <2>5, <3>1 DEF SitInv, StatusInv, Slot
    <3> QED BY <2>6, <3>1, <3>2
  <2> QED BY <1>4, <1>5, <2>4, <2>7 DEF TurnInv, SitInv
<1>7. CASE Writing(w)
  <2>1. PICK s : /\ Fit(e, s)
                 /\ api[e].leader # None => s.leader = api[e].leader
                 /\ worker' = [worker EXCEPT ![w] = Idle] /\ api' = [api EXCEPT ![e] = s]
    BY <1>7 DEF Writing
  <2>2. api'[e] = s /\ \A f \in Events : f # e => api'[f] = api[f]
    BY <1>1, <2>1 DEF StatusInv
  <2>3. ASSUME NEW f \in Events, api[f].leader # None PROVE api'[f].leader = api[f].leader
    <3>1. CASE f = e
      BY <2>1, <2>2, <2>3, <3>1
    <3>2. CASE f # e
      BY <2>2, <3>2
    <3> QED BY <3>1, <3>2
  <2>4. Onward
    BY <1>1, <1>2, <1>3, <2>3, OnwardIf
  <2>5. FitNext
    <3>1. ASSUME NEW f \in Events PROVE Fit(f, api[f]) /\ Fit(f, cache[f]) /\ Knows(f, cache[f])
      BY <1>1 DEF FitInv
    <3>2. ASSUME NEW f \in Events PROVE \A t \in {api'[f], cache'[f]} : Fit(f, t)
      <4>1. CASE f = e
        BY <2>1, <2>2, <3>1, <4>1
      <4>2. CASE f # e
        BY <2>2, <3>1, <4>2
      <4> QED BY <4>1, <4>2
    <3> QED BY <2>3, <3>1, <3>2 DEF FitNext, Knows
  <2>6. FitInv'
    BY <1>1, <2>4, <2>5, FitKeeps
  <2>7. worker'[w] = Idle /\ \A v \in Workers : v # w => worker'[v] = worker[v]
    BY <2>1 DEF StatusInv
  <2>8. ASSUME NEW v \in Workers PROVE Sits(worker[v])'
    <3>1. PICK q : q = worker'[v]
      OBVIOUS
    <3>2. Sits(q) /\ q.event \in Events \cup {None} /\ q.event # e
      BY <1>1, <2>7, <3>1, IdleSits DEF SitInv, StatusInv, Slot, Idle
    <3>3. q.event # None => api'[q.event].leader = api[q.event].leader
      BY <2>2, <3>2
    <3>4. Sits(q)'
      BY <1>1, <2>4, <3>2, <3>3, SitsStays
    <3> QED BY <3>1, <3>4
  <2> QED BY <1>4, <1>5, <2>6, <2>8 DEF TurnInv, SitInv
<1> QED BY <1>6, <1>7 DEF TurnStep

-----------------------------------------------------------------------------
(* The steps that are not a worker's at its event.                         *)

(* Statuses, workers and leases stay; what is there may go.                *)
LEMMA SitKeeps ==
  ASSUME StatusInv, TurnInv, Onward, UNCHANGED worker,
         \A w \in Workers : worker[w].event # None => api'[worker[w].event].leader = api[worker[w].event].leader
  PROVE  SitInv'
<1>1. ASSUME NEW w \in Workers PROVE Sits(worker[w])'
  <2>1. PICK q : q = worker[w]
    OBVIOUS
  <2>2. q = worker'[w] /\ Sits(q) /\ q.event \in Events \cup {None}
    BY <2>1 DEF TurnInv, SitInv, StatusInv, Slot
  <2>3. Sits(q)'
    BY <2>1, <2>2, SitsStays DEF TurnInv
  <2> QED BY <2>2, <2>3
<1> QED BY <1>1 DEF SitInv

(* probePhase completes only a follower whose own pipelines are done.      *)
LEMMA ProbeFits ==
  ASSUME StatusInv, TurnInv, NEW e \in Events
  PROVE  Fit(e, Probe(e, cache[e])) /\ Probe(e, cache[e]).leader = cache[e].leader
<1> DEFINE s == cache[e]
           t == Probe(e, s)
<1>1. t.phase = ProbePhase(e, s) /\ t.leader = s.leader /\ t.entry = s.entry
  BY DEF Probe
<1>2. Fit(e, s) /\ Knows(e, s)
  BY DEF TurnInv, FitInv
<1>3. CASE ProbePhase(e, s) = "Pending"
  BY <1>1, <1>2, <1>3 DEF Fit, Terminal
<1>4. CASE ProbePhase(e, s) = s.phase
  BY <1>1, <1>2, <1>4 DEF Fit
<1>5. CASE /\ ProbePhase(e, s) = "Completed" /\ \E p \in Pipelines : s.entry[p].status # "none"
           /\ s.leader \notin {None, e}
           /\ \A i \in Indexes : Stage(i).leaderOnly \/ s.entry[Stage(i).name].status = "Completed"
  <2>1. ASSUME NEW i \in Indexes PROVE Passed(e, i)
    <3>1. Stage(i).name \in Pipelines
      BY PlanTypes
    <3> QED BY <1>2, <1>5, <3>1 DEF Passed, Fit, Knows
  <2>2. Over(e)
    BY <2>1 DEF Over
  <2> QED BY <1>1, <1>2, <1>5, <2>2 DEF Fit
<1> QED BY <1>1, <1>3, <1>4, <1>5 DEF ProbePhase

(* The lease of a name changes hands: over nobody, or over a holder that   *)
(* the cache shows as done, and to one that is not older.                  *)
LEMMA TakenGoesOn ==
  ASSUME StatusInv, TurnInv, NEW e \in Events, NEW w \in Workers, AcquireTaken(w, e),
         UNCHANGED <<plan, api, runs, leader, left>>
  PROVE  Onward /\ LeaseInv' /\ Held(e)'
<1> DEFINE n == plan.label[e]
           h == holder[n]
<1>1. /\ n \in Labels /\ plan.born[e] \in Nat /\ None \notin Events /\ known \subseteq Events
      /\ FitInv /\ LeaseInv /\ h \in Events \cup {None} /\ e # None
  BY PlanTypes DEF TurnInv, LeaseInv, StatusInv
<1>2. /\ holder' = [holder EXCEPT ![n] = e] /\ UNCHANGED <<live, gone>>
      /\ h = None \/ (plan.born[h] <= plan.born[e] /\ Over(h))
  <2>1. \/ h = None
        \/ h \in known \ {e} /\ plan.born[e] >= plan.born[h] /\ cache[h].phase \in Terminal
    BY DEF AcquireTaken, Holder
  <2>2. h # None => Over(h)
    BY <1>1, <2>1 DEF FitInv, Fit
  <2>3. h # None => plan.born[h] <= plan.born[e]
    <3>1. h # None => plan.born[h] \in Nat
      BY <1>1, PlanTypes
    <3> QED BY <1>1, <2>1, <3>1
  <2> QED BY <2>2, <2>3 DEF AcquireTaken
<1>3. holder'[n] = e /\ \A m \in Labels : m # n => holder'[m] = holder[m]
  BY <1>1, <1>2 DEF LeaseInv
<1>4. RunsGoOn
  BY DEF RunsGoOn, RunOf
<1>5. \A m \in Labels : /\ holder'[m] \in Events \cup {None}
                        /\ holder[m] \in {None, holder'[m]} \/ Over(holder[m])
  BY <1>1, <1>2, <1>3 DEF LeaseInv
<1>6. ASSUME NEW m \in Labels, holder[m] # None
      PROVE  holder'[m] # None /\ plan.born[holder[m]] <= plan.born[holder'[m]]
  <2>1. CASE m = n
    BY <1>1, <1>2, <1>3, <1>6, <2>1
  <2>2. CASE m # n
    <3>1. holder'[m] = holder[m] /\ plan.born[holder[m]] \in Nat
      BY <1>3, <1>6, <2>2, PlanTypes DEF TurnInv, LeaseInv
    <3> QED BY <1>6, <3>1
  <2> QED BY <2>1, <2>2
<1>7. NoDeletes' = NoDeletes
  BY DEF NoDeletes
<1>8. Onward
  BY <1>2, <1>4, <1>5, <1>6, <1>7 DEF Onward
<1>9. Held(e)'
  <2>1. plan'.label[e] = n /\ plan'.born[e] <= plan'.born[holder'[n]] /\ holder'[n] # None
    BY <1>1, <1>3
  <2> QED BY <1>3, <2>1 DEF Held, Turned
<1>10. LeaseInv'
  <2>1. holder' \in [Labels -> Events \cup {None}]
    BY <1>1, <1>2 DEF LeaseInv
  <2>2. \A m \in Labels : holder'[m] # None => plan.label[holder'[m]] = m
    BY <1>1, <1>3 DEF LeaseInv
  <2>3. ASSUME NoDeletes, NEW g \in gone
        PROVE  holder'[plan.label[g]] # None /\ plan.born[g] < plan.born[holder'[plan.label[g]]]
    <3>1. g \in Events /\ plan.label[g] \in Labels /\ plan.born[g] \in Nat
      BY <1>1, <2>3, PlanTypes DEF LeaseInv
    <3>2. holder[plan.label[g]] # None /\ plan.born[g] < plan.born[holder[plan.label[g]]]
      BY <1>1, <2>3 DEF LeaseInv
    <3>3. holder'[plan.label[g]] # None /\ plan.born[holder[plan.label[g]]] <= plan.born[holder'[plan.label[g]]]
      BY <1>6, <3>1, <3>2
    <3>4. plan.born[holder[plan.label[g]]] \in Nat /\ plan.born[holder'[plan.label[g]]] \in Nat
      BY <1>1, <2>1, <3>1, <3>2, <3>3, PlanTypes DEF LeaseInv
    <3> QED BY <3>1, <3>2, <3>3, <3>4
  <2> QED BY <1>1, <1>2, <1>7, <2>1, <2>2, <2>3 DEF LeaseInv
<1> QED BY <1>8, <1>9, <1>10

LEMMA TakeTurnKeeps ==
  ASSUME StatusInv, RunInv, TurnInv, NEW w \in Workers, NEW e \in Events, Take(w, e)
  PROVE  TurnInv'
<1>1. /\ worker[w] = Idle /\ \A v \in Workers : worker[v].event # e
      /\ UNCHANGED <<plan, leader, runs, known, cache, seen, left>>
  BY DEF Take
<1>2. /\ FitInv /\ SitInv /\ SeenInv /\ LeaseInv /\ RunsGoOn /\ e # None
      /\ leader' \in [Groups -> Events \cup {None}]
      /\ left' \in [crashes : Nat, asks : Nat, deletes : Nat] /\ left'.deletes = left.deletes
  BY <1>1, PlanTypes DEF TurnInv, LeaseInv, RunsGoOn, RunOf
<1>3. SeenInv'
  BY <1>1, <1>2, SeenKeeps
<1>4. CASE UNCHANGED <<worker, api, holder>> /\ LeaseInv' /\ gone \subseteq gone'
  <2>1. Onward
    BY <1>1, <1>2, <1>4, OnwardIf
  <2>2. FitNext
    BY <1>1, <1>2, <1>4 DEF FitNext, FitInv, Knows
  <2>3. FitInv' /\ SitInv'
    BY <1>2, <1>4, <2>1, <2>2, FitKeeps, SitKeeps
  <2> QED BY <1>3, <1>4, <2>3 DEF TurnInv
<1>5. CASE api' = [api EXCEPT ![e] = Probe(e, cache[e])] /\ e \in fresh /\ UNCHANGED <<worker, holder, live, gone>>
  <2> DEFINE s == Probe(e, cache[e])
  <2>1. Fit(e, s) /\ s.leader = api[e].leader
    BY <1>5, ProbeFits DEF StatusInv
  <2> HIDE DEF s
  <2>2. api'[e] = s /\ \A f \in Events : f # e => api'[f] = api[f]
    BY <1>5 DEF StatusInv, s
  <2>3. \A f \in Events : api'[f].leader = api[f].leader
    BY <2>1, <2>2
  <2>4. Onward
    BY <1>1, <1>2, <1>5, <2>3, OnwardIf
  <2>5. FitNext
    <3>1. ASSUME NEW f \in Events PROVE \A t \in {api'[f], cache'[f]} : Fit(f, t)
      <4>1. CASE f = e
        BY <1>1, <1>2, <2>1, <2>2, <4>1 DEF FitInv
      <4>2. CASE f # e
        BY <1>1, <1>2, <2>2, <4>2 DEF FitInv
      <4> QED BY <4>1, <4>2
    <3> QED BY <1>1, <1>2, <2>3, <3>1 DEF FitNext, FitInv, Knows
  <2>6. SitInv'
    <3>1. \A v \in Workers : worker[v].event # None => api'[worker[v].event].leader = api[worker[v].event].leader
      BY <2>3 DEF StatusInv, Slot
    <3> QED BY <1>5, <2>4, <3>1, SitKeeps
  <2>7. LeaseInv'
    BY <1>1, <1>2, <1>5, LeaseKeeps
  <2> QED BY <1>2, <1>3, <2>4, <2>5, <2>6, <2>7, FitKeeps DEF TurnInv
<1>6. CASE (AcquireKept(w, e) \/ AcquireTaken(w, e)) /\ UNCHANGED api
  <2> DEFINE r == [pc |-> "stage", event |-> e, copy |-> cache[e], current |-> e \in fresh, stage |-> 1]
  <2>1. worker' = [worker EXCEPT ![w] = r]
    BY <1>6 DEF AcquireKept, AcquireTaken, Begin
  <2>2. Onward /\ LeaseInv' /\ Held(e)'
    <3>1. CASE AcquireTaken(w, e)
      BY <1>1, <1>6, <3>1, TakenGoesOn
    <3>2. CASE AcquireKept(w, e)
      <4>1. UNCHANGED <<holder, live, gone>>
        BY <3>2 DEF AcquireKept
      <4>2. Onward
        BY <1>1, <1>2, <1>6, <4>1, OnwardIf
      <4>3. LeaseInv'
        BY <1>1, <1>2, <4>1, LeaseKeeps
      <4>4. CASE cache[e].phase \notin {"", "Pending"}
        <5>1. Held(e)
          BY <1>2, <4>4 DEF FitInv, Fit
        <5> QED BY <1>2, <4>2, <4>3, <5>1, HeldStays
      <4>5. CASE holder[plan.label[e]] = e
        <5>1. plan.born[e] <= plan.born[e]
          BY PlanTypes
        <5>2. Held(e)
          BY <1>2, <4>5, <5>1 DEF Held, Turned
        <5> QED BY <1>2, <4>2, <4>3, <5>2, HeldStays
      <4> QED BY <3>2, <4>4, <4>5 DEF AcquireKept, Pending, Holder
    <3> QED BY <1>6, <3>1, <3>2
  <2>3. FitNext
    BY <1>1, <1>2, <1>6 DEF FitNext, FitInv, Knows
  <2>4. FitInv'
    BY <1>2, <2>2, <2>3, FitKeeps
  <2>5. Fit(e, cache[e])' /\ Knows(e, cache[e])' /\ (e \in fresh => api'[e].leader = cache[e].leader)
    BY <1>6, <2>4 DEF FitInv, StatusInv
  <2>6. ASSUME NEW q, q = r PROVE Sits(q)'
    <3>1. q.event = e /\ q.copy = cache[e] /\ q.pc = "stage" /\ q.current = (e \in fresh) /\ q.stage = 1
      BY <2>6
    <3>2. Fit(e, q.copy)' /\ Knows(e, q.copy)' /\ (q.current => api'[e].leader = q.copy.leader)
      BY <1>1, <2>5, <3>1
    <3>3. 1 \in Nat \ {0} /\ \A k \in Indexes' : ~(k < 1)
      BY <2>2, PlanTypes, PlanStays
    <3> QED BY <2>2, <3>1, <3>2, <3>3 DEF Sits
  <2> HIDE DEF r
  <2>7. worker'[w] = r /\ \A v \in Workers : v # w => worker'[v] = worker[v]
    BY <2>1 DEF StatusInv
  <2>8. ASSUME NEW v \in Workers PROVE Sits(worker[v])'
    <3>1. PICK q : q = worker'[v]
      OBVIOUS
    <3>2. CASE v = w
      BY <2>6, <2>7, <3>1, <3>2
    <3>3. CASE v # w
      <4>1. Sits(q) /\ q.event \in Events \cup {None}
        BY <1>2, <2>7, <3>1, <3>3 DEF SitInv, StatusInv, Slot
      <4>2. Sits(q)'
        BY <1>2, <1>6, <2>2, <4>1, SitsStays
      <4> QED BY <3>1, <4>2
    <3> QED BY <3>2, <3>3
  <2> QED BY <1>3, <2>2, <2>4, <2>8 DEF TurnInv, SitInv
<1>7. CASE AcquireTooOld(e) /\ UNCHANGED api
  <2>1. /\ UNCHANGED <<worker, holder>> /\ live' = live \ {e} /\ gone' = gone \cup {e}
        /\ plan.born[e] < plan.born[holder[plan.label[e]]] /\ holder[plan.label[e]] \in known
    BY <1>7 DEF AcquireTooOld, Refuse, Holder
  <2>2. holder[plan.label[e]] # None
    BY <2>1, PlanTypes DEF StatusInv
  <2>3. LeaseInv'
    BY <1>1, <1>2, <2>1, <2>2 DEF LeaseInv, NoDeletes
  <2> QED BY <1>4, <1>7, <2>1, <2>3
<1>8. CASE UNCHANGED <<worker, api, holder, live, gone>>
  <2>1. LeaseInv'
    BY <1>1, <1>2, <1>8, LeaseKeeps
  <2> QED BY <1>4, <1>8, <2>1
<1> QED BY <1>5, <1>6, <1>7, <1>8 DEF Take, Refuse, AcquireWaits

(* The informers: what they bring is in the API server, or gone.           *)
LEMMA ObserveTurnKeeps ==
  ASSUME StatusInv, RunInv, TurnInv, NEW e \in Events, ObserveEvent(e) \/ ObserveDeletion(e)
  PROVE  TurnInv'
<1>1. UNCHANGED <<plan, live, gone, api, holder, leader, runs, seen, worker, left>>
  BY DEF ObserveEvent, ObserveDeletion, resources
<1>2. FitInv /\ SitInv /\ SeenInv /\ LeaseInv /\ RunsGoOn
  BY <1>1 DEF TurnInv, RunsGoOn, RunOf
<1>3. Onward
  BY <1>1, <1>2, OnwardIf
<1>4. SeenInv' /\ SitInv'
  BY <1>1, <1>2, <1>3, SeenKeeps, SitKeeps
<1>5. LeaseInv'
  BY <1>1, <1>2, LeaseKeeps DEF LeaseInv
<1>6. PICK s \in {api[e], NewStatus} : cache' = [cache EXCEPT ![e] = s]
  BY DEF ObserveEvent, ObserveDeletion
<1>7. cache'[e] = s /\ \A f \in Events : f # e => cache'[f] = cache[f]
  BY <1>6 DEF StatusInv
<1>8. Fit(e, s) /\ (s.leader # None => api[e].leader = s.leader)
  <2>1. Fit(e, NewStatus) /\ NewStatus.leader = None
    BY NewFits DEF NewStatus
  <2> QED BY <1>2, <1>6, <2>1 DEF FitInv
<1>9. FitNext
  <2>1. ASSUME NEW f \in Events
        PROVE  /\ \A t \in {api'[f], cache'[f]} : Fit(f, t)
               /\ cache'[f].leader # None => api'[f].leader = cache'[f].leader
    <3>1. CASE f = e
      BY <1>1, <1>2, <1>7, <1>8, <3>1 DEF FitInv
    <3>2. CASE f # e
      BY <1>1, <1>2, <1>7, <3>2 DEF FitInv, Knows
    <3> QED BY <3>1, <3>2
  <2> QED BY <2>1 DEF FitNext
<1> QED BY <1>2, <1>3, <1>4, <1>5, <1>9, FitKeeps DEF TurnInv

LEMMA RebornTurnKeeps ==
  ASSUME StatusInv, RunInv, TurnInv, Reborn,
         left' \in [crashes : Nat, asks : Nat, deletes : Nat], left'.deletes = left.deletes
  PROVE  TurnInv'
<1>1. /\ UNCHANGED <<plan, live, gone, api, holder, leader, runs>> /\ seen' = runs
      /\ cache' = [e \in Events |-> IF e \in live THEN api[e] ELSE NewStatus]
      /\ worker' = [w \in Workers |-> Idle]
  BY DEF Reborn, resources
<1>2. FitInv /\ SitInv /\ SeenInv /\ LeaseInv /\ RunsGoOn
  BY <1>1 DEF TurnInv, RunsGoOn, RunOf
<1>3. Onward
  BY <1>1, <1>2, OnwardIf
<1>4. LeaseInv'
  BY <1>1, <1>2, LeaseKeeps DEF LeaseInv
<1>5. SeenInv'
  <2>1. ASSUME NEW e \in Events, NEW p \in Pipelines
        PROVE  (Look(e, p, 1)' # "absent" => RunOf(e, p)' = Look(e, p, 1)' /\ RunOf(e, p)' # "none")
    <3>1. CASE runs[e][p] = <<>>
      BY <1>1, <3>1 DEF Look
    <3>2. CASE runs[e][p] # <<>>
      <4>1. DOMAIN runs[e][p] = {1} /\ RunOf(e, p) = runs[e][p][1] /\ RunOf(e, p) # "none"
        BY <3>2, RunCases
      <4> QED BY <1>1, <4>1 DEF Look, RunOf
    <3> QED BY <3>1, <3>2
  <2>2. "absent" \notin Terminal
    BY DEF Terminal
  <2> QED BY <2>1, <2>2 DEF SeenInv
<1>6. FitNext
  <2>1. ASSUME NEW f \in Events
        PROVE  /\ \A t \in {api'[f], cache'[f]} : Fit(f, t)
               /\ cache'[f].leader # None => api'[f].leader = cache'[f].leader
    <3>1. Fit(f, NewStatus) /\ NewStatus.leader = None
      BY NewFits DEF NewStatus
    <3> QED BY <1>1, <1>2, <3>1 DEF FitInv
  <2> QED BY <2>1 DEF FitNext
<1>7. ASSUME NEW w \in Workers PROVE Sits(worker[w])'
  BY <1>1 DEF Sits, Idle
<1> QED BY <1>2, <1>3, <1>4, <1>5, <1>6, <1>7, FitKeeps DEF TurnInv, SitInv

(* A user does not ask for a run to be completed.                          *)
LEMMA AskTurnKeeps ==
  ASSUME StatusInv, RunInv, TurnInv, NEW e \in Events, NEW i \in Indexes, Ask(e, i)
  PROVE  TurnInv'
<1> DEFINE p == Stage(i).name
<1>1. /\ UNCHANGED <<plan, live, gone, holder, leader, runs, cache, seen>> /\ left' = [left EXCEPT !.asks = @ - 1]
      /\ left.asks > 0
      /\ worker' = [w \in Workers |-> IF worker[w].event = e
                                       THEN [worker[w] EXCEPT !.current = FALSE] ELSE worker[w]]
  BY DEF Ask, Supersede
<1>2. FitInv /\ SitInv /\ SeenInv /\ LeaseInv /\ RunsGoOn
  BY <1>1 DEF TurnInv, RunsGoOn, RunOf
<1>3. left' \in [crashes : Nat, asks : Nat, deletes : Nat] /\ left'.deletes = left.deletes
  BY <1>1, <1>2 DEF LeaseInv
<1>4. PICK status \in {"Cancelled", "Rollback"} :
         api' = [api EXCEPT ![e] = SetEntry(api[e], p, status)] /\ api[e].entry[p].status # "none"
  BY DEF Ask
<1>5. status \in Named /\ status # "Completed"
  BY <1>4 DEF Named, Statuses
<1>6. Fit(e, SetEntry(api[e], p, status)) /\ SetEntry(api[e], p, status).leader = api[e].leader
  BY <1>2, <1>4, <1>5, EntryFits DEF FitInv, StatusInv
<1>7. api'[e] = SetEntry(api[e], p, status) /\ \A f \in Events : f # e => api'[f] = api[f]
  BY <1>4 DEF StatusInv
<1>8. \A f \in Events : api'[f].leader = api[f].leader
  BY <1>6, <1>7
<1>9. Onward
  BY <1>1, <1>2, <1>3, <1>8, OnwardIf
<1>10. FitNext
  <2>1. ASSUME NEW f \in Events PROVE \A t \in {api'[f], cache'[f]} : Fit(f, t)
    <3>1. CASE f = e
      BY <1>1, <1>2, <1>6, <1>7, <3>1 DEF FitInv
    <3>2. CASE f # e
      BY <1>1, <1>2, <1>7, <3>2 DEF FitInv
    <3> QED BY <3>1, <3>2
  <2> QED BY <1>1, <1>2, <1>8, <2>1 DEF FitNext, FitInv, Knows
<1>11. SeenInv' /\ LeaseInv'
  BY <1>1, <1>2, <1>3, SeenKeeps, LeaseKeeps DEF LeaseInv
<1>12. ASSUME NEW w \in Workers PROVE Sits(worker[w])'
  <2>1. PICK q : q = worker'[w]
    OBVIOUS
  <2>2. /\ q.pc = worker[w].pc /\ q.event = worker[w].event /\ q.copy = worker[w].copy /\ q.stage = worker[w].stage
        /\ q.current => worker[w].current
    <3>1. Slot(worker[w])
      BY DEF StatusInv
    <3> QED BY <1>1, <2>1, <3>1 DEF Slot
  <2>3. Sits(q)
    <3>1. Sits(worker[w])
      BY <1>2 DEF SitInv
    <3> QED BY <2>2, <3>1 DEF Sits
  <2>4. q.event \in Events \cup {None}
    BY <2>2 DEF StatusInv, Slot
  <2>5. q.event # None /\ q.current => api'[q.event].leader = api[q.event].leader
    BY <1>8, <2>4
  <2>6. Sits(q)'
    BY <1>2, <1>9, <2>3, <2>4, <2>5, SitsStays
  <2> QED BY <2>1, <2>6
<1> QED BY <1>2, <1>9, <1>10, <1>11, <1>12, FitKeeps DEF TurnInv, SitInv

(* The lease of an event that is gone is free again; it was not the        *)
(* latest holder unless a user deleted it.                                 *)
LEMMA CollectGoesOn ==
  ASSUME StatusInv, TurnInv, Collect
  PROVE  Onward /\ LeaseInv'
<1>1. /\ UNCHANGED <<plan, live, gone, api, runs, left>>
      /\ LeaseInv /\ RunsGoOn /\ NoDeletes' = NoDeletes
  BY DEF Collect, TurnInv, RunsGoOn, RunOf, NoDeletes
<1>2. CASE UNCHANGED holder
  <2>1. leader' \in [Groups -> Events \cup {None}]
    BY <1>1, <1>2 DEF Collect, LeaseInv
  <2>2. left' \in [crashes : Nat, asks : Nat, deletes : Nat]
    BY <1>1 DEF LeaseInv
  <2> QED BY <1>1, <1>2, <2>1, <2>2, OnwardIf, LeaseKeeps
<1>3. ASSUME NEW n \in Labels, holder[n] \in gone, holder' = [holder EXCEPT ![n] = None], UNCHANGED leader
      PROVE  Onward /\ LeaseInv'
  <2>1. ~NoDeletes
    <3>1. holder[n] \in Events /\ holder[n] # None /\ plan.label[holder[n]] = n /\ plan.born[holder[n]] \in Nat
      BY <1>1, <1>3, PlanTypes DEF LeaseInv
    <3>2. ~(plan.born[holder[n]] < plan.born[holder[n]])
      BY <3>1
    <3> QED BY <1>1, <1>3, <3>1, <3>2 DEF LeaseInv
  <2>2. holder'[n] = None /\ \A m \in Labels : m # n => holder'[m] = holder[m]
    BY <1>1, <1>3 DEF LeaseInv
  <2>3. \A m \in Labels : /\ holder'[m] \in Events \cup {None}
                          /\ holder[m] \in {None, holder'[m]} \/ holder[m] \in gone
    BY <1>1, <1>3, <2>2 DEF LeaseInv
  <2>4. Onward
    BY <1>1, <2>1, <2>3 DEF Onward
  <2>5. LeaseInv'
    BY <1>1, <1>3, <2>1, <2>2 DEF LeaseInv
  <2> QED BY <2>4, <2>5
<1> QED BY <1>2, <1>3 DEF Collect

(* Where statuses, copies and workers stay, the rest follows.              *)
LEMMA OtherTurnKeeps ==
  ASSUME StatusInv, TurnInv, Onward, LeaseInv', UNCHANGED <<api, cache, seen, worker>>
  PROVE  TurnInv'
<1>1. FitInv /\ SeenInv /\ LeaseInv /\ RunsGoOn
  BY DEF TurnInv, Onward
<1>2. FitNext
  BY <1>1 DEF FitNext, FitInv, Knows
<1> QED BY <1>1, <1>2, FitKeeps, SeenKeeps, SitKeeps DEF TurnInv

LEMMA TurnStepKeeps == StatusInv /\ RunInv /\ TurnInv /\ [Next]_vars => TurnInv'
<1> SUFFICES ASSUME StatusInv, RunInv, TurnInv, [Next]_vars PROVE TurnInv'
  OBVIOUS
<1>1. LeaseInv /\ (UNCHANGED runs => RunsGoOn)
  BY DEF TurnInv, RunsGoOn, RunOf
<1>2. leader \in [Groups -> Events \cup {None}] /\ left \in [crashes : Nat, asks : Nat, deletes : Nat]
  BY <1>1 DEF LeaseInv
<1>3. ASSUME NEW w \in Workers, DoStage(w) PROVE TurnInv'
  <2>1. TurnStep(w) /\ RunTurn(w) /\ leader' \in [Groups -> Events \cup {None}] /\ worker[w].pc # "idle"
        /\ UNCHANGED <<plan, live, gone, holder, known, cache, seen, left>>
    BY <1>3, DoStageTurns DEF DoStage
  <2> QED BY <2>1, WorkTurnKeeps
<1>4. ASSUME NEW w \in Workers, Unlock(w) \/ Finish(w) \/ Save(w) PROVE TurnInv'
  <2>1. TurnStep(w) /\ RunTurn(w) /\ leader' \in [Groups -> Events \cup {None}] /\ worker[w].pc # "idle"
        /\ UNCHANGED <<plan, live, gone, holder, known, cache, seen, left>>
    BY <1>2, <1>4, UnlockTurns, EndTurns DEF Unlock, Finish, Save, RunTurn
  <2> QED BY <2>1, WorkTurnKeeps
<1>5. ASSUME NEW w \in Workers, NEW e \in Events, Take(w, e) PROVE TurnInv'
  BY <1>5, TakeTurnKeeps
<1>6. CASE Crash \/ \E w \in Workers : Panic(w)
  <2>1. Reborn /\ left' \in [crashes : Nat, asks : Nat, deletes : Nat] /\ left'.deletes = left.deletes
    BY <1>2, <1>6 DEF Crash, Panic
  <2> QED BY <2>1, RebornTurnKeeps
<1>7. ASSUME NEW e \in Events, ObserveEvent(e) \/ ObserveDeletion(e) PROVE TurnInv'
  BY <1>7, ObserveTurnKeeps
<1>8. ASSUME NEW e \in Events, NEW i \in Indexes, Ask(e, i) PROVE TurnInv'
  BY <1>8, AskTurnKeeps
<1>9. ASSUME NEW e \in Events, NEW p \in Pipelines, EndRun(e, p) PROVE TurnInv'
  <2>1. UNCHANGED <<plan, live, gone, api, holder, leader, cache, seen, worker, left>> /\ RunsGoOn
    BY <1>9, EndRunGoesOn DEF EndRun, caches
  <2> QED BY <1>1, <1>2, <2>1, OnwardIf, LeaseKeeps, OtherTurnKeeps
<1>10. ASSUME NEW e \in Events, NEW p \in Pipelines, ObserveRun(e, p) PROVE TurnInv'
  <2>1. UNCHANGED <<plan, live, gone, api, holder, leader, runs, cache, worker, left>>
        /\ seen' = [seen EXCEPT ![e][p] = runs[e][p]]
    BY <1>10 DEF ObserveRun, resources
  <2>2. Onward
    BY <1>1, <2>1, OnwardIf
  <2>3. LeaseInv'
    BY <1>1, <1>2, <2>1, LeaseKeeps
  <2>4. FitNext
    BY <2>1 DEF FitNext, TurnInv, FitInv, Knows
  <2>5. FitInv' /\ SitInv'
    BY <1>1, <2>1, <2>2, <2>4, FitKeeps, SitKeeps DEF TurnInv
  <2>6. SeenInv'
    <3>1. ASSUME NEW f \in Events, NEW q \in Pipelines, NEW run, run = Look(f, q, 1)'
          PROVE  (run # "absent" => RunOf(f, q)' # "none") /\ (run \in Terminal => RunOf(f, q)' = run)
      <4>1. RunOf(f, q)' = RunOf(f, q)
        BY <2>1 DEF RunOf
      <4>2. CASE seen'[f][q] = seen[f][q]
        BY <3>1, <4>1, <4>2 DEF TurnInv, SeenInv, Look
      <4>3. CASE seen'[f][q] = runs[f][q]
        <5>1. CASE runs[f][q] = <<>>
          BY <3>1, <4>3, <5>1 DEF Look, Terminal
        <5>2. CASE runs[f][q] # <<>>
          <6>1. DOMAIN runs[f][q] = {1} /\ RunOf(f, q) = runs[f][q][1] /\ RunOf(f, q) # "none"
            BY <5>2, RunCases
          <6> QED BY <3>1, <4>1, <4>3, <6>1 DEF Look
        <5> QED BY <5>1, <5>2
      <4>4. CASE ~(f \in DOMAIN seen /\ q \in DOMAIN seen[f])
        BY <2>1, <4>2, <4>4
      <4> QED BY <2>1, <4>2, <4>3, <4>4
    <3> QED BY <3>1 DEF SeenInv
  <2> QED BY <2>3, <2>5, <2>6 DEF TurnInv
<1>11. CASE Collect
  <2>1. Onward /\ LeaseInv' /\ UNCHANGED <<api, cache, seen, worker>>
    BY <1>11, CollectGoesOn DEF Collect, caches
  <2> QED BY <2>1, OtherTurnKeeps
<1>12. ASSUME NEW e \in Events, Create(e) PROVE TurnInv'
  <2>1. /\ UNCHANGED <<plan, gone, api, holder, leader, runs, cache, seen, worker, left>>
        /\ live' = live \cup {e} /\ e \notin gone
    BY <1>12 DEF Create, caches
  <2>2. LeaseInv'
    BY <1>1, <2>1 DEF LeaseInv, NoDeletes
  <2> QED BY <1>1, <2>1, <2>2, OnwardIf, OtherTurnKeeps
<1>13. ASSUME NEW e \in Events, Delete(e) PROVE TurnInv'
  <2>1. /\ UNCHANGED <<plan, api, holder, leader, runs, cache, seen, worker>>
        /\ live' = live \ {e} /\ gone' = gone \cup {e}
        /\ left.deletes > 0 /\ left' = [left EXCEPT !.deletes = @ - 1]
    BY <1>13 DEF Delete, caches
  <2>2. /\ left' \in [crashes : Nat, asks : Nat, deletes : Nat]
        /\ left'.deletes < left.deletes /\ left'.deletes < plan.bound.deletes
    <3>1. left'.deletes = left.deletes - 1 /\ left' \in [crashes : Nat, asks : Nat, deletes : Nat]
      BY <1>2, <2>1
    <3>2. plan.bound.deletes \in Nat /\ left.deletes \in Nat /\ left.deletes <= plan.bound.deletes
      BY <1>1, <1>2, PlanTypes DEF LeaseInv
    <3> QED BY <3>1, <3>2
  <2>3. left'.deletes \in Nat /\ plan'.bound.deletes = plan.bound.deletes /\ plan.bound.deletes \in Nat
    BY <2>1, <2>2, PlanTypes
  <2>4. ~NoDeletes' /\ left'.deletes <= plan'.bound.deletes
    BY <2>2, <2>3 DEF NoDeletes
  <2>5. LeaseInv'
    BY <1>1, <1>13, <2>1, <2>2, <2>4 DEF LeaseInv
  <2> QED BY <1>1, <2>1, <2>4, <2>5, OnwardIf, OtherTurnKeeps
<1>14. CASE UNCHANGED vars
  <2>1. UNCHANGED <<plan, live, gone, api, holder, leader, runs, cache, seen, worker, left>>
    BY <1>14 DEF vars, resources, caches
  <2> QED BY <1>1, <1>2, <2>1, OnwardIf, LeaseKeeps, OtherTurnKeeps
<1> QED BY <1>3, <1>4, <1>5, <1>6, <1>7, <1>8, <1>9, <1>10, <1>11, <1>12, <1>13, <1>14 DEF Next, Work

LEMMA TurnStarts == Init => TurnInv
<1> SUFFICES ASSUME Init PROVE TurnInv
  OBVIOUS
<1>1. StatusInv
  BY Starts
<1>2. \A e \in Events : api[e] = NewStatus /\ cache[e] = NewStatus
  BY DEF Init
<1>3. FitInv
  BY <1>1, <1>2, NewFits DEF FitInv, Knows, NewStatus
<1>4. SitInv
  BY IdleSits DEF Init, SitInv
<1>5. SeenInv
  <2>1. \A e \in Events, p \in Pipelines : Look(e, p, 1) = "absent"
    BY DEF Init, Look
  <2> QED BY <2>1 DEF SeenInv, Terminal
<1>6. LeaseInv
  <2>1. plan.bound \in [crashes : Nat, asks : Nat, deletes : Nat] /\ left = plan.bound
    BY <1>1, PlanTypes DEF Init
  <2>2. left.deletes <= plan.bound.deletes
    BY <2>1
  <2> QED BY <2>1, <2>2 DEF Init, LeaseInv
<1> QED BY <1>3, <1>4, <1>5, <1>6 DEF TurnInv

LEMMA AlwaysBacked == Spec => [](StatusInv /\ RunInv /\ TurnInv)
<1>1. Init => StatusInv /\ RunInv /\ TurnInv
  BY Starts, TurnStarts
<1>2. StatusInv /\ RunInv /\ TurnInv /\ [Next]_vars => StatusInv' /\ RunInv' /\ TurnInv'
  BY StepKeeps, TurnStepKeeps
<1> QED BY <1>1, <1>2, PTL DEF Spec

-----------------------------------------------------------------------------
(* What follows from the invariant.                                        *)

LEMMA RunIsReached ==
  ASSUME StatusInv, RunInv, TurnInv, NEW e \in Events, NEW p \in Forward, RunOf(e, p) # "none"
  PROVE  Reached(e, p) /\ Held(e)
<1>1. p \in Pipelines
  BY PlanTypes
<1>2. api[e].entry[p].status # "none"
  BY <1>1, RunCases
<1> QED BY <1>1, <1>2 DEF TurnInv, FitInv, Fit

(* Who is over has no run of the calendar's pipelines at work: it would    *)
(* have been started behind a pipeline that stopped, or for a follower.    *)
LEMMA OverIsQuiet ==
  ASSUME StatusInv, RunInv, TurnInv, NEW e \in Events, Over(e), NEW p \in Forward
  PROVE  ~Unfinished(e, p)
<1>1. p \in Pipelines
  BY PlanTypes
<1>2. SUFFICES ASSUME RunOf(e, p) \in {"Running", "Cancelling"} PROVE FALSE
  BY <1>1, UnfinishedIsRunning
<1>3. PICK i \in Indexes : Stage(i).name = p /\ Stands(e, i)
  BY <1>2, RunIsReached DEF Reached
<1>4. ~Passed(e, i)
  BY <1>2, <1>3 DEF Passed, Fin, Stands, Own
<1>5. PICK j \in Indexes : Blocked(e, j)
  BY <1>4 DEF Over
<1>6. CASE j < i
  <2>1. Ready(e, j)
    BY <1>3, <1>6 DEF Stands
  <2> QED BY <1>5, <2>1 DEF Ready, Blocked, Own, Fin
<1>7. CASE j = i
  BY <1>2, <1>3, <1>5, <1>7 DEF Blocked
<1>8. CASE i < j
  BY <1>4, <1>5, <1>8 DEF Blocked
<1> QED BY <1>6, <1>7, <1>8, PlanTypes

(* Two events of one name never both run a pipeline of the calendar,       *)
(* whatever two workers read from caches that lag, through crashes,        *)
(* deletions and the requests of users (acquireLease of event.go).         *)
THEOREM AlwaysTakeTurns == Spec => []TakeTurns
<1>1. StatusInv /\ RunInv /\ TurnInv => TakeTurns
  <2> SUFFICES ASSUME StatusInv, RunInv, TurnInv, NEW e \in live, NEW f \in live, e # f, SameLabel(e, f)
               PROVE  \/ \A p \in Forward : ~Unfinished(e, p)
                      \/ \A p \in Forward : ~Unfinished(f, p)
    BY DEF TakeTurns
  <2>1. e \in Events /\ f \in Events /\ e \notin gone /\ f \notin gone
    BY DEF StatusInv, TurnInv, LeaseInv
  <2>2. ASSUME NEW g \in {e, f}, holder[plan.label[g]] # g, NEW p \in Forward PROVE ~Unfinished(g, p)
    <3>1. g \in Events /\ g \notin gone /\ p \in Pipelines
      BY <2>1, <2>2, PlanTypes
    <3>2. CASE RunOf(g, p) = "none"
      BY <3>1, <3>2, UnfinishedIsRunning
    <3>3. CASE RunOf(g, p) # "none"
      <4>1. Over(g)
        BY <2>2, <3>1, <3>3, RunIsReached DEF Held
      <4> QED BY <3>1, <4>1, OverIsQuiet
    <3> QED BY <3>2, <3>3
  <2>3. holder[plan.label[e]] # e \/ holder[plan.label[f]] # f
    BY DEF SameLabel
  <2> QED BY <2>2, <2>3
<1> QED BY <1>1, AlwaysBacked, PTL

(* A pipeline starts in a place where those before it have completed, its  *)
(* own or its leader's, and one that is LeaderOnly only for the leader, in *)
(* every calendar, whatever the copies say that workers decide from        *)
(* (syncEventPipeline of event_controller.go).                             *)
THEOREM AlwaysInOrder == Spec => []InOrder
<1>1. StatusInv /\ RunInv /\ TurnInv => InOrder
  <2> SUFFICES ASSUME StatusInv, RunInv, TurnInv, NEW e \in live, NEW p \in Forward, runs[e][p] # <<>>
               PROVE  \E i \in Indexes : /\ Stage(i).name = p /\ Behind(e, i)
                                         /\ Stage(i).leaderOnly => api[e].leader = e
    BY DEF InOrder
  <2>1. e \in Events /\ p \in Pipelines
    BY PlanTypes DEF StatusInv
  <2>2. RunOf(e, p) # "none"
    BY <2>1, RunCases
  <2>3. PICK i \in Indexes : Stage(i).name = p /\ Stands(e, i)
    BY <2>1, <2>2, RunIsReached DEF Reached
  <2>4. ASSUME NEW j \in 1 .. i - 1
        PROVE  Done(IF Stage(j).leaderOnly THEN api[e].leader ELSE e, Stage(j).name)
    <3>1. j \in Indexes /\ j < i
      BY <2>3, PlanTypes
    <3>2. Ready(e, j) /\ Stage(j).name \in Pipelines /\ api[e].leader \in Events \cup {None}
      BY <2>1, <2>3, <3>1, PlanTypes, LeaderType DEF Stands, TurnInv
    <3>3. \A l \in Events \cup {None} : Fin(l, Stage(j).name) => Done(l, Stage(j).name)
      BY <3>2, DoneIsFin
    <3> QED BY <2>1, <3>2, <3>3 DEF Ready
  <2> QED BY <2>3, <2>4 DEF Behind, Stands, Own
<1> QED BY <1>1, AlwaysBacked, PTL

-----------------------------------------------------------------------------
(* Events of a name do not step back.                                      *)

LEMMA BegunIsHeld ==
  ASSUME StatusInv, RunInv, TurnInv, NEW e \in Events, Begun(e)
  PROVE  Held(e)
<1>1. PICK p \in Pipelines : runs[e][p] # <<>>
  BY DEF Begun
<1>2. api[e].entry[p].status # "none"
  BY <1>1, RunCases
<1> QED BY <1>2 DEF TurnInv, FitInv, Fit

(* A step makes the first run of an event only where it runs a pipeline    *)
(* itself, and then it is not over: it has the lease.                      *)
LEMMA FirstRunIsHolders ==
  ASSUME StatusInv, RunInv, TurnInv, [Next]_vars, NEW e \in live, ~Begun(e), runs'[e] # runs[e]
  PROVE  holder[plan.label[e]] = e
<1>1. e \in Events /\ e \notin gone /\ \A p \in Pipelines : RunOf(e, p) = "none"
  <2>1. e \in Events /\ e \notin gone
    BY DEF StatusInv, TurnInv, LeaseInv
  <2> QED BY <2>1 DEF Begun, RunOf
<1>2. ASSUME NEW f \in Events, NEW p \in Pipelines, EndRun(f, p) PROVE runs'[e] = runs[e]
  <2>1. PICK id \in DOMAIN runs[f][p], end \in {"Completed", "Failed", "Cancelled"} :
          runs' = [runs EXCEPT ![f][p][id] = end]
    BY <1>2 DEF EndRun
  <2>2. runs[f][p] # <<>>
    BY <2>1
  <2>3. f # e
    BY <1>1, <1>2, <2>2 DEF Begun
  <2> QED BY <1>1, <2>1, <2>3 DEF RunInv
<1>3. PICK w \in Workers : DoStage(w)
  <2>1. UNCHANGED runs \/ (\E w \in Workers : DoStage(w)) \/ \E f \in Events, p \in Pipelines : EndRun(f, p)
    BY DEF Next, Work, Unlock, Finish, Save, Panic, Take, ObserveEvent, ObserveDeletion, Create, Delete,
           ObserveRun, Ask, Crash, Collect, Reborn, resources, vars
  <2> QED BY <1>2, <2>1
<1>4. RunTurn(w) /\ Event(w) \in Events /\ Event(w) # None /\ Held(Event(w))
  BY <1>3, DoStageTurns, WorkerFacts DEF DoStage
<1>5. Event(w) = e
  BY <1>1, <1>4 DEF RunTurn, MakesOwn, StopsOwn, RunInv
<1>6. MakesOwn(w)
  BY <1>1, <1>4, <1>5 DEF RunTurn, StopsOwn
<1>7. PICK i \in Indexes : Own(e, i)
  BY <1>5, <1>6 DEF MakesOwn
<1>8. ~Over(e)
  <2>1. \A k \in Indexes : Stage(k).name \in Pipelines
    BY PlanTypes
  <2>2. ~Passed(e, i)
    BY <1>1, <1>7, <2>1 DEF Passed, Fin, Own
  <2>3. \A k \in Indexes : ~Blocked(e, k)
    BY <1>1, <2>1 DEF Blocked
  <2> QED BY <2>2, <2>3 DEF Over
<1> QED BY <1>1, <1>4, <1>5, <1>8 DEF Held

(* An event does not begin once a later one of its name has: it was        *)
(* deleted for its age, or does not get the lease, as long as no user      *)
(* deletes one (acquireLease of event.go).                                 *)
THEOREM NeverStepsBack == Spec => NoStepBack
<1>1. ASSUME StatusInv, RunInv, TurnInv, [Next]_vars, NEW e \in live, NEW f \in live,
             left.deletes = plan.bound.deletes, SameLabel(e, f), plan.born[e] < plan.born[f], Begun(f), ~Begun(e)
      PROVE  runs'[e] = runs[e]
  <2>1. e \in Events /\ f \in Events /\ NoDeletes
    BY <1>1 DEF StatusInv, NoDeletes
  <2>2. plan.born[f] <= plan.born[holder[plan.label[f]]]
    BY <1>1, <2>1, BegunIsHeld DEF Held, Turned
  <2>3. plan.born[e] \in Nat /\ plan.born[f] \in Nat
    BY <1>1, <2>1, PlanTypes
  <2>4. holder[plan.label[e]] # e
    BY <1>1, <2>2, <2>3 DEF SameLabel
  <2> QED BY <1>1, <2>4, FirstRunIsHolders
<1>2. StatusInv /\ RunInv /\ TurnInv /\ [Next]_vars =>
        [\A e, f \in live :
           /\ left.deletes = plan.bound.deletes
           /\ SameLabel(e, f) /\ plan.born[e] < plan.born[f] /\ Begun(f) /\ ~Begun(e)
           => runs'[e] = runs[e]]_vars
  BY <1>1
<1> QED BY <1>2, AlwaysBacked, PTL DEF Spec, NoStepBack

-----------------------------------------------------------------------------
(* Types.  What the invariants above leave open: phases and times, where    *)
(* workers are, the cached runs and the queue.                              *)

StatusType(s) == s.phase \in Phases /\ s.time \in Nat /\ s.leader \in Events \cup {None}
PlaceType(r) ==
  r.pc \in {"idle", "stage", "unlock", "run", "save"} /\ StatusType(r.copy) /\ r.stage \in Nat

TypeInv ==
  /\ \A e \in Events : StatusType(api[e]) /\ StatusType(cache[e])
  /\ \A w \in Workers : PlaceType(worker[w])
  /\ seen \in [Events -> [Pipelines -> Seq(RunStates)]]
  /\ queue \subseteq Events

LEMMA NewTyped == StatusType(NewStatus) /\ PlaceType(Idle)
BY DEF StatusType, NewStatus, PlaceType, Idle, Phases

LEMMA PhaseTyped ==
  ASSUME NEW s, Good(s), StatusType(s), NEW phase \in Phases
  PROVE  StatusType([s EXCEPT !.phase = phase]) /\ Good([s EXCEPT !.phase = phase])
BY PhaseGood DEF Good, StatusType

LEMMA LeaderTyped ==
  ASSUME NEW s, Good(s), StatusType(s), NEW l \in Events \cup {None}
  PROVE  StatusType([s EXCEPT !.leader = l])
BY DEF Good, StatusType

LEMMA EntryTyped ==
  ASSUME NEW s, Good(s), StatusType(s), NEW p
  PROVE  /\ \A status : StatusType(SetEntry(s, p, status))
         /\ \A entry : StatusType([s EXCEPT !.entry[p] = entry])
BY DEF Good, StatusType, SetEntry

(* A pending event's time is one of finitely many, or its own.              *)
LEMMA ProbeTimeType ==
  ASSUME StatusInv, TypeInv, NEW e \in Events, NEW s, StatusType(s)
  PROVE  ProbeTime(e, s) \in Nat
<1> DEFINE own == IF plan.time[e] # 0 THEN plan.time[e] ELSE IF s.time # 0 THEN s.time ELSE Now
           before == {f \in known : RunsAfter(e, plan.label[f])}
           from == {x \in before \X plan.after[e] : x[2].name = plan.label[x[1]]}
           when == [x \in from |-> TimeWithOffset(cache[x[1]].time, x[2].offset, plan.cal)]
           times == {own} \cup {when[x] : x \in from}
<1>1. IsPlan(plan) /\ IsFiniteSet(Events)
  BY EventAssumption DEF EventAssumption, StatusInv
<1>2. own \in Nat
  BY <1>1 DEF IsPlan, StatusType, Now
<1>3. IsCalendar(plan.cal) /\ IsFiniteSet(plan.after[e]) /\ plan.after[e] \subseteq Afters
  BY <1>1 DEF IsPlan, IsCalendar
<1>4. IsFiniteSet(from)
  <2>1. IsFiniteSet(before)
    BY <1>1, FS_Subset DEF StatusInv
  <2>2. IsFiniteSet(before \X plan.after[e])
    BY <1>3, <2>1, FS_Product
  <2> QED BY <2>2, FS_Subset
<1>5. ASSUME NEW x \in from PROVE when[x] \in Int
  <2>1. x[1] \in Events /\ x[2] \in Afters
    BY <1>3 DEF StatusInv
  <2>2. cache[x[1]].time \in Int
    BY <2>1 DEF TypeInv, StatusType
  <2>3. x[2].offset.hours \in Int /\ x[2].offset.at \in 0 .. 24
    BY <2>1 DEF Afters
  <2>4. TimeWithOffset(cache[x[1]].time, x[2].offset, plan.cal) \in Int
    BY <1>3, <2>2, <2>3, OffsetType
  <2> QED BY <2>4
<1>6. Greatest(times) \in Nat
  <2> HIDE DEF own, from, when
  <2>1. IsFiniteSet({when[x] : x \in from})
    BY <1>4, FiniteImage
  <2>2. IsFiniteSet(times) /\ own \in times /\ times \in SUBSET Int
    <3>1. times = {when[x] : x \in from} \cup {own}
      OBVIOUS
    <3>2. IsFiniteSet({when[x] : x \in from} \cup {own})
      BY <2>1, FS_AddElement
    <3> QED BY <1>2, <1>5, <3>1, <3>2
  <2> QED BY <1>2, <2>2, GreatestInNat
<1>7. {when[x] : x \in from} = {TimeWithOffset(cache[x[1]].time, x[2].offset, plan.cal) : x \in from}
  <2> HIDE DEF from
  <2> QED OBVIOUS
<1>8. times = {own} \cup {TimeWithOffset(cache[x[1]].time, x[2].offset, plan.cal) : x \in from}
  BY <1>7
<1>9. s.time \in Nat
  BY DEF StatusType
<1> HIDE DEF own, when, times
<1> QED BY <1>2, <1>6, <1>8, <1>9 DEF ProbeTime, own, times

LEMMA ProbeTyped ==
  ASSUME StatusInv, TypeInv, NEW e \in Events, NEW s, StatusType(s)
  PROVE  StatusType(Probe(e, s))
<1>1. ProbeTime(e, s) \in Nat
  BY ProbeTimeType
<1>2. ProbePhase(e, s) \in Phases
  BY DEF ProbePhase, StatusType, Phases, Terminal
<1> QED BY <1>1, <1>2 DEF Probe, StatusType

(* What a step of a worker on an event leaves behind.                       *)
TypedStep(w) ==
  /\ queue' \subseteq Events
  /\ \E r : PlaceType(r) /\ worker' = [worker EXCEPT ![w] = r]
  /\ \/ UNCHANGED api
     \/ \E s : StatusType(s) /\ api' = [api EXCEPT ![Event(w)] = s]

(* A worker at work on an event, and a status it may write.                 *)
Works(w, s) ==
  /\ Event(w) \in Events /\ Good(s) /\ StatusType(s) /\ queue \subseteq Events
  /\ worker[w].stage \in Nat

LEMMA WorkerWorks ==
  ASSUME StatusInv, TypeInv, NEW w \in Workers, worker[w].pc # "idle"
  PROVE  Works(w, worker[w].copy)
<1>1. Slot(worker[w]) /\ PlaceType(worker[w])
  BY DEF StatusInv, TypeInv
<1> QED BY <1>1 DEF Works, Slot, PlaceType, Event, TypeInv

LEMMA LeaveTyped ==
  ASSUME NEW w \in Workers, NEW s, Works(w, s), Leave(w) \/ Fail(w)
  PROVE  TypedStep(w)
<1>1. queue' \subseteq Events /\ UNCHANGED api /\ worker' = [worker EXCEPT ![w] = Idle]
  BY DEF Leave, Fail, Works, Event
<1> QED BY <1>1, NewTyped DEF TypedStep

LEMMA GoesTyped ==
  ASSUME NEW w \in Workers, NEW s, Works(w, s), StatusInv,
         NEW pc \in {"stage", "unlock", "run", "save"}, NEW t, StatusType(t), NEW stage \in Nat,
         Goes(w, pc, t, stage)
  PROVE  TypedStep(w)
<1> DEFINE r == [pc |-> pc, event |-> worker[w].event, copy |-> t, current |-> worker[w].current,
                 stage |-> stage]
<1>1. worker' = [worker EXCEPT ![w] = r] /\ UNCHANGED <<api, queue>>
  BY DEF Goes, StatusInv
<1>2. PlaceType(r)
  BY DEF PlaceType
<1> HIDE DEF r
<1> QED BY <1>1, <1>2 DEF TypedStep, Works

LEMMA StoreTyped ==
  ASSUME NEW w \in Workers, NEW s, Works(w, s), NEW t, StatusType(t), Store(w, t) \/ StoreOrLeave(w, t)
  PROVE  TypedStep(w)
<1>1. CASE Leave(w)
  BY <1>1, LeaveTyped
<1>2. CASE Store(w, t)
  <2>1. worker' = [worker EXCEPT ![w] = Idle] /\ queue' \subseteq Events
        /\ (UNCHANGED api \/ api' = [api EXCEPT ![Event(w)] = t])
    BY <1>2 DEF Store, Write, Works, Event
  <2> QED BY <2>1, NewTyped DEF TypedStep
<1> QED BY <1>1, <1>2 DEF StoreOrLeave

LEMMA MakeRunTyped ==
  ASSUME NEW w \in Workers, NEW s, Works(w, s), NEW p, MakeRun(w, s, p) \/ CancelRun(w, s, p)
  PROVE  TypedStep(w)
<1>1. StatusType(s)
  BY DEF Works
<1> QED BY <1>1, StoreTyped, LeaveTyped DEF MakeRun, CancelRun

LEMMA RollBackTyped ==
  ASSUME NEW w \in Workers, NEW s, Works(w, s), NEW p, RollBack(w, s, p)
  PROVE  TypedStep(w)
<1>1. /\ StatusType(s) /\ \A status : StatusType(SetEntry(s, p, status))
      /\ \A entry : StatusType([s EXCEPT !.entry[p] = entry])
  BY EntryTyped DEF Works
<1>2. \/ \E t : StatusType(t) /\ (Store(w, t) \/ StoreOrLeave(w, t))
      \/ MakeRun(w, s, p) \/ CancelRun(w, s, p)
  BY <1>1 DEF RollBack
<1> QED BY <1>2, StoreTyped, MakeRunTyped

LEMMA StageRunTyped ==
  ASSUME StatusInv, TypeInv, NEW w \in Workers, worker[w].pc # "idle", StageRun(w)
  PROVE  TypedStep(w)
<1> DEFINE s == worker[w].copy
           i == worker[w].stage
           p == Stage(i).name
           run == Look(worker[w].event, p, s.entry[p].id)
<1>1. Works(w, s) /\ StatusType(s) /\ Good(s) /\ i \in Nat
  BY WorkerWorks DEF Works
<1>2. \A status : StatusType(SetEntry(s, p, status)) /\ Good(s)
  BY <1>1, EntryTyped
<1>3. \A entry : StatusType([s EXCEPT !.entry[p] = entry])
  BY <1>1, EntryTyped
<1>4. CASE Leave(w)
  BY <1>1, <1>4, LeaveTyped
<1>5. CASE Pass(w)
  <2>1. Goes(w, "stage", s, i + 1) /\ i + 1 \in Nat
    BY <1>1, <1>5 DEF Pass
  <2> HIDE DEF s, i
  <2> QED BY <1>1, <2>1, GoesTyped
<1>6. CASE RunInit(w, s, p)
  <2>1. \E t : StatusType(t) /\ Store(w, t)
    BY <1>3, <1>6 DEF RunInit
  <2> QED BY <1>1, <2>1, StoreTyped
<1>7. CASE RunAbsent(w, s, i, p)
  <2>1. \/ Leave(w) \/ RollBack(w, s, Stage(i).rollback) \/ MakeRun(w, s, p)
        \/ \E t : StatusType(t) /\ StoreOrLeave(w, t)
    BY <1>1, <1>2, <1>7 DEF RunAbsent
  <2> HIDE DEF s, i, p
  <2> QED BY <1>1, <1>4, <2>1, StoreTyped, MakeRunTyped, RollBackTyped
<1>8. CASE RunCompleted(w, s, p)
  <2> DEFINE t == SetEntry(s, p, "Completed")
  <2>1. StatusType(t) /\ Good(t)
    <3>1. "Completed" \in Named /\ (p \in Pipelines => s.entry[p].status # "none")
      BY <1>8 DEF Named, Statuses, RunCompleted
    <3> HIDE DEF s, p
    <3> QED BY <1>1, <1>2, <3>1, EntryGood
  <2>2. Store(w, [t EXCEPT !.phase = "Running"])
    BY <1>8 DEF RunCompleted
  <2>3. StatusType([t EXCEPT !.phase = "Running"])
    <3> HIDE DEF t
    <3> QED BY <2>1, PhaseTyped DEF Phases
  <2> QED BY <1>1, <2>2, <2>3, StoreTyped
<1>9. CASE RunStopped(w, s, i, p)
  <2> DEFINE t == [s EXCEPT !.phase = run]
  <2>1. run \in Phases
    BY <1>9 DEF RunStopped, Phases, Terminal
  <2>2. StatusType(t) /\ Good(t)
    <3> HIDE DEF run, s
    <3> QED BY <1>1, <2>1, PhaseTyped
  <2>3. Works(w, t)
    BY <1>1, <2>2 DEF Works
  <2>4. \A status : StatusType(SetEntry(t, p, status))
    <3> HIDE DEF t, p
    <3> QED BY <2>2, EntryTyped
  <2>5. RollBack(w, t, Stage(i).rollback) \/ \E status : StoreOrLeave(w, SetEntry(t, p, status))
    BY <1>9 DEF RunStopped
  <2> HIDE DEF t, p, i
  <2> QED BY <2>3, <2>4, <2>5, StoreTyped, RollBackTyped
<1>10. CASE RunRunning(w, s, p)
  <2> DEFINE t == [s EXCEPT !.phase = "Running"]
  <2>1. StatusType(t) /\ Good(t)
    <3> HIDE DEF s
    <3> QED BY <1>1, PhaseTyped DEF Phases
  <2>2. Works(w, t)
    BY <1>1, <2>1 DEF Works
  <2>3. CancelRun(w, t, p) \/ StoreOrLeave(w, SetEntry(t, p, "Running"))
    BY <1>10 DEF RunRunning
  <2> HIDE DEF t, p
  <2>4. StatusType(SetEntry(t, p, "Running"))
    BY <2>1, EntryTyped
  <2> QED BY <2>2, <2>3, <2>4, StoreTyped, MakeRunTyped
<1> QED BY <1>4, <1>5, <1>6, <1>7, <1>8, <1>9, <1>10 DEF StageRun, RunPassed

LEMMA DoStageTyped ==
  ASSUME StatusInv, TurnInv, TypeInv, NEW w \in Workers, DoStage(w)
  PROVE  TypedStep(w)
<1> DEFINE s == worker[w].copy
           e == worker[w].event
           g == plan.group[e]
<1>1. worker[w].pc # "idle"
  BY DEF DoStage
<1>2. Works(w, s) /\ StatusType(s) /\ Good(s) /\ worker[w].stage \in Nat /\ e \in Events
  BY <1>1, WorkerWorks DEF Works, Event
<1>3. g \in Groups \cup {None} /\ leader \in [Groups -> Events \cup {None}]
  BY <1>2, PlanTypes DEF TurnInv, LeaseInv
<1>4. ASSUME NEW l \in Events \cup {None} PROVE StatusType([s EXCEPT !.leader = l])
  <2> HIDE DEF s
  <2> QED BY <1>2, LeaderTyped
<1>5. ASSUME NEW l \in Events \cup {None}, Propose(w, [s EXCEPT !.leader = l]) PROVE TypedStep(w)
  <2>1. Goes(w, "save", [s EXCEPT !.leader = l], worker[w].stage)
    BY <1>5 DEF Propose
  <2>2. StatusType([s EXCEPT !.leader = l])
    BY <1>4
  <2> QED BY <1>2, <2>1, <2>2, GoesTyped
<1>6. CASE Leave(w) \/ Fail(w)
  BY <1>2, <1>6, LeaveTyped
<1>7. CASE StageJoin(w)
  <2>1. leader[g] \in Events \cup {None}
    BY <1>3, <1>7 DEF StageJoin, Joins
  <2> QED BY <1>5, <1>7, <2>1 DEF StageJoin
<1>8. CASE StageElect(w)
  <2>1. CASE g = None
    <3>1. Store(w, [s EXCEPT !.leader = e])
      BY <1>8, <2>1 DEF StageElect
    <3>2. StatusType([s EXCEPT !.leader = e])
      BY <1>2, <1>4
    <3> QED BY <1>2, <3>1, <3>2, StoreTyped
  <2>2. CASE g # None
    <3>1. leader[g] \in Events \cup {None}
      BY <1>3, <2>2
    <3>2. Propose(w, [s EXCEPT !.leader = e]) \/ Propose(w, [s EXCEPT !.leader = leader[g]])
      BY <1>8, <2>2 DEF StageElect
    <3> QED BY <1>2, <1>5, <3>1, <3>2
  <2> QED BY <2>1, <2>2
<1>9. CASE StageFollow(w)
  <2>1. CASE Pass(w)
    <3>1. Goes(w, "stage", s, worker[w].stage + 1) /\ worker[w].stage + 1 \in Nat
      BY <1>2, <2>1 DEF Pass
    <3> QED BY <1>2, <3>1, GoesTyped
  <2> QED BY <1>6, <1>9, <2>1 DEF StageFollow
<1>10. CASE StageLock(w)
  <2>1. CASE Move(w, "unlock")
    <3>1. Goes(w, "unlock", s, worker[w].stage)
      BY <2>1 DEF Move
    <3> QED BY <1>2, <3>1, GoesTyped
  <2> QED BY <1>6, <1>10, <2>1 DEF StageLock
<1>11. CASE StageRun(w)
  BY <1>1, <1>11, StageRunTyped
<1> QED BY <1>6, <1>7, <1>8, <1>9, <1>10, <1>11 DEF DoStage, StageWait

LEMMA OtherWorkTyped ==
  ASSUME StatusInv, TypeInv, NEW w \in Workers, Unlock(w) \/ Finish(w) \/ Save(w)
  PROVE  TypedStep(w)
<1> DEFINE s == worker[w].copy
<1>1. worker[w].pc # "idle"
  BY DEF Unlock, Finish, Save
<1>2. Works(w, s) /\ StatusType(s) /\ Good(s) /\ worker[w].stage \in Nat
  BY <1>1, WorkerWorks DEF Works
<1>3. CASE Unlock(w)
  <2>1. Goes(w, "run", s, worker[w].stage) \/ Fail(w)
    BY <1>3 DEF Unlock, Move
  <2> QED BY <1>2, <2>1, GoesTyped, LeaveTyped
<1>4. CASE Finish(w)
  <2>1. Store(w, [s EXCEPT !.phase = "Completed"])
    BY <1>4 DEF Finish
  <2>2. StatusType([s EXCEPT !.phase = "Completed"])
    <3> HIDE DEF s
    <3> QED BY <1>2, PhaseTyped DEF Phases, Terminal
  <2> QED BY <1>2, <2>1, <2>2, StoreTyped
<1>5. CASE Save(w)
  BY <1>2, <1>5, StoreTyped DEF Save
<1> QED BY <1>3, <1>4, <1>5

LEMMA WorkTypedKeeps ==
  ASSUME StatusInv, TypeInv, NEW w \in Workers, TypedStep(w), UNCHANGED <<cache, seen>>
  PROVE  TypeInv'
<1>1. PICK r : PlaceType(r) /\ worker' = [worker EXCEPT ![w] = r]
  BY DEF TypedStep
<1>2. \A v \in Workers : PlaceType(worker'[v])
  BY <1>1 DEF StatusInv, TypeInv
<1>3. \A e \in Events : StatusType(api'[e])
  BY DEF TypedStep, StatusInv, TypeInv
<1> QED BY <1>2, <1>3 DEF TypeInv, TypedStep, StatusType, PlaceType

LEMMA TakeTyped ==
  ASSUME StatusInv, TypeInv, NEW w \in Workers, NEW e \in Events, Take(w, e)
  PROVE  TypeInv'
<1>1. UNCHANGED <<cache, seen>> /\ queue' = queue \ {e}
  BY DEF Take, Refuse, AcquireKept, AcquireTaken, AcquireWaits, AcquireTooOld, Begin
<1>2. UNCHANGED api \/ api' = [api EXCEPT ![e] = Probe(e, cache[e])]
  BY DEF Take
<1>3. StatusType(Probe(e, cache[e]))
  BY ProbeTyped DEF TypeInv
<1>4. \A f \in Events : StatusType(api'[f])
  BY <1>2, <1>3 DEF StatusInv, TypeInv
<1>5. \A v \in Workers : PlaceType(worker'[v])
  <2>1. CASE UNCHANGED worker
    BY <2>1 DEF TypeInv
  <2>2. CASE Begin(w, e)
    <3> DEFINE r == [pc |-> "stage", event |-> e, copy |-> cache[e], current |-> e \in fresh, stage |-> 1]
    <3>1. worker' = [worker EXCEPT ![w] = r]
      BY <2>2 DEF Begin
    <3>2. PlaceType(r)
      BY DEF PlaceType, TypeInv
    <3> HIDE DEF r
    <3> QED BY <3>1, <3>2 DEF StatusInv, TypeInv
  <2> QED BY <2>1, <2>2 DEF Take, Refuse, AcquireKept, AcquireTaken, AcquireWaits, AcquireTooOld
<1> QED BY <1>1, <1>4, <1>5 DEF TypeInv, StatusType, PlaceType

LEMMA WatchTyped ==
  ASSUME StatusInv, RunInv, TypeInv, NEW e \in Events,
         ObserveEvent(e) \/ ObserveDeletion(e) \/ \E p \in Pipelines : ObserveRun(e, p)
  PROVE  TypeInv'
<1>1. UNCHANGED <<api, worker>>
  BY DEF ObserveEvent, ObserveDeletion, ObserveRun, resources
<1>2. CASE ObserveEvent(e)
  <2>1. cache' = [cache EXCEPT ![e] = api[e]] /\ UNCHANGED seen
    BY <1>2 DEF ObserveEvent
  <2>2. \A f \in Events : StatusType(cache'[f])
    BY <2>1 DEF StatusInv, TypeInv
  <2>3. Concerned(e, api[e], known', cache') \subseteq Events
    <3>1. api[e].leader \in Events \cup {None} /\ known' \subseteq Events
      BY <1>2 DEF TypeInv, StatusType, ObserveEvent, StatusInv
    <3> QED BY <3>1 DEF Concerned
  <2>4. queue' \subseteq Events
    BY <1>2, <2>3 DEF ObserveEvent, TypeInv
  <2> QED BY <1>1, <2>1, <2>2, <2>4 DEF TypeInv, StatusType, PlaceType
<1>3. CASE ObserveDeletion(e)
  <2>1. cache' = [cache EXCEPT ![e] = NewStatus] /\ UNCHANGED <<seen, queue>>
    BY <1>3 DEF ObserveDeletion
  <2>2. \A f \in Events : StatusType(cache'[f])
    BY <2>1, NewTyped DEF StatusInv, TypeInv
  <2> QED BY <1>1, <2>1, <2>2 DEF TypeInv, StatusType, PlaceType
<1>4. ASSUME NEW p \in Pipelines, ObserveRun(e, p) PROVE TypeInv'
  <2>1. seen' = [seen EXCEPT ![e][p] = runs[e][p]] /\ UNCHANGED cache /\ queue' = queue \cup {e}
    BY <1>4 DEF ObserveRun
  <2>2. runs[e][p] \in Seq(RunStates)
    BY DEF RunInv
  <2>3. seen' \in [Events -> [Pipelines -> Seq(RunStates)]]
    <3> DEFINE S == Seq(RunStates)
    <3> HIDE DEF S
    <3>1. runs[e][p] \in S /\ seen \in [Events -> [Pipelines -> S]]
      BY <2>2 DEF S, TypeInv
    <3>2. seen' \in [Events -> [Pipelines -> S]]
      BY <2>1, <3>1
    <3> QED BY <3>2 DEF S
  <2> QED BY <1>1, <2>1, <2>3 DEF TypeInv, StatusType, PlaceType
<1> QED BY <1>2, <1>3, <1>4

LEMMA RebornTyped ==
  ASSUME StatusInv, RunInv, TypeInv, Reborn
  PROVE  TypeInv'
<1>1. /\ UNCHANGED api /\ seen' = runs /\ queue' = live
      /\ cache' = [e \in Events |-> IF e \in live THEN api[e] ELSE NewStatus]
      /\ worker' = [w \in Workers |-> Idle]
  BY DEF Reborn, resources
<1>2. \A e \in Events : StatusType(cache'[e])
  BY <1>1, NewTyped DEF TypeInv
<1>3. \A w \in Workers : PlaceType(worker'[w])
  BY <1>1, NewTyped
<1> QED BY <1>1, <1>2, <1>3 DEF TypeInv, RunInv, StatusInv, StatusType, PlaceType

LEMMA AskTyped ==
  ASSUME StatusInv, TypeInv, NEW e \in Events, NEW i \in Indexes, Ask(e, i)
  PROVE  TypeInv'
<1> DEFINE p == Stage(i).name
<1>1. /\ UNCHANGED <<cache, seen, queue>>
      /\ worker' = [w \in Workers |-> IF worker[w].event = e
                                       THEN [worker[w] EXCEPT !.current = FALSE] ELSE worker[w]]
  BY DEF Ask, Supersede
<1>2. PICK status : api' = [api EXCEPT ![e] = SetEntry(api[e], p, status)]
  BY DEF Ask
<1>3. StatusType(SetEntry(api[e], p, status))
  BY EntryTyped DEF StatusInv, TypeInv
<1>4. \A f \in Events : StatusType(api'[f])
  BY <1>2, <1>3 DEF StatusInv, TypeInv
<1>5. ASSUME NEW w \in Workers PROVE PlaceType(worker'[w])
  <2>1. Slot(worker[w]) /\ PlaceType(worker[w])
    BY DEF StatusInv, TypeInv
  <2>2. PlaceType([worker[w] EXCEPT !.current = FALSE])
    BY <2>1 DEF Slot, PlaceType
  <2> QED BY <1>1, <2>1, <2>2
<1> QED BY <1>1, <1>4, <1>5 DEF TypeInv, StatusType, PlaceType

LEMMA TypeStepKeeps ==
  StatusInv /\ RunInv /\ TurnInv /\ TypeInv /\ [Next]_vars => TypeInv'
<1> SUFFICES ASSUME StatusInv, RunInv, TurnInv, TypeInv, [Next]_vars PROVE TypeInv'
  OBVIOUS
<1>1. ASSUME NEW w \in Workers, DoStage(w) PROVE TypeInv'
  <2>1. UNCHANGED <<cache, seen>>
    BY <1>1 DEF DoStage
  <2> QED BY <1>1, <2>1, DoStageTyped, WorkTypedKeeps
<1>2. ASSUME NEW w \in Workers, Unlock(w) \/ Finish(w) \/ Save(w) PROVE TypeInv'
  <2>1. UNCHANGED <<cache, seen>>
    BY <1>2 DEF Unlock, Finish, Save
  <2> QED BY <1>2, <2>1, OtherWorkTyped, WorkTypedKeeps
<1>3. ASSUME NEW w \in Workers, NEW e \in Events, Take(w, e) PROVE TypeInv'
  BY <1>3, TakeTyped
<1>4. CASE Crash \/ \E w \in Workers : Panic(w)
  <2>1. Reborn
    BY <1>4 DEF Crash, Panic
  <2> QED BY <2>1, RebornTyped
<1>5. ASSUME NEW e \in Events,
             ObserveEvent(e) \/ ObserveDeletion(e) \/ \E p \in Pipelines : ObserveRun(e, p)
      PROVE  TypeInv'
  BY <1>5, WatchTyped
<1>6. ASSUME NEW e \in Events, NEW i \in Indexes, Ask(e, i) PROVE TypeInv'
  BY <1>6, AskTyped
<1>7. CASE \/ Collect \/ UNCHANGED vars
           \/ \E e \in Events : Create(e) \/ Delete(e) \/ \E p \in Pipelines : EndRun(e, p)
  <2>1. UNCHANGED <<api, caches, queue, worker>>
    BY <1>7 DEF Collect, Create, Delete, EndRun, vars, resources
  <2> QED BY <2>1 DEF TypeInv, caches, StatusType, PlaceType
<1> QED BY <1>1, <1>2, <1>3, <1>4, <1>5, <1>6, <1>7 DEF Next, Work

LEMMA TypeStarts == Init => TypeInv
<1> SUFFICES ASSUME Init PROVE TypeInv
  OBVIOUS
<1>1. \A e \in Events : api[e] = NewStatus /\ cache[e] = NewStatus
  BY DEF Init
<1>2. \A w \in Workers : worker[w] = Idle
  BY DEF Init
<1>3. seen \in [Events -> [Pipelines -> Seq(RunStates)]] /\ queue = {}
  BY DEF Init
<1> QED BY <1>1, <1>2, <1>3, NewTyped DEF TypeInv

LEMMA StatusIs ==
  ASSUME NEW s, Good(s), StatusType(s)
  PROVE  s \in EventStatuses
<1>1. s.entry \in [Pipelines -> Entries]
  <2>1. OneEntries \subseteq Entries
    BY DEF OneEntries, Entries, NoEntry, Named, Statuses
  <2> QED BY <2>1 DEF Good
<1> QED BY <1>1 DEF Good, StatusType, EventStatuses

(* Every variable keeps its type: above all a status the controller writes  *)
(* has a phase, a leader and entries of the API, and a time that is one,    *)
(* whatever offsets and calendars it was led through (probeTime).           *)
THEOREM AlwaysTypeOK == Spec => []TypeOK
<1>1. StatusInv /\ RunInv /\ TurnInv /\ TypeInv => TypeOK
  <2> SUFFICES ASSUME StatusInv, RunInv, TurnInv, TypeInv PROVE TypeOK
    OBVIOUS
  <2>1. api \in [Events -> EventStatuses] /\ cache \in [Events -> EventStatuses]
    <3>1. \A e \in Events : api[e] \in EventStatuses /\ cache[e] \in EventStatuses
      BY StatusIs DEF StatusInv, TypeInv
    <3> QED BY <3>1 DEF StatusInv
  <2>2. worker \in [Workers -> [pc : {"idle", "stage", "unlock", "run", "save"},
                                event : Events \cup {None}, copy : EventStatuses,
                                current : BOOLEAN, stage : Nat]]
    <3>1. ASSUME NEW w \in Workers
          PROVE  worker[w] \in [pc : {"idle", "stage", "unlock", "run", "save"},
                                event : Events \cup {None}, copy : EventStatuses,
                                current : BOOLEAN, stage : Nat]
      <4>1. Slot(worker[w]) /\ PlaceType(worker[w])
        BY DEF StatusInv, TypeInv
      <4>2. worker[w].copy \in EventStatuses
        BY <4>1, StatusIs DEF Slot, PlaceType
      <4> QED BY <4>1, <4>2 DEF Slot, PlaceType
    <3> QED BY <3>1 DEF StatusInv
  <2> QED BY <2>1, <2>2 DEF TypeOK, StatusInv, RunInv, TurnInv, LeaseInv, TypeInv
<1>2. Spec => []TypeInv
  BY AlwaysBacked, TypeStarts, TypeStepKeeps, PTL DEF Spec
<1> QED BY <1>1, <1>2, AlwaysBacked, PTL

-----------------------------------------------------------------------------
(* Each step to NameTurns.                                                  *)

(* A step makes a run, names a leader or deletes for one event only; and    *)
(* makes one run, at work, without a lease changing hands.                  *)
Rests(e) == runs'[e] = runs[e] /\ api'[e].leader = api[e].leader /\ (e \in gone' => e \in gone)
StartsOne(e) ==
  \A p \in Pipelines : RunOf(e, p) = "none" /\ RunOf(e, p)' # "none" =>
    /\ RunOf(e, p)' = "Running" /\ UNCHANGED holder
    /\ \A q \in Pipelines : q # p => RunOf(e, q)' = RunOf(e, q)
Alone(e) == StartsOne(e) /\ \A f \in Events : f # e => Rests(f)
NoneMoves == \A f \in Events : Rests(f)
MovesOn == Onward /\ (NoneMoves \/ \E e \in Events : Alone(e))

LEMMA NoRunStarts ==
  ASSUME NEW e \in Events, runs'[e] = runs[e]
  PROVE  StartsOne(e)
BY DEF StartsOne, RunOf

LEMMA NoStepMoves ==
  ASSUME StatusInv, TurnInv, UNCHANGED <<plan, gone, api, holder, runs>>, left'.deletes = left.deletes
  PROVE  MovesOn
<1>1. LeaseInv /\ RunsGoOn /\ gone \subseteq gone'
  BY DEF TurnInv, RunsGoOn, RunOf
<1>2. Onward
  BY <1>1, OnwardIf
<1> QED BY <1>2 DEF MovesOn, NoneMoves, Rests

LEMMA WorkMovesOn ==
  ASSUME StatusInv, RunInv, TurnInv, NEW w \in Workers, worker[w].pc # "idle",
         TurnStep(w), RunTurn(w), UNCHANGED <<plan, gone, holder, left>>
  PROVE  MovesOn
<1>1. LeaseInv /\ Event(w) \in Events
  BY WorkerFacts DEF TurnInv
<1>2. RunsGoOn
  BY <1>1, RunTurnGoesOn
<1>0. PICK e \in Events : e = Event(w)
  BY <1>1
<1>3. /\ \A f \in Events : f # e => api'[f] = api[f]
      /\ api[e].leader # None => api'[e].leader = api[e].leader
  <2>1. CASE Sitting(w)
    BY <2>1 DEF Sitting
  <2>2. CASE Writing(w)
    <3>1. PICK s : api' = [api EXCEPT ![e] = s] /\ (api[e].leader # None => s.leader = api[e].leader)
      BY <1>0, <2>2 DEF Writing
    <3> QED BY <3>1 DEF StatusInv
  <2> QED BY <2>1, <2>2 DEF TurnStep
<1>4. ASSUME NEW f \in Events, api[f].leader # None PROVE api'[f].leader = api[f].leader
  <2>1. CASE f = e
    BY <1>3, <1>4, <2>1
  <2>2. CASE f # e
    BY <1>3, <2>2
  <2> QED BY <2>1, <2>2
<1>5. Onward
  <2>1. gone \subseteq gone' /\ left'.deletes = left.deletes
    OBVIOUS
  <2> QED BY <1>1, <1>2, <1>4, <2>1, OnwardIf
<1>6. (\A f \in Events : f # e => runs'[f] = runs[f]) /\ StartsOne(e)
  <2>1. CASE UNCHANGED runs
    BY <2>1, NoRunStarts
  <2>2. ASSUME NEW p \in Pipelines, NEW x \in {"Running", "Cancelling"},
               runs' = [runs EXCEPT ![e][p] = <<x>>], x = "Cancelling" => RunOf(e, p) # "none"
        PROVE  (\A f \in Events : f # e => runs'[f] = runs[f]) /\ StartsOne(e)
    <3>1. /\ runs'[e][p] = <<x>> /\ \A q \in Pipelines : q # p => runs'[e][q] = runs[e][q]
          /\ \A f \in Events : f # e => runs'[f] = runs[f]
      BY <2>2 DEF RunInv
    <3>2. RunOf(e, p)' = x /\ \A q \in Pipelines : q # p => RunOf(e, q)' = RunOf(e, q)
      <4>1. <<x>> # <<>> /\ <<x>>[1] = x
        OBVIOUS
      <4> QED BY <3>1, <4>1 DEF RunOf
    <3> QED BY <2>2, <3>1, <3>2 DEF StartsOne
  <2>3. CASE MakesOwn(w)
    BY <1>0, <2>2, <2>3 DEF MakesOwn
  <2>4. CASE StopsOwn(w)
    <3>1. PICK p \in Pipelines : RunOf(e, p) = "Running" /\ runs' = [runs EXCEPT ![e][p] = <<"Cancelling">>]
      BY <1>0, <2>4 DEF StopsOwn
    <3> QED BY <2>2, <3>1
  <2> QED BY <2>1, <2>3, <2>4 DEF RunTurn
<1>7. Alone(e)
  BY <1>3, <1>6 DEF Alone, Rests
<1> QED BY <1>5, <1>7 DEF MovesOn

LEMMA TakeMovesOn ==
  ASSUME StatusInv, RunInv, TurnInv, NEW w \in Workers, NEW e \in Events, Take(w, e)
  PROVE  MovesOn
<1>1. UNCHANGED <<plan, leader, runs, known, cache, seen, left>> /\ LeaseInv /\ RunsGoOn
  BY DEF Take, TurnInv, RunsGoOn, RunOf
<1>2. \A f \in Events : api'[f].leader = api[f].leader
  <2>1. CASE UNCHANGED api
    BY <2>1
  <2>2. CASE api' = [api EXCEPT ![e] = Probe(e, cache[e])] /\ e \in fresh
    <3>1. Probe(e, cache[e]).leader = api[e].leader
      BY <2>2, ProbeFits DEF StatusInv
    <3> QED BY <2>2, <3>1 DEF StatusInv
  <2> QED BY <2>1, <2>2 DEF Take
<1>3. \/ UNCHANGED holder /\ UNCHANGED gone
      \/ (AcquireTaken(w, e) \/ AcquireTooOld(e)) /\ UNCHANGED api
  <2>1. \/ UNCHANGED holder /\ UNCHANGED gone
        \/ /\ AcquireKept(w, e) \/ AcquireTaken(w, e) \/ AcquireWaits(e) \/ AcquireTooOld(e)
           /\ UNCHANGED api
    BY DEF Take
  <2>2. AcquireKept(w, e) \/ AcquireWaits(e) => UNCHANGED <<holder, live, gone>>
    BY Zenon DEF AcquireKept, AcquireWaits
  <2> QED BY <2>1, <2>2
<1>4. Onward /\ gone' \subseteq gone \cup {e}
  <2>1. CASE UNCHANGED holder /\ gone \subseteq gone' /\ gone' \subseteq gone \cup {e}
    <3>1. UNCHANGED <<plan, holder>> /\ left'.deletes = left.deletes
      BY <1>1, <2>1
    <3> QED BY <1>1, <1>2, <2>1, <3>1, OnwardIf
  <2>2. CASE AcquireTaken(w, e) /\ UNCHANGED api
    <3>1. UNCHANGED gone
      BY <2>2 DEF AcquireTaken
    <3> QED BY <1>1, <2>2, <3>1, TakenGoesOn
  <2>3. CASE AcquireTooOld(e)
    BY <2>1, <2>3 DEF AcquireTooOld
  <2> QED BY <1>3, <2>1, <2>2, <2>3
<1>5. Alone(e)
  BY <1>1, <1>2, <1>4, NoRunStarts DEF Alone, Rests
<1> QED BY <1>4, <1>5 DEF MovesOn

LEMMA EndRunMovesOn ==
  ASSUME StatusInv, RunInv, TurnInv, NEW e \in Events, NEW p \in Pipelines, EndRun(e, p)
  PROVE  MovesOn
<1>1. UNCHANGED <<plan, gone, api, holder, left>> /\ LeaseInv /\ RunsGoOn
  BY EndRunGoesOn DEF EndRun, TurnInv
<1>2. Onward
  BY <1>1, OnwardIf
<1>3. PICK id \in DOMAIN runs[e][p], end \in {"Completed", "Failed", "Cancelled"} :
        runs' = [runs EXCEPT ![e][p][id] = end]
  BY DEF EndRun
<1>4. /\ \A f \in Events : f # e => runs'[f] = runs[f]
      /\ \A q \in Pipelines : q # p => runs'[e][q] = runs[e][q]
  BY <1>3 DEF RunInv
<1>5. RunOf(e, p) # "none"
  <2>1. runs[e][p] # <<>>
    BY <1>3
  <2> QED BY <2>1, RunCases
<1>6. StartsOne(e)
  BY <1>4, <1>5 DEF StartsOne, RunOf
<1>7. Alone(e)
  BY <1>1, <1>4, <1>6 DEF Alone, Rests
<1> QED BY <1>2, <1>7 DEF MovesOn

LEMMA NextMovesOn ==
  ASSUME StatusInv, RunInv, TurnInv, [Next]_vars
  PROVE  MovesOn
<1>1. LeaseInv /\ left \in [crashes : Nat, asks : Nat, deletes : Nat] /\ (UNCHANGED runs => RunsGoOn)
  BY DEF TurnInv, LeaseInv, RunsGoOn, RunOf
<1>2. ASSUME NEW w \in Workers, DoStage(w) \/ Unlock(w) \/ Finish(w) \/ Save(w) PROVE MovesOn
  <2>1. TurnStep(w) /\ RunTurn(w) /\ worker[w].pc # "idle"
    BY <1>2, DoStageTurns, UnlockTurns, EndTurns DEF DoStage, Unlock, Finish, Save, RunTurn
  <2>2. UNCHANGED <<plan, gone, holder, left>>
    BY <1>2 DEF DoStage, Unlock, Finish, Save
  <2> QED BY <2>1, <2>2, WorkMovesOn
<1>3. ASSUME NEW w \in Workers, NEW e \in Events, Take(w, e) PROVE MovesOn
  BY <1>3, TakeMovesOn
<1>4. ASSUME NEW e \in Events, NEW p \in Pipelines, EndRun(e, p) PROVE MovesOn
  BY <1>4, EndRunMovesOn
<1>5. ASSUME NEW e \in Events, NEW i \in Indexes, Ask(e, i) PROVE MovesOn
  <2>1. UNCHANGED <<plan, gone, holder, runs>> /\ left'.deletes = left.deletes /\ gone \subseteq gone'
    BY <1>1, <1>5 DEF Ask
  <2>2. PICK status : api' = [api EXCEPT ![e] = SetEntry(api[e], Stage(i).name, status)]
    BY <1>5 DEF Ask
  <2>3. Good(api[e])
    BY DEF StatusInv
  <2>4. \A f \in Events : api'[f].leader = api[f].leader
    BY <2>2, <2>3 DEF StatusInv, SetEntry, Good
  <2>5. Onward
    BY <1>1, <2>1, <2>4, OnwardIf
  <2> QED BY <2>1, <2>4, <2>5 DEF MovesOn, NoneMoves, Rests
<1>6. CASE Collect
  <2>1. Onward /\ UNCHANGED <<gone, api, runs>>
    BY <1>6, CollectGoesOn DEF Collect
  <2> QED BY <2>1 DEF MovesOn, NoneMoves, Rests
<1>7. ASSUME NEW e \in Events, Delete(e) PROVE MovesOn
  <2>1. UNCHANGED <<plan, api, holder, runs>> /\ gone' = gone \cup {e} /\ gone \subseteq gone'
    BY <1>7 DEF Delete
  <2>2. ~NoDeletes'
    <3>1. left'.deletes = left.deletes - 1 /\ plan'.bound.deletes = plan.bound.deletes
      BY <1>1, <1>7, <2>1 DEF Delete
    <3>2. plan.bound.deletes \in Nat /\ left.deletes \in Nat /\ left.deletes <= plan.bound.deletes
      BY <1>1, PlanTypes DEF LeaseInv
    <3>3. left'.deletes # plan'.bound.deletes
      BY <3>1, <3>2
    <3> QED BY <3>3 DEF NoDeletes
  <2>3. Onward
    BY <1>1, <2>1, <2>2, OnwardIf
  <2>4. Alone(e)
    BY <2>1, NoRunStarts DEF Alone, Rests
  <2> QED BY <2>3, <2>4 DEF MovesOn
<1>8. CASE UNCHANGED <<plan, gone, api, holder, runs>> /\ left'.deletes = left.deletes
  BY <1>8, NoStepMoves
<1>9. ASSUME NEW e \in Events, ObserveEvent(e) \/ ObserveDeletion(e) \/ Create(e) PROVE MovesOn
  BY <1>8, <1>9 DEF ObserveEvent, ObserveDeletion, Create, resources
<1>10. ASSUME NEW e \in Events, NEW p \in Pipelines, ObserveRun(e, p) PROVE MovesOn
  BY <1>8, <1>10 DEF ObserveRun, resources
<1>11. CASE Crash \/ \E w \in Workers : Panic(w)
  <2>1. left'.deletes = left.deletes /\ Reborn
    BY <1>1, <1>11 DEF Crash, Panic
  <2> QED BY <1>8, <2>1 DEF Reborn, resources
<1>12. CASE UNCHANGED vars
  BY <1>8, <1>12 DEF vars, resources
<1> QED BY <1>2, <1>3, <1>4, <1>5, <1>6, <1>7, <1>9, <1>10, <1>11, <1>12 DEF Next, Work

(* What NameTurns sees of an event that rests is what it was.               *)
LEMMA RestsThere ==
  ASSUME StatusInv, TurnInv, Onward, NEW f \in Events, Rests(f)
  PROVE  MadeBy(f)' = MadeBy(f) /\ (f \in Through' <=> f \in Through)
<1>1. /\ Indexes' = Indexes /\ Forward' = Forward /\ \A i : Stage(i)' = Stage(i)
      /\ runs'[f] = runs[f] /\ api'[f].leader = api[f].leader /\ (f \in gone' <=> f \in gone)
  BY PlanStays DEF Onward, Rests
<1>2. \A p : RunOf(f, p)' = RunOf(f, p)
  BY <1>1 DEF RunOf
<1>3. \A k \in Indexes : Passed(f, k)' <=> Passed(f, k)
  BY <1>1, <1>2 DEF Passed, Fin
<1>4. \A i \in Indexes : Blocked(f, i)' <=> Blocked(f, i)
  BY <1>1, <1>2, <1>3 DEF Blocked, Own
<1>5. Over(f)' <=> Over(f)
  BY <1>1, <1>3, <1>4 DEF Over
<1> QED BY <1>1, <1>5 DEF MadeBy, Through

(* Who has a run at work is not over, and has the lease or is gone.         *)
InTurn ==
  /\ \A e \in Events, p \in Pipelines : runs[e][p] # <<>> <=> RunOf(e, p) # "none"
  /\ \A e \in Events, p \in Forward :
       RunOf(e, p) = "Running" => ~Over(e) /\ (holder[plan.label[e]] = e \/ e \in gone)

LEMMA RunsAreInTurn == StatusInv /\ RunInv /\ TurnInv => InTurn
<1> SUFFICES ASSUME StatusInv, RunInv, TurnInv PROVE InTurn
  OBVIOUS
<1>1. \A e \in Events, p \in Pipelines : runs[e][p] # <<>> <=> RunOf(e, p) # "none"
  BY RunCases
<1>2. ASSUME NEW e \in Events, NEW p \in Forward, RunOf(e, p) = "Running"
      PROVE  ~Over(e) /\ (holder[plan.label[e]] = e \/ e \in gone)
  <2>1. p \in Pipelines
    BY PlanTypes
  <2>2. Unfinished(e, p)
    BY <1>2, <2>1, UnfinishedIsRunning
  <2>3. ~Over(e)
    BY <2>2, OverIsQuiet
  <2>4. Held(e)
    BY <1>2, RunIsReached
  <2> QED BY <2>3, <2>4 DEF Held
<1> QED BY <1>1, <1>2 DEF InTurn

(* A run is made only by the one that has the lease, while every other of   *)
(* the name that made any is over.                                          *)
LEMMA MadeInTurn ==
  ASSUME StatusInv, RunInv, TurnInv, InTurn', Onward,
         NEW e \in Events, e \notin gone', StartsOne(e),
         NEW p \in Forward, RunOf(e, p) = "none", RunOf(e, p)' # "none"
  PROVE  /\ p \in Pipelines /\ ~Over(e)' /\ \A q \in Forward : q # p => RunOf(e, q)' = RunOf(e, q)
         /\ \A f \in Events : f # e /\ SameLabel(f, e) /\ MadeBy(f) # {} => f \in Through
<1>1. p \in Pipelines /\ p \in Forward' /\ Forward \subseteq Pipelines
  BY PlanTypes, PlanStays
<1>2. RunOf(e, p)' = "Running" /\ UNCHANGED holder /\ \A q \in Pipelines : q # p => RunOf(e, q)' = RunOf(e, q)
  BY <1>1 DEF StartsOne
<1>3. ~Over(e)'
  BY <1>1, <1>2 DEF InTurn
<1>4. holder[plan.label[e]] = e
  <2>1. plan' = plan
    BY DEF Onward
  <2> QED BY <1>1, <1>2, <2>1 DEF InTurn
<1>5. ASSUME NEW f \in Events, f # e, SameLabel(f, e), MadeBy(f) # {} PROVE f \in Through
  <2>1. CASE f \in gone
    BY <2>1 DEF Through
  <2>2. CASE f \notin gone
    <3>1. PICK q \in Forward : runs[f][q] # <<>>
      BY <1>5, <2>2 DEF MadeBy
    <3>2. Held(f)
      BY <1>1, <3>1, BegunIsHeld DEF Begun
    <3>3. Over(f)
      BY <1>4, <1>5, <2>2, <3>2 DEF Held, SameLabel
    <3> QED BY <3>3 DEF Through
  <2> QED BY <2>1, <2>2
<1> QED BY <1>1, <1>2, <1>3, <1>5

LEMMA StepTakesTurns ==
  ASSUME StatusInv, RunInv, TurnInv, TurnInv', InTurn', [Next]_vars
  PROVE  T!Next \/ UNCHANGED <<plan.label, Made, Through>>
<1>1. MovesOn /\ Onward /\ plan' = plan /\ gone \subseteq gone' /\ gone' \subseteq Events
  BY NextMovesOn DEF MovesOn, Onward, TurnInv, LeaseInv
<1>2. Made = [f \in Events |-> MadeBy(f)] /\ Made' = [f \in Events |-> MadeBy(f)']
  BY DEF Made
<1>3. Through \subseteq Events /\ Through' \subseteq Events
  BY <1>1 DEF Through
<1>4. CASE NoneMoves
  <2>1. \A f \in Events : MadeBy(f)' = MadeBy(f) /\ (f \in Through' <=> f \in Through)
    BY <1>1, <1>4, RestsThere DEF NoneMoves, TurnInv
  <2>2. Made' = Made /\ Through' = Through
    BY <1>2, <1>3, <2>1
  <2> QED BY <1>1, <2>2
<1>5. ASSUME NEW e \in Events, Alone(e) PROVE T!Next \/ UNCHANGED <<plan.label, Made, Through>>
  <2>1. \A f \in Events : f # e => MadeBy(f)' = MadeBy(f) /\ (f \in Through' <=> f \in Through)
    BY <1>1, <1>5, RestsThere DEF Alone, TurnInv
  <2>2. e \in Through => e \in Through'
    BY <1>1, OverStays DEF Through, TurnInv
  <2>3. Through' = Through \/ (e \notin Through /\ Through' = Through \cup {e})
    BY <1>3, <2>1, <2>2
  <2>4. CASE MadeBy(e)' = MadeBy(e)
    <3>1. Made' = Made
      BY <1>2, <2>1, <2>4
    <3>2. CASE Through' = Through
      BY <1>1, <3>1, <3>2
    <3>3. CASE e \notin Through /\ Through' = Through \cup {e}
      <4>1. T!End(e)
        BY <1>1, <3>1, <3>3 DEF T!End
      <4> QED BY <4>1 DEF T!Next
    <3> QED BY <2>3, <3>2, <3>3
  <2>5. CASE e \in gone'
    <3>1. MadeBy(e)' = {} /\ e \in Through'
      BY <1>1, <2>5 DEF MadeBy, Through
    <3>2. Made' = [Made EXCEPT ![e] = {}] /\ Through' = Through \cup {e}
      BY <1>2, <2>1, <2>3, <3>1
    <3>3. T!Delete(e)
      BY <1>1, <3>2 DEF T!Delete
    <3> QED BY <3>3 DEF T!Next
  <2>6. CASE e \notin gone' /\ MadeBy(e)' # MadeBy(e)
    <3>1. e \notin gone /\ Forward' = Forward /\ Forward \subseteq Pipelines
      BY <1>1, <2>6, PlanStays, PlanTypes
    <3>2. /\ MadeBy(e) = {q \in Forward : RunOf(e, q) # "none"}
          /\ MadeBy(e)' = {q \in Forward : RunOf(e, q)' # "none"}
      <4>1. \A q \in Pipelines : runs[e][q] # <<>> <=> RunOf(e, q) # "none"
        BY RunCases
      <4>2. \A q \in Pipelines : runs'[e][q] # <<>> <=> RunOf(e, q)' # "none"
        BY DEF InTurn
      <4> QED BY <2>6, <3>1, <4>1, <4>2 DEF MadeBy
    <3>3. \A q \in Forward : RunOf(e, q) # "none" => RunOf(e, q)' # "none"
      BY <1>1, <3>1 DEF Onward, RunsGoOn
    <3>4. PICK p \in Forward : RunOf(e, p) = "none" /\ RunOf(e, p)' # "none"
      BY <2>6, <3>2, <3>3
    <3>5. /\ p \in Pipelines /\ ~Over(e)' /\ \A q \in Forward : q # p => RunOf(e, q)' = RunOf(e, q)
          /\ \A f \in Events : f # e /\ SameLabel(f, e) /\ MadeBy(f) # {} => f \in Through
      BY <1>1, <1>5, <2>6, <3>4, MadeInTurn DEF Alone
    <3>6. p \notin MadeBy(e) /\ MadeBy(e)' = MadeBy(e) \cup {p}
      BY <3>2, <3>4, <3>5
    <3>7. Made' = [Made EXCEPT ![e] = Made[e] \cup {p}] /\ p \notin Made[e]
      BY <1>2, <2>1, <3>6
    <3>8. e \notin Through' /\ e \notin Through /\ Through' = Through
      BY <2>2, <2>3, <2>6, <3>5 DEF Through
    <3>9. T!Turn(e)
      BY <1>2, <3>5 DEF T!Turn, T!Begun, SameLabel
    <3>10. T!Make(e, p)
      BY <1>1, <3>7, <3>8, <3>9 DEF T!Make
    <3> QED BY <3>5, <3>10 DEF T!Next
  <2> QED BY <2>4, <2>5, <2>6
<1> QED BY <1>1, <1>4, <1>5 DEF MovesOn

(* The runs of the calendar's pipelines do not interleave among events of   *)
(* one name: whatever the caches show to the workers, through crashes,      *)
(* deletions and the requests of users, a run is made only when every other *)
(* event of the name that made one is over, and by none that is             *)
(* (acquireLease of event.go keeps NameTurns).                              *)
THEOREM AlwaysKeepsTurns == Spec => KeepsTurns
<1>1. Init => T!Init
  <2> SUFFICES ASSUME Init PROVE T!Init
    OBVIOUS
  <2>1. StatusInv
    BY Starts
  <2>2. plan.label \in [Events -> Labels]
    BY <2>1, EventAssumption DEF EventAssumption, StatusInv, IsPlan
  <2>3. Made = [e \in Events |-> {}]
    <3>1. \A e \in Events : MadeBy(e) = {}
      BY <2>1, PlanTypes DEF Init, MadeBy
    <3> QED BY <3>1 DEF Made
  <2>4. Through \in SUBSET Events
    BY DEF Init, Through
  <2> QED BY <2>2, <2>3, <2>4 DEF T!Init
<1>2. StatusInv /\ RunInv /\ TurnInv /\ TurnInv' /\ InTurn' /\ [Next]_vars => [T!Next]_T!vars
  BY StepTakesTurns DEF T!vars
<1> QED BY <1>1, <1>2, AlwaysBacked, RunsAreInTurn, PTL DEF Spec, KeepsTurns, T!Spec
=============================================================================
