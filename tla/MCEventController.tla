--------------------------- MODULE MCEventController -------------------------
(* Small calendars for EventController. *)
EXTENDS EventController, TLC

Always(p) == [name |-> p, leaderOnly |-> FALSE, ignoreAfter |-> FALSE, rollback |-> None, auto |-> FALSE]
LeaderOnly(p) == [Always(p) EXCEPT !.leaderOnly = TRUE]
WithRollback(p, r) == [Always(p) EXCEPT !.rollback = r, !.auto = TRUE]
RunAfter(n, hours) == [name |-> n, pipeline |-> None, offset |-> [hours |-> hours, at |-> 24]]

(* Two events of different names, in no group, and one pipeline for all. *)
Base == [stages |-> <<Always("p1")>>, daily |-> FALSE, fails |-> FALSE,
         cal |-> [weekdays |-> {}, skipDays |-> {}],
         label |-> [e \in Events |-> e], group |-> [e \in Events |-> None],
         after |-> [e \in Events |-> {}], time |-> [e \in Events |-> 24],
         born |-> [e \in Events |-> 1], comes |-> {"a", "b"},
         bound |-> [crashes |-> 0, asks |-> 0, deletes |-> 0]]

SameName == [Base EXCEPT !.label = [e \in Events |-> "x"]]
OneGroup == [Base EXCEPT !.group = [e \in Events |-> "g"], !.stages = <<Always("p1"), LeaderOnly("p2")>>]
Rollbacks == [SameName EXCEPT !.stages = <<WithRollback("p1", "p2")>>, !.fails = TRUE]

(* Events of one name, the later one created a second later, runs that may  *)
(* fail, and a process that may die; three of them; one that is deleted.    *)
Turns == [SameName EXCEPT !.stages = <<Always("p1"), Always("p2")>>, !.fails = TRUE,
                          !.born["b"] = 2, !.bound.crashes = 1]
Three == [SameName EXCEPT !.born["c"] = 2, !.comes = Events]
Deleted == [SameName EXCEPT !.bound.deletes = 1]

(* A group: all run p1, the leader p2; of different days; and with one that *)
(* runs after the other.                                                    *)
Daily == [OneGroup EXCEPT !.daily = TRUE, !.time["b"] = 48]
After == [OneGroup EXCEPT !.after["b"] = {RunAfter("a", 24)}]

(* One that runs after the other on the next working day, without a group.  *)
AfterDays == [Base EXCEPT !.after["b"] = {RunAfter("a", 24)}, !.stages = Turns.stages,
                          !.cal = [weekdays |-> {[from |-> 1, to |-> 5]}, skipDays |-> {2}]]

(* A run that a user cancels, and rolls back. *)
Asked == [Rollbacks EXCEPT !.comes = {"a"}, !.bound.asks = 2]

Calendars == {Turns, Three, Deleted, Daily, After, AfterDays, Rollbacks, Asked}

(* The arithmetic of CalendarTime against what it is for, over two weeks:   *)
(* the next allowed day and the day before; whole days of an offset are     *)
(* allowed days; the hours to wait are the least; rows begin and end where  *)
(* the comment of pipelineGroups says.                                      *)
Cals == [weekdays : {{[from |-> 1, to |-> 5]}, {[from |-> 0, to |-> 1], [from |-> 4, to |-> 4]}},
         skipDays : {{}, {2, 8}}]
Between(cal, d, e) == {x \in d .. e : Allowed(cal, x)}

ASSUME DaysFit ==
  \A cal \in Cals, t \in {24 * d + 9 : d \in 14 .. 21} :
    /\ Day(FitsInForward(t, cal)) = Least(Between(cal, Day(t), Day(t) + 21))
    /\ Day(FitsInBackward(t, cal)) = Greatest(Between(cal, Day(t) - 14, Day(t)))
    /\ Hour(FitsInForward(t, cal)) = Hour(t) /\ Hour(FitsInBackward(t, cal)) = Hour(t)

ASSUME OffsetsCountDays ==
  \A cal \in Cals, t \in {24 * d + 9 : d \in 14 .. 21}, n \in 1 .. 4 :
    LET after == TimeWithOffset(t, [hours |-> 24 * n, at |-> 24], cal)
        before == TimeWithOffset(t, [hours |-> -24 * n, at |-> 24], cal) IN
    /\ Allowed(cal, Day(after)) /\ Cardinality(Between(cal, Day(t) + 1, Day(after))) = n
    /\ Allowed(cal, Day(before)) /\ Cardinality(Between(cal, Day(before), Day(t) - 1)) = n

Windows == {h \in [from : 0 .. 23, to : 1 .. 47] : h.from < h.to /\ h.to <= h.from + 24}
Open(hours, t) ==
  \E h \in hours, d \in {Day(t) - 1, Day(t)} : 24 * d + h.from <= t /\ t < 24 * d + h.to
ASSUME HoursAreLeast ==
  \A h \in Windows, t \in 24 .. 47 :
    LET hours == {h, [from |-> 13, to |-> 15]}  n == HoursToWait(t, hours) IN
    Open(hours, t + n) /\ \A m \in 0 .. n - 1 : ~Open(hours, t + m)

ASSUME RowsAreRows ==
  \A only \in UNION {[1 .. n -> BOOLEAN] : n \in 1 .. 5} :
    LET stages == [i \in DOMAIN only |-> [leaderOnly |-> only[i]]]
        Row(i, j) == i = j \/ \A k \in i .. j : ~only[k] IN
    \A i \in DOMAIN only :
      /\ Begins(stages)[i] = Least({j \in 1 .. i : Row(j, i)})
      /\ Ends(stages)[i] = Greatest({j \in i .. Len(stages) : Row(i, j)})

OnlyLeader == {[OneGroup EXCEPT !.stages = <<LeaderOnly("p2")>>, !.comes = Events]}
OnlyNameAndGroup == {[OneGroup EXCEPT !.label = SameName.label]}
=============================================================================
