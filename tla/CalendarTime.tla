---------------------------- MODULE CalendarTime -----------------------------
(* The arithmetic of pkg/controller/calendar/util.go: days on which events  *)
(* may run, offsets, hours, and the rows of a calendar's pipelines.  Times  *)
(* are hours in the calendar's time zone, day 0 is a Sunday.                *)
EXTENDS Integers, Sequences

Day(t) == t \div 24
Hour(t) == t % 24

(* inSameDay *)
InSameDay(t, u) == Day(t) = Day(u)

Least(S) == CHOOSE m \in S : \A n \in S : m <= n
Greatest(S) == CHOOSE m \in S : \A n \in S : n <= m

(* A day on which a calendar lets events run: in one of its ranges of the   *)
(* week, and not among the days to skip.                                    *)
Allowed(cal, day) ==
  /\ \E range \in cal.weekdays : range.from <= day % 7 /\ day % 7 <= range.to
  /\ day \notin cal.skipDays

(* fitsInForward, fitsInBackward: the same hour of the next day, or of the  *)
(* day before, until one is allowed.  In a calendar that has days to skip,  *)
(* or ranges of the week that are all upside down, and no weekday left, no  *)
(* day is allowed, and the recursion has no end: only of calendars that are *)
(* Searchable is anything said.                                             *)
Searchable(cal) ==
  \/ cal.weekdays = {} /\ cal.skipDays = {}
  \/ \E range \in cal.weekdays : range.from <= range.to
FitsIn(t, cal, step) ==
  LET fit[u \in Int] == IF Allowed(cal, Day(u)) THEN u ELSE fit[u + 24 * step] IN
  IF cal.weekdays = {} /\ cal.skipDays = {} THEN t ELSE fit[t]
FitsInForward(t, cal) == FitsIn(t, cal, 1)
FitsInBackward(t, cal) == FitsIn(t, cal, -1)

(* getTimeWithOffset: a day at a time, the last one perhaps a part of it,   *)
(* each moved to a day that is allowed, then the hour of the day if one is  *)
(* given (24: none).                                                        *)
Round(t, left, cal) ==
  IF left > 0 THEN FitsInForward(t + Least({left, 24}), cal)
  ELSE FitsInBackward(t + Greatest({left, -24}), cal)
Left(h, n) == IF h > 0 THEN h - 24 * n ELSE h + 24 * n
Moves(t, h, cal) ==
  LET move[n \in Nat] == IF n = 0 THEN t ELSE Round(move[n - 1], Left(h, n - 1), cal) IN move
Rounds(h) == ((IF h > 0 THEN h ELSE -h) + 23) \div 24
TimeWithOffset(t, offset, cal) ==
  LET moved == Moves(t, offset.hours, cal)[Rounds(offset.hours)] IN
  IF offset.at = 24 THEN moved ELSE 24 * Day(moved) + offset.at

(* inCalendarHours: 0 in one of the windows, otherwise the hours to wait    *)
(* for one; a window may reach into the next day.                           *)
InWindow(h, t) ==
  IF Hour(t) < h.from THEN h.to > 24 /\ Hour(t) < h.to - 24 ELSE Hour(t) < h.to
HoursToWait(t, hours) ==
  IF hours = {} \/ \E h \in hours : InWindow(h, t) THEN 0
  ELSE Least({24} \cup {IF Hour(t) < h.from THEN h.from - Hour(t) ELSE 24 + h.from - Hour(t) : h \in hours})

(* pipelineGroups: for each pipeline the first, or the last, of the row of  *)
(* Always pipelines it stands in; one that is LeaderOnly stands alone.      *)
Begins(stages) ==
  LET begin[i \in DOMAIN stages] ==
        IF i = 1 \/ stages[i].leaderOnly \/ stages[i - 1].leaderOnly THEN i ELSE begin[i - 1] IN
  begin
Ends(stages) ==
  LET end[i \in DOMAIN stages] ==
        IF i = Len(stages) \/ stages[i].leaderOnly \/ stages[i + 1].leaderOnly THEN i ELSE end[i + 1] IN
  end
=============================================================================
