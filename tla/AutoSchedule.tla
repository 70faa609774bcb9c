---------------------------- MODULE AutoSchedule ----------------------------
(***************************************************************************)
(* The schedule of the automatic mode (src/main/app.c): two tables of      *)
(* slots, one for Monday to Friday and one for the weekend, edited in the  *)
(* calendar menu (menu_calendar), saved to the flash memory when the menu  *)
(* is left, and read by auto_mode_task, which looks for the slots before   *)
(* and after the present moment and takes a temperature between theirs.    *)
(*                                                                         *)
(* app_task runs either the menu or the automatic mode, so a target is     *)
(* computed only while the menu is closed.  The clock is no variable: the  *)
(* properties speak of every moment of the week.                           *)
(***************************************************************************)
EXTENDS Integers, FiniteSetsExt

CONSTANTS
  SchedNum,          \* AUTO_MODE_SCHED_NUM: slots of a day
  HourMax,           \* last hour of a day (23)
  MinuteMax,         \* last minute of an hour (59)
  TempMin, TempMax,  \* the operating range
  DefTemp,           \* the temperature of a slot that was never set
  Saved,             \* the schedules that an earlier life may have left
  MaxEdits           \* bound: edits in a behaviour

ASSUME ScheduleAssumption ==
  /\ SchedNum \in Nat \ {0}
  /\ HourMax \in Nat /\ MinuteMax \in Nat
  /\ TempMin \in Int /\ TempMax \in Int /\ DefTemp \in TempMin..TempMax
  /\ Saved \subseteq
       [{"weekday", "weekend"} -> [0..(SchedNum - 1) ->
         [en: BOOLEAN, hour: 0..HourMax, minute: 0..MinuteMax, temp: TempMin..TempMax]]]
  /\ MaxEdits \in Nat

VARIABLES
  sched,       \* sched_weekday and sched_weekend in memory
  stored,      \* the same tables in the flash memory
  menu,        \* m_cal, "closed", or "saving" between the two writes
  table,       \* the table that the menu shows
  slot,        \* sched_num: the slot that it shows
  changed,     \* is_sched_changed
  fromServer,  \* AutoMode_scheduleFromServer
  edits        \* auxiliary: edits made, at most MaxEdits

vars == <<sched, stored, menu, table, slot, changed, fromServer, edits>>
tables == <<sched, stored, edits>>

Tables == {"weekday", "weekend"}
SlotNums == 0..(SchedNum - 1)
Slots == [en: BOOLEAN, hour: 0..HourMax, minute: 0..MinuteMax, temp: TempMin..TempMax]
Schedules == [Tables -> [SlotNums -> Slots]]
Positions == {"weektype", "sched", "en", "time", "temp", "en_stat", "hour",
              "minute", "temp_change", "hour_change", "minute_change", "confirm_exit"}

(***************************************************************************)
(* The search.  Slots are numbered through the week from Sunday, day 0.    *)
(***************************************************************************)
HourLength == MinuteMax + 1
DayLength == (HourMax + 1) * HourLength
Moments == (0..6) \X (0..(DayLength - 1))
WeekSlots == 7 * SchedNum
DayOf(j) == j \div SchedNum
Entry(j) == sched[IF DayOf(j) \in {0, 6} THEN "weekend" ELSE "weekday"][j % SchedNum]
Minute(j) == Entry(j).hour * HourLength + Entry(j).minute
SlotsOn(day) == (day * SchedNum)..(day * SchedNum + SchedNum - 1)

\* Mutant of PastSlot: < for <=, a slot does not begin at its own minute.
PastStrict(day, now) ==
  LET today == {j \in SlotsOn(day) : Entry(j).en /\ Minute(j) < now}
      back(i) == (day * SchedNum - i) % WeekSlots
      earlier == {i \in 1..(WeekSlots - 1) : Entry(back(i)).en}
  IN CASE today # {} -> Max(today)
       [] today = {} /\ earlier # {} -> back(Min(earlier))
       [] OTHER -> -1

\* The last slot of today that has begun; else the first enabled one going
\* back through the week from yesterday's last; else -1.
PastSlot(day, now) ==
  LET today == {j \in SlotsOn(day) : Entry(j).en /\ Minute(j) <= now}
      back(i) == (day * SchedNum - i) % WeekSlots
      earlier == {i \in 1..(WeekSlots - 1) : Entry(back(i)).en}
  IN CASE today # {} -> Max(today)
       [] today = {} /\ earlier # {} -> back(Min(earlier))
       [] OTHER -> -1

\* The first slot of today that is not over; else the first enabled one
\* going forward from tomorrow's first; else -1.
NextSlot(day, now) ==
  LET today == {j \in SlotsOn(day) : Entry(j).en /\ Minute(j) >= now}
      ahead(i) == ((day + 1) * SchedNum + i - 1) % WeekSlots
      later == {i \in 1..(WeekSlots - 1) : Entry(ahead(i)).en}
  IN CASE today # {} -> Min(today)
       [] today = {} /\ later # {} -> ahead(Min(later))
       [] OTHER -> -1

\* Mutant of DaysFrom: minutes of different days are compared as they are.
DaysIgnored(a, b) == 0

\* Days from day a to day b as the code counts them: six to go round a week.
DaysFrom(a, b) == IF b < a THEN b + 6 - a ELSE b - a

\* Division in C, which rounds towards zero.
Magnitude(n) == IF n < 0 THEN -n ELSE n
Quotient(n, d) ==
  LET q == Magnitude(n) \div Magnitude(d) IN IF (n < 0) = (d < 0) THEN q ELSE -q

Interpolated(day, now, past, next) ==
  LET elapsed == now - Minute(past) + DaysFrom(DayOf(past), day) * DayLength
      span == Minute(next) - Minute(past) + DaysFrom(DayOf(past), DayOf(next)) * DayLength
      rise == Entry(next).temp - Entry(past).temp
  IN IF Minute(next) = Minute(past) \/ span = 0
     THEN Entry(past).temp
     ELSE Entry(past).temp + Quotient(elapsed * rise, span)

\* The target of the automatic mode; manual is the set point of manual mode.
AutoTemp(day, now, manual) ==
  LET past == PastSlot(day, now)
      next == NextSlot(day, now)
  IN IF fromServer \/ past = -1 \/ next = -1
     THEN manual
     ELSE Interpolated(day, now, past, next)

-----------------------------------------------------------------------------
Default == [en |-> FALSE, hour |-> 0, minute |-> 0, temp |-> DefTemp]
Unset == [t \in Tables |-> [s \in SlotNums |-> Default]]

\* The device starts with the tables of the flash memory, if there are any.
Init ==
  /\ sched \in Saved \cup {Unset}
  /\ stored = sched
  /\ menu = "closed" /\ table = "weekday" /\ slot = 0 /\ changed = FALSE
  /\ fromServer = FALSE
  /\ edits = 0

Closed == table' = "weekday" /\ slot' = 0 /\ changed' = FALSE

\* The calendar refuses to open while the application sets the schedule.
Open ==
  /\ menu = "closed" /\ ~fromServer
  /\ menu' = "weektype"
  /\ UNCHANGED <<tables, table, slot, changed, fromServer>>

BackTo == [weektype |-> "confirm_exit", sched |-> "weektype", en |-> "sched",
           time |-> "sched", temp |-> "sched", en_stat |-> "en", hour |-> "time",
           minute |-> "time", temp_change |-> "temp", hour_change |-> "hour",
           minute_change |-> "minute"]
UpTo == [en |-> "time", time |-> "temp", temp |-> "en", hour |-> "minute", minute |-> "hour"]
DownTo == [en |-> "temp", time |-> "en", temp |-> "time", hour |-> "minute",
           minute |-> "hour", confirm_exit |-> "weektype"]
ForwardTo == [weektype |-> "sched", sched |-> "en", en |-> "en_stat", time |-> "hour",
              temp |-> "temp_change", hour |-> "hour_change", minute |-> "minute_change"]

Move(to) ==
  /\ menu \in DOMAIN to
  /\ menu' = to[menu]
  /\ slot' = IF menu = "weektype" THEN 0 ELSE slot
  /\ UNCHANGED <<tables, table, changed, fromServer>>

\* UP and DOWN do the same here.
OtherTable ==
  /\ menu = "weektype"
  /\ table' = CHOOSE t \in Tables : t # table
  /\ UNCHANGED <<tables, menu, slot, changed, fromServer>>

OtherSlot(d) ==
  /\ menu = "sched"
  /\ slot' = (slot + d) % SchedNum
  /\ UNCHANGED <<tables, menu, table, changed, fromServer>>

Edited(field, v) == [sched EXCEPT ![table][slot][field] = v]

\* Enabling a slot, with UP or DOWN, does not count as a change.
ToggleEnable ==
  /\ menu = "en_stat" /\ edits < MaxEdits
  /\ sched' = Edited("en", ~sched[table][slot].en)
  /\ edits' = edits + 1
  /\ UNCHANGED <<stored, menu, table, slot, changed, fromServer>>

FieldOf == [hour_change |-> "hour", minute_change |-> "minute", temp_change |-> "temp"]
RangeOf == [hour |-> 0..HourMax, minute |-> 0..MinuteMax, temp |-> TempMin..TempMax]

\* Mutants of Adjust: the upper end is one too far; the change is not noted.
AdjustTooFar(d) ==
  /\ menu \in DOMAIN FieldOf /\ edits < MaxEdits
  /\ LET field == FieldOf[menu]
         v == sched[table][slot][field] + d
     IN v - 1 \in RangeOf[field] /\ sched' = Edited(field, v)
  /\ changed' = TRUE
  /\ edits' = edits + 1
  /\ UNCHANGED <<stored, menu, table, slot, fromServer>>
AdjustUnnoted(d) ==
  /\ menu \in DOMAIN FieldOf /\ edits < MaxEdits
  /\ LET field == FieldOf[menu]
         v == sched[table][slot][field] + d
     IN v \in RangeOf[field] /\ sched' = Edited(field, v)
  /\ edits' = edits + 1
  /\ UNCHANGED <<stored, menu, table, slot, changed, fromServer>>

Adjust(d) ==
  /\ menu \in DOMAIN FieldOf /\ edits < MaxEdits
  /\ LET field == FieldOf[menu]
         v == sched[table][slot][field] + d
     IN v \in RangeOf[field] /\ sched' = Edited(field, v)
  /\ changed' = TRUE
  /\ edits' = edits + 1
  /\ UNCHANGED <<stored, menu, table, slot, fromServer>>

\* FORWARD on the question whether to leave, or POWER held anywhere.  The
\* table of the weekdays is written first.
Exit ==
  /\ menu \in Positions
  /\ IF changed
     THEN /\ menu' = "saving"
          /\ stored' = [stored EXCEPT !["weekday"] = sched["weekday"]]
     ELSE menu' = "closed" /\ UNCHANGED stored
  /\ Closed
  /\ UNCHANGED <<sched, fromServer, edits>>

SaveWeekend ==
  /\ menu = "saving"
  /\ stored' = [stored EXCEPT !["weekend"] = sched["weekend"]]
  /\ menu' = "closed"
  /\ UNCHANGED <<sched, table, slot, changed, fromServer, edits>>

\* The command that says whether the application sets the schedule.
ScheduleFromApp(b) ==
  /\ fromServer' = b
  /\ UNCHANGED <<tables, menu, table, slot, changed>>

\* After a power cut the tables are read from the flash memory.
PowerCut ==
  /\ sched' = stored
  /\ menu' = "closed" /\ Closed
  /\ fromServer' = FALSE
  /\ UNCHANGED <<stored, edits>>

Keys ==
  \/ \E to \in {BackTo, UpTo, DownTo, ForwardTo} : Move(to)
  \/ OtherTable
  \/ \E d \in {1, SchedNum - 1} : OtherSlot(d)
  \/ ToggleEnable
  \/ \E d \in {1, -1} : Adjust(d)
  \/ Exit

Next ==
  \/ Open \/ Keys \/ SaveWeekend
  \/ \E b \in BOOLEAN : ScheduleFromApp(b)
  \/ PowerCut

Spec == Init /\ [][Next]_vars

-----------------------------------------------------------------------------
\* The variables keep their types (app.c:141-142, 371-384).
TypeOK ==
  /\ sched \in Schedules /\ stored \in Schedules
  /\ menu \in Positions \cup {"closed", "saving"}
  /\ table \in Tables /\ slot \in SlotNums
  /\ changed \in BOOLEAN /\ fromServer \in BOOLEAN
  /\ edits \in 0..MaxEdits

\* The times and temperatures of both tables, without the enabled marks.
SameTimes(s, t) ==
  \A w \in Tables, n \in SlotNums, f \in {"hour", "minute", "temp"} : s[w][n][f] = t[w][n][f]

\* Whatever way the menu was left and whenever the power was cut, the times
\* and temperatures that automatic mode follows are those that the next
\* power cut will bring back (app.c:3893-3897).
TimesKept == menu = "closed" => SameTimes(stored, sched)

Times(t) == [n \in SlotNums |-> [f \in {"hour", "minute", "temp"} |-> t[n][f]]]

WeekdayCopy == INSTANCE SavedCopy
                 WITH live <- Times(sched["weekday"]), saved <- Times(stored["weekday"]),
                      busy <- menu # "closed"
WeekendCopy == INSTANCE SavedCopy
                 WITH live <- Times(sched["weekend"]), saved <- Times(stored["weekend"]),
                      busy <- menu # "closed"

\* The times and temperatures of a table change only while the menu is open,
\* and reach the flash memory before it is closed, also when the power is cut
\* between the two tables (app.c:3893-3897).
KeepsTimes == WeekdayCopy!Spec /\ WeekendCopy!Spec

Enabled == {j \in 0..(WeekSlots - 1) : Entry(j).en}
Week == 7 * DayLength
Age(day, now, j) == (day * DayLength + now - DayOf(j) * DayLength - Minute(j)) % Week
Wait(day, now, j) == (DayOf(j) * DayLength + Minute(j) - day * DayLength - now) % Week

\* The calendar lets the user put the slots of a day in any order; the search
\* takes them to be in the order of their times.
InOrder ==
  \A t \in Tables : \A m, n \in SlotNums :
    (m < n /\ sched[t][m].en /\ sched[t][n].en) =>
      sched[t][m].hour * HourLength + sched[t][m].minute
        <= sched[t][n].hour * HourLength + sched[t][n].minute

\* At every moment of the week the search finds the enabled slot that began
\* last, round the end of the week too, and fails only if no slot of the two
\* tables is enabled: "check for the nearest schedule before t_now"
\* (app.c:2809).
NearestPast ==
  (menu = "closed" /\ InOrder) =>
    \A m \in Moments :
      LET p == PastSlot(m[1], m[2])
      IN IF Enabled = {} THEN p = -1
         ELSE p \in Enabled /\ \A j \in Enabled : Age(m[1], m[2], p) <= Age(m[1], m[2], j)

\* Likewise the enabled slot that comes first from this moment on
\* (app.c:2850-2879).
NearestNext ==
  (menu = "closed" /\ InOrder) =>
    \A m \in Moments :
      LET n == NextSlot(m[1], m[2])
      IN IF Enabled = {} THEN n = -1
         ELSE n \in Enabled /\ \A j \in Enabled : Wait(m[1], m[2], n) <= Wait(m[1], m[2], j)

\* The search finds the slots on both sides of every moment.
NearestSlots == NearestPast /\ NearestNext

\* x lies between a and b.
Between(x, a, b) == (a <= x /\ x <= b) \/ (b <= x /\ x <= a)

\* The target lies between the temperatures of the slots before and after
\* this moment.
OnTheWay(day, now) ==
  LET p == PastSlot(day, now)
      n == NextSlot(day, now)
  IN p # -1 /\ n # -1 =>
       Between(AutoTemp(day, now, DefTemp), Entry(p).temp, Entry(n).temp)

\* The slot before this moment and the slot after it are of the same week.
SameWeek(day, now) == PastSlot(day, now) <= NextSlot(day, now)

\* Within a week the target moves from the temperature of the last slot to
\* that of the next one and never past either (app.c:2903-2950).
StaysBetween ==
  (menu = "closed" /\ ~fromServer) =>
    \A m \in Moments : SameWeek(m[1], m[2]) => OnTheWay(m[1], m[2])
=============================================================================
