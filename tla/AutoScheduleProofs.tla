------------------------- MODULE AutoScheduleProofs -------------------------
(***************************************************************************)
(* Proofs about AutoSchedule for any number of slots, any length of the    *)
(* day and any temperature range: the types; that an edited time or        *)
(* temperature is in the flash memory whenever the menu is closed; that    *)
(* each table is a SavedCopy; that the search finds the slots nearest to   *)
(* every moment of the week; and that the target lies between the          *)
(* temperatures of the two.                                                *)
(***************************************************************************)
EXTENDS AutoSchedule, WellFoundedInduction, TLAPS

\* The keys move within the menu.
LEMMA MovesStay ==
  ASSUME NEW to \in {BackTo, UpTo, DownTo, ForwardTo}, menu \in DOMAIN to
  PROVE to[menu] \in Positions
BY DEF BackTo, UpTo, DownTo, ForwardTo, Positions

\* An edit of a slot that is shown gives a schedule again.
LEMMA EditTypes ==
  ASSUME TypeOK, NEW f \in {"en", "hour", "minute", "temp"}, NEW v,
         f = "en" => v \in BOOLEAN,
         f # "en" => v \in RangeOf[f]
  PROVE Edited(f, v) \in Schedules
<1> DEFINE s == [sched[table][slot] EXCEPT ![f] = v]
<1>1. sched[table][slot] \in Slots
  BY DEF TypeOK, Schedules
<1>2. s \in Slots
  <2>1. CASE f = "en"
    BY <1>1, <2>1 DEF Slots
  <2>2. CASE f = "hour"
    BY <1>1, <2>2 DEF Slots, RangeOf
  <2>3. CASE f = "minute"
    BY <1>1, <2>3 DEF Slots, RangeOf
  <2>4. CASE f = "temp"
    BY <1>1, <2>4 DEF Slots, RangeOf
  <2>. QED
    BY <2>1, <2>2, <2>3, <2>4
<1> HIDE DEF s
<1>3. [sched[table] EXCEPT ![slot] = s] \in [SlotNums -> Slots]
  BY <1>2 DEF TypeOK, Schedules
<1>4. Edited(f, v) = [sched EXCEPT ![table] = [sched[table] EXCEPT ![slot] = s]]
  BY Zenon DEF Edited, s
<1>. QED
  BY <1>3, <1>4 DEF TypeOK, Schedules

-----------------------------------------------------------------------------
\* The initial state has the types of the declarations.
LEMMA InitTypes == Init => TypeOK
<1> SUFFICES ASSUME Init PROVE TypeOK
  OBVIOUS
<1>1. Default \in Slots
  BY ScheduleAssumption DEF Default, Slots
<1>2. Unset \in Schedules
  BY <1>1 DEF Unset, Schedules
<1>3. Saved \subseteq Schedules
  BY ScheduleAssumption DEF Schedules, Tables, SlotNums, Slots
<1>4. 0 \in SlotNums
  BY ScheduleAssumption DEF SlotNums
<1>5. sched \in Schedules /\ stored \in Schedules
  BY <1>2, <1>3 DEF Init
<1>6. edits \in 0..MaxEdits
  BY ScheduleAssumption DEF Init
<1>. QED
  BY <1>4, <1>5, <1>6 DEF Init, TypeOK, Tables

\* Every step keeps the types.
LEMMA NextTypes == TypeOK /\ [Next]_vars => TypeOK'
<1> SUFFICES ASSUME TypeOK, [Next]_vars PROVE TypeOK'
  OBVIOUS
<1>0. 0 \in SlotNums /\ "weekday" \in Tables /\ "weekend" \in Tables
  BY ScheduleAssumption DEF SlotNums, Tables
<1>1. CASE Open
  BY <1>1 DEF Open, TypeOK, tables, Positions
<1>2. ASSUME NEW to \in {BackTo, UpTo, DownTo, ForwardTo}, Move(to) PROVE TypeOK'
  BY <1>0, <1>2, MovesStay DEF Move, TypeOK, tables
<1>3. CASE OtherTable
  BY <1>3 DEF OtherTable, TypeOK, tables, Tables
<1>4. ASSUME NEW d \in {1, SchedNum - 1}, OtherSlot(d) PROVE TypeOK'
  <2>1. (slot + d) % SchedNum \in SlotNums
    BY ScheduleAssumption DEF TypeOK, SlotNums
  <2>. QED
    BY <1>4, <2>1 DEF OtherSlot, TypeOK, tables
<1>5. CASE ToggleEnable
  <2>1. sched' \in Schedules
    BY <1>5, EditTypes DEF ToggleEnable
  <2>2. edits' \in 0..MaxEdits
    BY <1>5, ScheduleAssumption DEF ToggleEnable, TypeOK
  <2>. QED
    BY <1>5, <2>1, <2>2 DEF ToggleEnable, TypeOK
<1>6. ASSUME NEW d \in {1, -1}, Adjust(d) PROVE TypeOK'
  <2>1. FieldOf[menu] \in {"hour", "minute", "temp"}
    BY <1>6 DEF Adjust, FieldOf
  <2>2. sched' \in Schedules
    BY <1>6, <2>1, EditTypes DEF Adjust
  <2>3. edits' \in 0..MaxEdits
    BY <1>6, ScheduleAssumption DEF Adjust, TypeOK
  <2>. QED
    BY <1>6, <2>2, <2>3 DEF Adjust, TypeOK
<1>7. CASE Exit
  <2>1. stored' \in Schedules
    BY <1>0, <1>7 DEF Exit, TypeOK, Schedules
  <2>. QED
    BY <1>0, <1>7, <2>1 DEF Exit, Closed, TypeOK
<1>8. CASE SaveWeekend
  <2>1. stored' \in Schedules
    BY <1>0, <1>8 DEF SaveWeekend, TypeOK, Schedules
  <2>. QED
    BY <1>8, <2>1 DEF SaveWeekend, TypeOK
<1>9. ASSUME NEW b \in BOOLEAN, ScheduleFromApp(b) PROVE TypeOK'
  BY <1>9 DEF ScheduleFromApp, TypeOK, tables
<1>10. CASE PowerCut
  BY <1>0, <1>10 DEF PowerCut, Closed, TypeOK
<1>11. CASE UNCHANGED vars
  BY <1>11 DEF vars, TypeOK
<1>. QED
  BY <1>1, <1>2, <1>3, <1>4, <1>5, <1>6, <1>7, <1>8, <1>9, <1>10, <1>11 DEF Next, Keys

\* Every variable keeps its type: the tables those of auto_mode_sched_t
\* (app.h:406-413), whatever keys, commands and power cuts come.
THEOREM ScheduleTypes == Spec => []TypeOK
<1>. QED
  BY InitTypes, NextTypes, PTL DEF Spec

-----------------------------------------------------------------------------
\* The inductive invariant.  Without is_sched_changed set nothing but the
\* enabled marks is unsaved; between the two writes the first table is safe
\* and the second may not be.
Unchanged == (menu \in Positions /\ ~changed) => SameTimes(stored, sched)
HalfSaved == menu = "saving" => stored["weekday"] = sched["weekday"]
KInv == Unchanged /\ HalfSaved /\ TimesKept

\* An enabled mark is none of the times.
LEMMA ToggleKeeps ==
  ASSUME TypeOK, NEW v, SameTimes(stored, sched)
  PROVE SameTimes(stored, Edited("en", v))
<1> DEFINE s == [sched[table][slot] EXCEPT !["en"] = v]
           new == Edited("en", v)
<1>1. new = [sched EXCEPT ![table] = [sched[table] EXCEPT ![slot] = s]]
  BY Zenon DEF Edited
<1>2. sched[table][slot] \in Slots
  BY DEF TypeOK, Schedules
<1>3. \A f \in {"hour", "minute", "temp"} : s[f] = sched[table][slot][f]
  BY <1>2 DEF Slots
<1> HIDE DEF s, new
<1>4. \A w \in Tables, n \in SlotNums :
        new[w][n] = IF w = table /\ n = slot THEN s ELSE sched[w][n]
  BY <1>1 DEF TypeOK, Schedules
<1>5. SameTimes(stored, new)
  BY <1>3, <1>4 DEF SameTimes
<1>. QED
  BY <1>5 DEF new

\* Both tables written, nothing is unsaved.
LEMMA BothSaved ==
  ASSUME stored["weekday"] = sched["weekday"], stored["weekend"] = sched["weekend"]
  PROVE SameTimes(stored, sched)
BY DEF SameTimes, Tables

\* Every step keeps the inductive invariant.
LEMMA NextKeeps == TypeOK /\ KInv /\ [Next]_vars => KInv'
<1> SUFFICES ASSUME TypeOK, KInv, [Next]_vars PROVE KInv'
  OBVIOUS
<1> USE DEF KInv, Unchanged, HalfSaved, TimesKept
<1>0. "closed" \notin Positions /\ "saving" \notin Positions
  BY DEF Positions
<1>1. CASE Open
  BY <1>0, <1>1 DEF Open, tables, Positions, SameTimes
<1>2. ASSUME NEW to \in {BackTo, UpTo, DownTo, ForwardTo}, Move(to) PROVE KInv'
  <2>1. menu \in Positions /\ menu' \in Positions
    BY <1>2, MovesStay DEF Move, BackTo, UpTo, DownTo, ForwardTo, Positions
  <2>. QED
    BY <1>0, <1>2, <2>1 DEF Move, tables, SameTimes
<1>3. CASE OtherTable
  BY <1>0, <1>3 DEF OtherTable, tables, Positions, SameTimes
<1>4. ASSUME NEW d \in {1, SchedNum - 1}, OtherSlot(d) PROVE KInv'
  BY <1>0, <1>4 DEF OtherSlot, tables, Positions, SameTimes
<1>5. CASE ToggleEnable
  <2>1. menu = "en_stat" /\ menu' = "en_stat" /\ "en_stat" \in Positions
    BY <1>5 DEF ToggleEnable, Positions
  <2>2. ASSUME ~changed' PROVE SameTimes(stored', sched')
    BY <1>5, <2>1, <2>2, ToggleKeeps DEF ToggleEnable
  <2>. QED
    BY <1>0, <2>1, <2>2 DEF SameTimes
<1>6. ASSUME NEW d \in {1, -1}, Adjust(d) PROVE KInv'
  <2>1. menu' \in {"hour_change", "minute_change", "temp_change"} /\ changed'
    BY <1>6, Zenon DEF Adjust, FieldOf
  <2>. QED
    BY <1>0, <2>1 DEF Positions
<1>7. CASE Exit
  <2>1. CASE changed
    <3>1. menu' = "saving" /\ stored'["weekday"] = sched'["weekday"]
      BY <1>7, <2>1 DEF Exit, TypeOK, Schedules, Tables
    <3>. QED
      BY <1>0, <3>1
  <2>2. CASE ~changed
    <3>1. SameTimes(stored, sched)
      BY <1>7, <2>2 DEF Exit
    <3>2. menu' = "closed" /\ stored' = stored /\ sched' = sched
      BY <1>7, <2>2 DEF Exit
    <3>. QED
      BY <1>0, <3>1, <3>2 DEF SameTimes
  <2>. QED
    BY <2>1, <2>2 DEF TypeOK
<1>8. CASE SaveWeekend
  <2>1. stored'["weekday"] = sched'["weekday"] /\ stored'["weekend"] = sched'["weekend"]
    BY <1>8 DEF SaveWeekend, TypeOK, Schedules, Tables
  <2>2. SameTimes(stored, sched)'
    BY <2>1 DEF SameTimes, Tables
  <2>3. menu' = "closed"
    BY <1>8 DEF SaveWeekend
  <2>. QED
    BY <1>0, <2>2, <2>3
<1>9. ASSUME NEW b \in BOOLEAN, ScheduleFromApp(b) PROVE KInv'
  BY <1>9 DEF ScheduleFromApp, tables, SameTimes
<1>10. CASE PowerCut
  BY <1>0, <1>10 DEF PowerCut, SameTimes
<1>11. CASE UNCHANGED vars
  BY <1>11 DEF vars, SameTimes
<1>. QED
  BY <1>1, <1>2, <1>3, <1>4, <1>5, <1>6, <1>7, <1>8, <1>9, <1>10, <1>11 DEF Next, Keys

\* Whenever the menu is closed, the times and temperatures in use are those
\* in the flash memory (app.c:3893-3897): a power cut does not change them.
THEOREM EditsSurvive == Spec => []TimesKept
<1>1. Init => KInv
  BY DEF Init, KInv, Unchanged, HalfSaved, TimesKept, SameTimes
<1>2. KInv => TimesKept
  BY DEF KInv
<1>. QED
  BY <1>1, <1>2, NextKeeps, ScheduleTypes, PTL DEF Spec

-----------------------------------------------------------------------------
(***************************************************************************)
(* Each table, but for its enabled marks, is an implementation of          *)
(* SavedCopy: the menu works on it, Exit and SaveWeekend save it, and what *)
(* KInv says about the end of the work makes the others a rest.            *)
(***************************************************************************)
\* Tables with the same times are the same to SavedCopy.
LEMMA TimesOfSame ==
  ASSUME SameTimes(stored, sched), NEW w \in Tables
  PROVE Times(stored[w]) = Times(sched[w])
BY DEF SameTimes, Times

\* What makes a step one of SavedCopy, for the one table and for the other.
LEMMA WeekdayStep ==
  ASSUME \/ menu' # "closed" /\ Times(stored'["weekday"]) = Times(stored["weekday"])
         \/ /\ menu # "closed" /\ Times(stored'["weekday"]) = Times(sched["weekday"])
            /\ Times(sched'["weekday"]) = Times(sched["weekday"])
         \/ /\ menu' = "closed" /\ Times(stored'["weekday"]) = Times(stored["weekday"])
            /\ Times(sched'["weekday"]) = Times(stored["weekday"])
         \/ /\ menu' = menu /\ Times(stored'["weekday"]) = Times(stored["weekday"])
            /\ Times(sched'["weekday"]) = Times(sched["weekday"])
  PROVE [WeekdayCopy!Next]_WeekdayCopy!vars
BY Zenon DEF WeekdayCopy!Next, WeekdayCopy!vars, WeekdayCopy!Work, WeekdayCopy!Save,
             WeekdayCopy!PowerCut

LEMMA WeekendStep ==
  ASSUME \/ menu' # "closed" /\ Times(stored'["weekend"]) = Times(stored["weekend"])
         \/ /\ menu # "closed" /\ Times(stored'["weekend"]) = Times(sched["weekend"])
            /\ Times(sched'["weekend"]) = Times(sched["weekend"])
         \/ /\ menu' = "closed" /\ Times(stored'["weekend"]) = Times(stored["weekend"])
            /\ Times(sched'["weekend"]) = Times(stored["weekend"])
         \/ /\ menu' = menu /\ Times(stored'["weekend"]) = Times(stored["weekend"])
            /\ Times(sched'["weekend"]) = Times(sched["weekend"])
  PROVE [WeekendCopy!Next]_WeekendCopy!vars
BY Zenon DEF WeekendCopy!Next, WeekendCopy!vars, WeekendCopy!Work, WeekendCopy!Save,
             WeekendCopy!PowerCut

LEMMA StepsOfTables ==
  ASSUME TypeOK, KInv, [Next]_vars
  PROVE /\ [WeekdayCopy!Next]_WeekdayCopy!vars
        /\ [WeekendCopy!Next]_WeekendCopy!vars
<1> DEFINE Goal == /\ [WeekdayCopy!Next]_WeekdayCopy!vars
                   /\ [WeekendCopy!Next]_WeekendCopy!vars
<1>0. "closed" \notin Positions /\ "saving" \notin Positions /\ Tables = {"weekday", "weekend"}
  BY DEF Positions, Tables
<1>1. CASE menu' # "closed" /\ stored' = stored
  BY <1>1, WeekdayStep, WeekendStep, Zenon
<1>2. CASE UNCHANGED <<menu, sched, stored>>
  BY <1>2, WeekdayStep, WeekendStep, Zenon
<1>3. CASE Open
  BY <1>1, <1>3 DEF Open, tables
<1>4. ASSUME NEW to \in {BackTo, UpTo, DownTo, ForwardTo}, Move(to) PROVE Goal
  <2>1. menu' \in Positions /\ stored' = stored
    BY <1>4, MovesStay DEF Move, tables
  <2>2. QED BY <1>0, <1>1, <2>1
<1>5. ASSUME NEW d \in {1, SchedNum - 1}, OtherTable \/ OtherSlot(d) PROVE Goal
  BY <1>2, <1>5 DEF OtherTable, OtherSlot, tables
<1>6. CASE ToggleEnable \/ Adjust(1) \/ Adjust(-1)
  <2>1. menu' # "closed" /\ stored' = stored
    BY <1>6 DEF ToggleEnable, Adjust, FieldOf
  <2>2. QED BY <1>1, <2>1
<1>7. CASE Exit
  <2>1. menu # "closed" /\ sched' = sched
    BY <1>0, <1>7 DEF Exit
  <2>2. CASE changed
    <3>1. /\ menu' # "closed"
          /\ stored'["weekday"] = sched["weekday"] /\ stored'["weekend"] = stored["weekend"]
      BY <1>7, <2>2 DEF Exit, TypeOK, Schedules, Tables
    <3>2. QED BY <2>1, <3>1, WeekdayStep, WeekendStep, Zenon
  <2>3. CASE ~changed
    <3>1. SameTimes(stored, sched) /\ stored' = stored
      BY <1>7, <2>3 DEF Exit, KInv, Unchanged
    <3>2. /\ Times(stored["weekday"]) = Times(sched["weekday"])
          /\ Times(stored["weekend"]) = Times(sched["weekend"])
      BY <1>0, <3>1, TimesOfSame
    <3>3. QED BY <2>1, <3>1, <3>2, WeekdayStep, WeekendStep
  <2>4. QED BY <2>2, <2>3
<1>8. CASE SaveWeekend
  <2>1. menu # "closed" /\ sched' = sched /\ stored["weekday"] = sched["weekday"]
    BY <1>8 DEF SaveWeekend, KInv, HalfSaved
  <2>2. stored'["weekend"] = sched["weekend"] /\ stored'["weekday"] = stored["weekday"]
    BY <1>8 DEF SaveWeekend, TypeOK, Schedules, Tables
  <2>3. QED BY <2>1, <2>2, WeekdayStep, WeekendStep, Zenon
<1>9. ASSUME NEW b \in BOOLEAN, ScheduleFromApp(b) PROVE Goal
  BY <1>2, <1>9 DEF ScheduleFromApp, tables
<1>10. CASE PowerCut
  <2>1. menu' = "closed" /\ sched' = stored /\ stored' = stored
    BY <1>10 DEF PowerCut
  <2>2. QED BY <2>1, WeekdayStep, WeekendStep, Zenon
<1>11. CASE UNCHANGED vars
  BY <1>2, <1>11 DEF vars
<1>. QED
  BY <1>3, <1>4, <1>5, <1>6, <1>7, <1>8, <1>9, <1>10, <1>11 DEF Next, Keys

\* The calendar menu keeps the promise of SavedCopy for the times and the
\* temperatures of both tables, a power cut between the two writes included
\* (app.c:3893-3897).
THEOREM TablesAreKept == Spec => KeepsTimes
<1>1. Init => WeekdayCopy!Init /\ WeekendCopy!Init /\ KInv
  BY DEF Init, WeekdayCopy!Init, WeekendCopy!Init, KInv, Unchanged, HalfSaved, TimesKept,
         SameTimes
<1>2. TypeOK /\ KInv /\ [Next]_vars
        => [WeekdayCopy!Next]_WeekdayCopy!vars /\ [WeekendCopy!Next]_WeekendCopy!vars
  BY StepsOfTables
<1>3. QED BY <1>1, <1>2, NextKeeps, ScheduleTypes, PTL
          DEF Spec, KeepsTimes, WeekdayCopy!Spec, WeekendCopy!Spec

-----------------------------------------------------------------------------
(***************************************************************************)
(* The search for the nearest slots.  Min and Max are choices: that the    *)
(* sets of the search have a least and a greatest element comes from the   *)
(* well-foundedness of the naturals.  A slot is known by its number, by    *)
(* its day and the minute of that day, and by the minute of the week at    *)
(* which it begins; the lemmas below go from the one to the other.         *)
(***************************************************************************)
\* A set of naturals that is not empty has a least element, and Min is it.
LEMMA LeastOf ==
  ASSUME NEW T, T \subseteq Nat, T # {}
  PROVE Min(T) \in T /\ \A y \in T : Min(T) <= y
<1> DEFINE R == {ss \in Nat \X Nat : ss[1] < ss[2]}
<1>1. IsWellFoundedOn(R, Nat)
  <2>1. R = OpToRel(<, Nat)
    BY DEF OpToRel
  <2>2. QED BY <2>1, NatLessThanWellFounded
<1>2. \A x, y \in T : <<y, x>> \in R <=> y < x
  OBVIOUS
<1> HIDE DEF R
<1>3. PICK x \in T : \A y \in T : ~ (<<y, x>> \in R)
  BY <1>1, WFMin, Zenon
<1>4. ASSUME NEW y \in T PROVE x <= y
  <2>1. ~ (y < x)
    BY <1>2, <1>3, Zenon
  <2>2. x \in Nat /\ y \in Nat
    OBVIOUS
  <2>3. QED BY <2>1, <2>2
<1>5. QED BY <1>4 DEF Min

\* A set of naturals with an upper bound has a greatest one, and Max is it.
LEMMA GreatestOf ==
  ASSUME NEW n \in Nat, NEW T, T \subseteq 0..n, T # {}
  PROVE Max(T) \in T /\ \A y \in T : y <= Max(T)
<1> DEFINE S == {n - y : y \in T}
<1>1. S \subseteq Nat /\ S # {}
  <2>1. PICK y : y \in T
    OBVIOUS
  <2>2. n - y \in S
    BY <2>1
  <2>3. \A y1 \in T : n - y1 \in Nat
    OBVIOUS
  <2>4. QED BY <2>2, <2>3
<1> HIDE DEF S
<1>2. PICK s \in S : \A z \in S : s <= z
  BY <1>1, LeastOf
<1>3. PICK x \in T : s = n - x
  BY <1>2 DEF S
<1>4. ASSUME NEW y \in T PROVE y <= x
  <2>1. n - y \in S
    BY DEF S
  <2>2. s <= n - y
    BY <1>2, <2>1, Zenon
  <2>3. x \in Nat /\ y \in Nat
    OBVIOUS
  <2>4. QED BY <1>3, <2>2, <2>3
<1>5. QED BY <1>3, <1>4 DEF Max

\* The slots of a day are those whose number gives that day.
LEMMA DaysOfSlots ==
  ASSUME NEW j \in 0..(WeekSlots - 1)
  PROVE /\ DayOf(j) \in 0..6 /\ j % SchedNum \in SlotNums
        /\ DayOf(j) * SchedNum <= j /\ j < DayOf(j) * SchedNum + SchedNum
        /\ j = DayOf(j) * SchedNum + (j % SchedNum)
<1>1. SchedNum \in Nat \ {0}
  BY ScheduleAssumption
<1>2. j \div SchedNum \in Int /\ j % SchedNum \in 0..(SchedNum - 1)
  BY <1>1 DEF WeekSlots
<1>3. j = (j \div SchedNum) * SchedNum + (j % SchedNum)
  BY <1>1 DEF WeekSlots
<1>4. j \div SchedNum >= 0
  BY <1>1, <1>2, <1>3
<1>5. j \div SchedNum <= 6
  BY <1>1, <1>2, <1>3 DEF WeekSlots
<1>6. QED BY <1>1, <1>2, <1>3, <1>4, <1>5 DEF DayOf, SlotNums

\* Conversely, the slots that are counted from a day's first are that day's.
LEMMA SlotsOfDays ==
  ASSUME NEW day \in 0..6, NEW j \in SlotsOn(day)
  PROVE j \in 0..(WeekSlots - 1) /\ DayOf(j) = day
<1>1. SchedNum \in Nat \ {0}
  BY ScheduleAssumption
<1>2. /\ j \in Int /\ day * SchedNum \in Int
      /\ day * SchedNum <= j /\ j <= day * SchedNum + SchedNum - 1
  BY <1>1 DEF SlotsOn
<1>3. 0 <= day * SchedNum /\ day * SchedNum <= 6 * SchedNum
  BY <1>1
<1>4. j \in 0..(WeekSlots - 1)
  BY <1>1, <1>2, <1>3 DEF WeekSlots
<1>5. DayOf(j) \in 0..6 /\ DayOf(j) * SchedNum <= j /\ j < DayOf(j) * SchedNum + SchedNum
  BY <1>4, DaysOfSlots
<1> DEFINE d == DayOf(j)
<1> HIDE DEF d
<1>6. d \in 0..6 /\ d * SchedNum <= j /\ j < d * SchedNum + SchedNum
  BY <1>5 DEF d
<1>7. d = day
  <2>1. CASE d < day
    BY <1>1, <1>2, <1>6, <2>1
  <2>2. CASE d > day
    BY <1>1, <1>2, <1>6, <2>2
  <2>3. QED BY <1>6, <2>1, <2>2
<1>8. QED BY <1>4, <1>7 DEF d

-----------------------------------------------------------------------------
\* An hour and a minute of the ranges give a minute of the day.
LEMMA Lengths ==
  /\ DayLength \in Nat \ {0}
  /\ \A h \in 0..HourMax, m \in 0..MinuteMax : h * HourLength + m \in 0..(DayLength - 1)
<1>1. HourMax \in Nat /\ MinuteMax \in Nat
  BY ScheduleAssumption
<1>2. HourLength \in Nat \ {0} /\ HourLength = MinuteMax + 1
  BY <1>1 DEF HourLength
<1>3. DayLength = HourMax * HourLength + HourLength
  BY <1>1, <1>2 DEF DayLength
<1>4. HourMax * HourLength \in Nat
  BY <1>1, <1>2
<1>5. ASSUME NEW h \in 0..HourMax, NEW m \in 0..MinuteMax
      PROVE h * HourLength + m \in 0..(DayLength - 1)
  <2>1. h * HourLength \in Nat /\ h * HourLength <= HourMax * HourLength
    BY <1>1, <1>2
  <2>2. QED BY <1>1, <1>2, <1>3, <1>4, <2>1
<1>6. QED BY <1>2, <1>3, <1>4, <1>5

\* Whole days, of slots or of minutes, come one after the other.
LEMMA WholeDays ==
  ASSUME NEW n \in Nat, NEW a \in 0..6, NEW b \in 0..6
  PROVE /\ a * n \in Nat /\ b * n \in Nat
        /\ a < b => a * n + n <= b * n
BY SMTT(20)

\* Every number of the week has a slot, which begins within its day.
LEMMA EntryTypes ==
  ASSUME TypeOK, NEW j \in 0..(WeekSlots - 1)
  PROVE /\ Entry(j) \in Slots
        /\ Minute(j) \in 0..(DayLength - 1)
<1>1. j % SchedNum \in SlotNums
  BY DaysOfSlots
<1>2. Entry(j) \in Slots
  BY <1>1 DEF Entry, TypeOK, Schedules, Tables
<1>3. Entry(j).hour \in 0..HourMax /\ Entry(j).minute \in 0..MinuteMax
  BY <1>2 DEF Slots
<1>4. QED BY <1>2, <1>3, Lengths, Zenon DEF Minute

\* The minute of the week at which a slot begins.
Begin(j) == DayOf(j) * DayLength + Minute(j)

\* A slot begins within the week.
LEMMA BeginTypes ==
  ASSUME TypeOK, NEW j \in 0..(WeekSlots - 1)
  PROVE Begin(j) \in 0..(Week - 1)
<1>1. DayOf(j) \in 0..6 /\ Minute(j) \in 0..(DayLength - 1) /\ DayLength \in Nat
  BY DaysOfSlots, EntryTypes, Lengths
<1>2. DayOf(j) * DayLength \in Nat /\ DayOf(j) * DayLength <= 6 * DayLength
  BY <1>1
<1>3. QED BY <1>1, <1>2 DEF Begin, Week

\* The slots of the days before begin before, those of the days after begin
\* after, and those of the day at their minute of it.
LEMMA BeginOfDays ==
  ASSUME TypeOK, NEW j \in 0..(WeekSlots - 1), NEW day \in 0..6
  PROVE /\ day * SchedNum \in Nat /\ day * DayLength \in Nat
        /\ j < day * SchedNum <=> DayOf(j) < day
        /\ j >= day * SchedNum + SchedNum <=> DayOf(j) > day
        /\ DayOf(j) < day => Begin(j) < day * DayLength
        /\ DayOf(j) > day => Begin(j) >= day * DayLength + DayLength
        /\ DayOf(j) = day => Begin(j) = day * DayLength + Minute(j)
<1> DEFINE d == DayOf(j)
           m == Minute(j)
<1>1. /\ d \in 0..6 /\ d * SchedNum <= j /\ j < d * SchedNum + SchedNum
      /\ m \in 0..(DayLength - 1) /\ DayLength \in Nat /\ SchedNum \in Nat
      /\ j \in Nat
  BY DaysOfSlots, EntryTypes, Lengths, ScheduleAssumption DEF WeekSlots
<1>2. Begin(j) = d * DayLength + m
  BY DEF Begin
<1> HIDE DEF d, m
<1>3. day * SchedNum \in Nat /\ day * DayLength \in Nat
  BY <1>1, WholeDays
<1>4. CASE d < day
  <2>1. d * SchedNum + SchedNum <= day * SchedNum /\ d * DayLength + DayLength <= day * DayLength
    BY <1>1, <1>4, WholeDays
  <2>2. d * SchedNum \in Nat /\ d * DayLength \in Nat
    BY <1>1, WholeDays
  <2>3. QED BY <1>1, <1>2, <1>3, <1>4, <2>1, <2>2 DEF d
<1>5. CASE d > day
  <2>1. day * SchedNum + SchedNum <= d * SchedNum /\ day * DayLength + DayLength <= d * DayLength
    BY <1>1, <1>5, WholeDays
  <2>2. d * SchedNum \in Nat /\ d * DayLength \in Nat
    BY <1>1, WholeDays
  <2>3. QED BY <1>1, <1>2, <1>3, <1>5, <2>1, <2>2 DEF d
<1>6. CASE d = day
  BY <1>1, <1>2, <1>3, <1>6 DEF d, m
<1>7. QED BY <1>1, <1>4, <1>5, <1>6

\* In a schedule in order a later enabled slot begins later.
LEMMA BeginsInOrder ==
  ASSUME TypeOK, InOrder, NEW j \in Enabled, NEW k \in Enabled, j <= k
  PROVE Begin(j) <= Begin(k)
<1>1. j \in 0..(WeekSlots - 1) /\ k \in 0..(WeekSlots - 1) /\ Entry(j).en /\ Entry(k).en
  BY DEF Enabled
<1>2. j \in Nat /\ k \in Nat /\ SchedNum \in Nat /\ DayLength \in Nat
  BY <1>1, ScheduleAssumption, Lengths DEF WeekSlots
<1>3. DayOf(j) \in 0..6 /\ DayOf(k) \in 0..6
  BY <1>1, DaysOfSlots
<1>4. CASE DayOf(j) < DayOf(k)
  <2>1. /\ Begin(j) < DayOf(k) * DayLength /\ Begin(k) = DayOf(k) * DayLength + Minute(k)
        /\ DayOf(k) * DayLength \in Nat
    BY <1>1, <1>3, <1>4, BeginOfDays
  <2>2. Minute(k) \in 0..(DayLength - 1) /\ Begin(j) \in 0..(Week - 1)
    BY <1>1, EntryTypes, BeginTypes
  <2>3. QED BY <1>2, <2>1, <2>2
<1>5. CASE DayOf(k) < DayOf(j)
  <2>1. k < DayOf(j) * SchedNum /\ DayOf(j) * SchedNum <= j /\ DayOf(j) * SchedNum \in Nat
    BY <1>1, <1>3, <1>5, BeginOfDays, DaysOfSlots
  <2>2. QED BY <1>2, <2>1
<1>6. CASE DayOf(j) = DayOf(k)
  <2> DEFINE t == IF DayOf(j) \in {0, 6} THEN "weekend" ELSE "weekday"
             m == j % SchedNum
             n == k % SchedNum
  <2>1. /\ m \in SlotNums /\ n \in SlotNums /\ DayOf(j) * SchedNum \in Nat
        /\ j = DayOf(j) * SchedNum + m /\ k = DayOf(j) * SchedNum + n
    BY <1>1, <1>3, <1>6, DaysOfSlots, BeginOfDays
  <2>2. t \in Tables /\ Entry(j) = sched[t][m] /\ Entry(k) = sched[t][n]
    BY <1>6, Zenon DEF Entry, Tables
  <2> HIDE DEF t, m, n
  <2>3. m <= n /\ m \in Nat /\ n \in Nat
    BY <1>2, <2>1 DEF SlotNums
  <2>4. CASE m < n
    <3>1. Minute(j) <= Minute(k)
      BY <1>1, <2>1, <2>2, <2>4 DEF InOrder, Minute
    <3>2. Minute(j) \in 0..(DayLength - 1) /\ Minute(k) \in 0..(DayLength - 1)
      BY <1>1, EntryTypes
    <3>3. DayOf(j) * DayLength \in Nat
      BY <1>2, <1>3
    <3>4. QED BY <1>2, <1>6, <3>1, <3>2, <3>3 DEF Begin
  <2>5. CASE m = n
    <3>1. j = k
      BY <2>1, <2>5
    <3>2. Begin(j) \in 0..(Week - 1)
      BY <1>1, BeginTypes
    <3>3. QED BY <3>1, <3>2
  <2>6. QED BY <2>3, <2>4, <2>5
<1>7. QED BY <1>3, <1>4, <1>5, <1>6

-----------------------------------------------------------------------------
\* A slot is enabled on the other days of its kind, too.
LEMMA OtherDay ==
  ASSUME NEW j \in Enabled
  PROVE \E k \in Enabled : k # j
<1>1. j \in 0..(WeekSlots - 1) /\ Entry(j).en
  BY DEF Enabled
<1> DEFINE d == DayOf(j)
           m == j % SchedNum
           other == IF d = 0 THEN 6 ELSE IF d = 6 THEN 0 ELSE IF d = 1 THEN 2 ELSE 1
           k == other * SchedNum + m
<1>2. d \in 0..6 /\ m \in 0..(SchedNum - 1) /\ SchedNum \in Nat \ {0}
  BY <1>1, DaysOfSlots, ScheduleAssumption DEF SlotNums
<1>3. other \in 0..6 /\ other # d /\ (other \in {0, 6} <=> d \in {0, 6})
  BY <1>2
<1> HIDE DEF other
<1>4. k \in SlotsOn(other) /\ other * SchedNum \in Nat
  BY <1>2, <1>3, WholeDays DEF SlotsOn
<1>5. k \in 0..(WeekSlots - 1) /\ DayOf(k) = other
  BY <1>3, <1>4, SlotsOfDays
<1>6. k % SchedNum = m
  <2>1. k = other * SchedNum + (k % SchedNum)
    BY <1>5, DaysOfSlots, Zenon
  <2>2. k % SchedNum \in Nat
    BY <1>5, DaysOfSlots, <1>2 DEF SlotNums
  <2>3. QED BY <1>2, <1>4, <2>1, <2>2
<1>7. Entry(k) = Entry(j)
  BY <1>3, <1>5, <1>6, Zenon DEF Entry
<1>8. k \in Enabled /\ k # j
  BY <1>1, <1>3, <1>5, <1>7 DEF Enabled
<1>9. QED BY <1>8

\* What the search back finds, in terms of the numbers of the slots: the
\* last slot of today that has begun; or if none has, the last one before
\* today; or if there is none, the last one of the week.
PastIs(day, now, p) ==
  \/ /\ DayOf(p) = day /\ Minute(p) <= now
     /\ \A j \in Enabled : DayOf(j) = day /\ Minute(j) <= now => j <= p
  \/ /\ \A j \in Enabled : DayOf(j) = day => Minute(j) > now
     /\ \/ p < day * SchedNum /\ \A j \in Enabled : j < day * SchedNum => j <= p
        \/ \A j \in Enabled : j >= day * SchedNum /\ j <= p

\* The search goes back through all slots but the first one of today, which
\* is enabled on other days, too.
LEMMA Back ==
  ASSUME NEW day \in 0..6, NEW j \in 0..(WeekSlots - 1), j # day * SchedNum
  PROVE LET i == IF j < day * SchedNum THEN day * SchedNum - j
                 ELSE day * SchedNum - j + WeekSlots
        IN i \in 1..(WeekSlots - 1) /\ (day * SchedNum - i) % WeekSlots = j
<1> DEFINE n == day * SchedNum
<1>1. n \in Nat /\ n < WeekSlots /\ WeekSlots \in Nat /\ SchedNum \in Nat \ {0}
  <2>1. SchedNum \in Nat \ {0}
    BY ScheduleAssumption
  <2>2. n \in Nat /\ n <= 6 * SchedNum
    BY <2>1
  <2>3. QED BY <2>1, <2>2 DEF WeekSlots
<1> HIDE DEF n
<1>2. \A x \in 0..(WeekSlots - 1) : x % WeekSlots = x /\ (x - WeekSlots) % WeekSlots = x
  BY <1>1
<1>3. CASE j < n
  <2>1. n - j \in 1..(WeekSlots - 1) /\ n - (n - j) = j
    BY <1>1, <1>3
  <2>2. QED BY <1>2, <1>3, <2>1 DEF n
<1>4. CASE ~(j < n)
  <2>1. n - j + WeekSlots \in 1..(WeekSlots - 1) /\ n - (n - j + WeekSlots) = j - WeekSlots
    BY <1>1, <1>4 DEF n
  <2>2. QED BY <1>2, <1>4, <2>1 DEF n
<1>5. QED BY <1>3, <1>4

\* The search back finds that slot, and none only if none is enabled.
LEMMA PastFound ==
  ASSUME TypeOK, NEW day \in 0..6, NEW now \in Nat
  PROVE IF Enabled = {} THEN PastSlot(day, now) = -1
        ELSE PastSlot(day, now) \in Enabled /\ PastIs(day, now, PastSlot(day, now))
<1> DEFINE p == PastSlot(day, now)
           n == day * SchedNum
           today == {j \in SlotsOn(day) : Entry(j).en /\ Minute(j) <= now}
           back(i) == (n - i) % WeekSlots
           earlier == {i \in 1..(WeekSlots - 1) : Entry(back(i)).en}
           steps(j) == IF j < n THEN n - j ELSE n - j + WeekSlots
<1>1. /\ today # {} => p = Max(today)
      /\ today = {} /\ earlier # {} => p = back(Min(earlier))
      /\ today = {} /\ earlier = {} => p = -1
  BY DEF PastSlot
<1>2. /\ today \subseteq Enabled
      /\ \A j \in Enabled : DayOf(j) = day /\ Minute(j) <= now => j \in today
      /\ \A j \in today : DayOf(j) = day /\ Minute(j) <= now
  <2>1. SchedNum \in Nat \ {0} /\ n \in Nat
    BY ScheduleAssumption
  <2>2. \A j \in SlotsOn(day) : j \in 0..(WeekSlots - 1) /\ DayOf(j) = day
    BY SlotsOfDays
  <2>3. ASSUME NEW j \in Enabled, DayOf(j) = day PROVE j \in SlotsOn(day)
    <3>1. j \in 0..(WeekSlots - 1)
      BY DEF Enabled
    <3>2. n <= j /\ j < n + SchedNum
      BY <2>3, <3>1, DaysOfSlots, Zenon
    <3>3. QED BY <2>1, <3>1, <3>2 DEF SlotsOn
  <2>4. QED BY <2>2, <2>3, Zenon DEF Enabled
<1>3. /\ WeekSlots \in Nat \ {0} /\ n \in Nat /\ n < WeekSlots
      /\ Enabled \subseteq 0..(WeekSlots - 1)
      /\ earlier \subseteq Nat
  <2>1. SchedNum \in Nat \ {0}
    BY ScheduleAssumption
  <2>2. n \in Nat /\ n <= 6 * SchedNum
    BY <2>1
  <2>3. WeekSlots \in Nat \ {0} /\ n < WeekSlots
    BY <2>1, <2>2 DEF WeekSlots
  <2>4. earlier \subseteq Nat
    BY <2>3
  <2>5. QED BY <2>2, <2>3, <2>4 DEF Enabled
<1>4. ASSUME NEW j \in Enabled, j # n PROVE steps(j) \in earlier /\ back(steps(j)) = j
  BY <1>4, Back DEF Enabled
<1> HIDE DEF n
<1>5. ASSUME NEW i \in earlier PROVE back(i) \in Enabled /\ back(i) # n /\ i = steps(back(i))
  <2>1. i \in 1..(WeekSlots - 1) /\ Entry(back(i)).en
    OBVIOUS
  <2>2. back(i) = IF i <= n THEN n - i ELSE n - i + WeekSlots
    <3>1. \A x \in 0..(WeekSlots - 1) : x % WeekSlots = x /\ (x - WeekSlots) % WeekSlots = x
      BY <1>3
    <3>2. CASE i <= n
      <4>1. n - i \in 0..(WeekSlots - 1)
        BY <1>3, <2>1, <3>2
      <4>2. QED BY <3>1, <3>2, <4>1
    <3>3. CASE ~(i <= n)
      <4>1. n - i + WeekSlots \in 0..(WeekSlots - 1) /\ n - i = (n - i + WeekSlots) - WeekSlots
        BY <1>3, <2>1, <3>3
      <4>2. QED BY <3>1, <3>3, <4>1
    <3>4. QED BY <3>2, <3>3
  <2> HIDE DEF back
  <2>3. back(i) \in 0..(WeekSlots - 1) /\ back(i) # n /\ i = steps(back(i))
    BY <1>3, <2>1, <2>2
  <2>4. QED BY <2>1, <2>3 DEF Enabled
<1> HIDE DEF p, n, today, back, earlier
<1>6. CASE today # {}
  <2>1. p \in today /\ \A j \in today : j <= p
    <3>1. today \subseteq 0..(WeekSlots - 1)
      BY <1>2, <1>3
    <3>2. WeekSlots - 1 \in Nat
      BY <1>3
    <3>3. QED BY <1>1, <1>6, <3>1, <3>2, GreatestOf, Zenon
  <2>2. QED BY <1>2, <2>1, Zenon DEF PastIs, p
<1>7. CASE today = {} /\ earlier # {}
  <2>1. Min(earlier) \in earlier /\ \A i \in earlier : Min(earlier) <= i
    BY <1>3, <1>7, LeastOf, Zenon
  <2>2. /\ p \in Enabled /\ p # n
        /\ \A j \in Enabled : j # n => steps(p) <= steps(j)
    <3>1. p = back(Min(earlier))
      BY <1>1, <1>7
    <3>2. p \in Enabled /\ p # n /\ Min(earlier) = steps(p)
      BY <1>5, <2>1, <3>1, Zenon
    <3>3. QED BY <1>4, <2>1, <3>2, Zenon
  <2>3. \A j \in Enabled : DayOf(j) = day => Minute(j) > now
    <3>1. ASSUME NEW j \in Enabled, DayOf(j) = day PROVE Minute(j) > now
      <4>1. ~(Minute(j) <= now)
        BY <1>2, <1>7, <3>1, Zenon
      <4>2. Minute(j) \in 0..(DayLength - 1)
        BY EntryTypes DEF Enabled
      <4>3. QED BY <4>1, <4>2, Lengths
    <3>2. QED BY <3>1
  <2>4. CASE p < n
    <3>1. ASSUME NEW j \in Enabled, j < n PROVE j <= p
      BY <1>3, <2>2, <2>4, <3>1
    <3>2. QED BY <2>2, <2>3, <2>4, <3>1, Zenon DEF PastIs, p, n
  <2>5. CASE ~(p < n)
    <3>1. ASSUME NEW j \in Enabled PROVE j >= n /\ j <= p
      BY <1>3, <2>2, <2>5
    <3>2. QED BY <2>2, <2>3, <3>1, Zenon DEF PastIs, p, n
  <2>6. QED BY <2>4, <2>5
<1>8. CASE today = {} /\ earlier = {}
  <2>1. ASSUME NEW j \in Enabled PROVE FALSE
    <3>1. PICK k \in Enabled : k # j
      BY OtherDay
    <3>2. QED BY <1>4, <1>8, <3>1
  <2>2. QED BY <1>1, <1>8, <2>1 DEF p
<1>9. QED
  <2>1. today # {} => Enabled # {}
    BY <1>2
  <2>2. earlier # {} => Enabled # {}
    BY <1>5
  <2>3. QED BY <1>6, <1>7, <1>8, <2>1, <2>2 DEF p

\* What the search forward finds: the first slot of today that is not over;
\* or if all are, the first one after today; or if there is none, the first
\* one of the week.
NextIs(day, now, n) ==
  \/ /\ DayOf(n) = day /\ Minute(n) >= now
     /\ \A j \in Enabled : DayOf(j) = day /\ Minute(j) >= now => n <= j
  \/ /\ \A j \in Enabled : DayOf(j) = day => Minute(j) < now
     /\ \/ /\ n >= day * SchedNum + SchedNum
           /\ \A j \in Enabled : j >= day * SchedNum + SchedNum => n <= j
        \/ \A j \in Enabled : j < day * SchedNum + SchedNum /\ n <= j

\* The search forward finds that slot, and none only if none is enabled.
LEMMA NextFound ==
  ASSUME TypeOK, NEW day \in 0..6, NEW now \in Nat
  PROVE IF Enabled = {} THEN NextSlot(day, now) = -1
        ELSE NextSlot(day, now) \in Enabled /\ NextIs(day, now, NextSlot(day, now))
<1> DEFINE p == NextSlot(day, now)
           n == day * SchedNum
           e == n + SchedNum - 1
           today == {j \in SlotsOn(day) : Entry(j).en /\ Minute(j) >= now}
           ahead(i) == ((day + 1) * SchedNum + i - 1) % WeekSlots
           later == {i \in 1..(WeekSlots - 1) : Entry(ahead(i)).en}
           steps(j) == IF j > e THEN j - e ELSE j - e + WeekSlots
<1>1. /\ today # {} => p = Min(today)
      /\ today = {} /\ later # {} => p = ahead(Min(later))
      /\ today = {} /\ later = {} => p = -1
  BY DEF NextSlot
<1>2. /\ today \subseteq Enabled
      /\ \A j \in Enabled : DayOf(j) = day /\ Minute(j) >= now => j \in today
      /\ \A j \in today : DayOf(j) = day /\ Minute(j) >= now
  <2>1. SchedNum \in Nat \ {0} /\ n \in Nat
    BY ScheduleAssumption
  <2>2. \A j \in SlotsOn(day) : j \in 0..(WeekSlots - 1) /\ DayOf(j) = day
    BY SlotsOfDays
  <2>3. ASSUME NEW j \in Enabled, DayOf(j) = day PROVE j \in SlotsOn(day)
    <3>1. j \in 0..(WeekSlots - 1)
      BY DEF Enabled
    <3>2. n <= j /\ j < n + SchedNum
      BY <2>3, <3>1, DaysOfSlots, Zenon
    <3>3. QED BY <2>1, <3>1, <3>2 DEF SlotsOn
  <2>4. QED BY <2>2, <2>3, Zenon DEF Enabled
<1>3. /\ WeekSlots \in Nat \ {0} /\ n \in Nat /\ SchedNum \in Nat \ {0}
      /\ e \in Nat /\ e < WeekSlots
      /\ Enabled \subseteq 0..(WeekSlots - 1)
      /\ later \subseteq Nat
  <2>1. SchedNum \in Nat \ {0}
    BY ScheduleAssumption
  <2>2. n \in Nat /\ n <= 6 * SchedNum
    BY <2>1
  <2>3. WeekSlots \in Nat \ {0} /\ e \in Nat /\ e < WeekSlots
    BY <2>1, <2>2 DEF WeekSlots
  <2>4. later \subseteq Nat
    BY <2>3
  <2>5. QED BY <2>1, <2>2, <2>3, <2>4 DEF Enabled
<1>4. \A i \in Int : ahead(i) = (e + i) % WeekSlots
  <2>1. ASSUME NEW i \in Int PROVE (day + 1) * SchedNum + i - 1 = e + i
    <3>1. (day + 1) * SchedNum = n + SchedNum
      BY <1>3
    <3>2. QED BY <1>3, <3>1
  <2>2. QED BY <2>1
<1>5. \A x \in 0..(WeekSlots - 1) : x % WeekSlots = x /\ (x + WeekSlots) % WeekSlots = x
  BY <1>3
<1> HIDE DEF n, e, ahead
<1>6. ASSUME NEW j \in Enabled, j # e PROVE steps(j) \in later /\ ahead(steps(j)) = j
  <2>1. j \in 0..(WeekSlots - 1) /\ Entry(j).en
    BY DEF Enabled
  <2>2. CASE j > e
    <3>1. j - e \in 1..(WeekSlots - 1) /\ e + (j - e) = j /\ j - e \in Int
      BY <1>3, <2>1, <2>2
    <3>2. ahead(j - e) = j
      BY <1>4, <1>5, <2>1, <3>1
    <3>3. QED BY <2>1, <2>2, <3>1, <3>2
  <2>3. CASE ~(j > e)
    <3>1. /\ j - e + WeekSlots \in 1..(WeekSlots - 1) /\ e + (j - e + WeekSlots) = j + WeekSlots
          /\ j - e + WeekSlots \in Int
      BY <1>3, <1>6, <2>1, <2>3
    <3>2. ahead(j - e + WeekSlots) = j
      BY <1>4, <1>5, <2>1, <3>1
    <3>3. QED BY <2>1, <2>3, <3>1, <3>2
  <2>4. QED BY <2>2, <2>3
<1>7. ASSUME NEW i \in later PROVE ahead(i) \in Enabled /\ ahead(i) # e /\ i = steps(ahead(i))
  <2>1. i \in 1..(WeekSlots - 1) /\ Entry(ahead(i)).en
    OBVIOUS
  <2>2. ahead(i) = IF e + i < WeekSlots THEN e + i ELSE e + i - WeekSlots
    <3>1. i \in Int
      BY <1>3, <2>1
    <3>2. CASE e + i < WeekSlots
      <4>1. e + i \in 0..(WeekSlots - 1)
        BY <1>3, <2>1, <3>2
      <4>2. QED BY <1>4, <1>5, <3>1, <3>2, <4>1
    <3>3. CASE ~(e + i < WeekSlots)
      <4>1. e + i - WeekSlots \in 0..(WeekSlots - 1) /\ e + i = (e + i - WeekSlots) + WeekSlots
        BY <1>3, <2>1, <3>3
      <4>2. QED BY <1>4, <1>5, <3>1, <3>3, <4>1
    <3>4. QED BY <3>2, <3>3
  <2>3. ahead(i) \in 0..(WeekSlots - 1) /\ ahead(i) # e /\ i = steps(ahead(i))
    BY <1>3, <2>1, <2>2
  <2>4. QED BY <2>1, <2>3 DEF Enabled
<1> HIDE DEF p, today, later
<1>8. CASE today # {}
  <2>1. p \in today /\ \A j \in today : p <= j
    <3>1. today \subseteq Nat
      BY <1>2, <1>3
    <3>2. QED BY <1>1, <1>8, <3>1, LeastOf, Zenon
  <2>2. QED BY <1>2, <2>1, Zenon DEF NextIs, p
<1>9. CASE today = {} /\ later # {}
  <2>1. Min(later) \in later /\ \A i \in later : Min(later) <= i
    BY <1>3, <1>9, LeastOf, Zenon
  <2>2. /\ p \in Enabled /\ p # e
        /\ \A j \in Enabled : j # e => steps(p) <= steps(j)
    <3>1. p = ahead(Min(later))
      BY <1>1, <1>9
    <3>2. p \in Enabled /\ p # e /\ Min(later) = steps(p)
      BY <1>7, <2>1, <3>1, Zenon
    <3>3. QED BY <1>6, <2>1, <3>2, Zenon
  <2>3. \A j \in Enabled : DayOf(j) = day => Minute(j) < now
    <3>1. ASSUME NEW j \in Enabled, DayOf(j) = day PROVE Minute(j) < now
      <4>1. ~(Minute(j) >= now)
        BY <1>2, <1>9, <3>1, Zenon
      <4>2. Minute(j) \in 0..(DayLength - 1)
        BY EntryTypes DEF Enabled
      <4>3. QED BY <4>1, <4>2, Lengths
    <3>2. QED BY <3>1
  <2>4. \A j \in Enabled : j > e <=> j >= n + SchedNum
    BY <1>3 DEF e
  <2>5. CASE p > e
    <3>1. ASSUME NEW j \in Enabled, j > e PROVE p <= j
      BY <1>3, <2>2, <2>5, <3>1
    <3>2. QED BY <2>2, <2>3, <2>4, <2>5, <3>1, Zenon DEF NextIs, p, n
  <2>6. CASE ~(p > e)
    <3>1. ASSUME NEW j \in Enabled PROVE j < n + SchedNum /\ p <= j
      <4>1. ~(j > e) /\ p <= j
        BY <1>3, <2>2, <2>6
      <4>2. QED BY <1>3, <4>1 DEF e
    <3>2. QED BY <2>2, <2>3, <3>1, Zenon DEF NextIs, p, n
  <2>7. QED BY <2>5, <2>6
<1>10. CASE today = {} /\ later = {}
  <2>1. ASSUME NEW j \in Enabled PROVE FALSE
    <3>1. PICK k \in Enabled : k # j
      BY OtherDay
    <3>2. QED BY <1>6, <1>10, <3>1
  <2>2. QED BY <1>1, <1>10, <2>1 DEF p
<1>11. QED
  <2>1. today # {} => Enabled # {}
    BY <1>2
  <2>2. later # {} => Enabled # {}
    BY <1>7
  <2>3. QED BY <1>8, <1>9, <1>10, <2>1, <2>2 DEF p

-----------------------------------------------------------------------------
\* The ages and waits go once round the week.
LEMMA RoundTheWeek ==
  ASSUME TypeOK, NEW day \in 0..6, NEW now \in 0..(DayLength - 1), NEW j \in Enabled
  PROVE LET t == day * DayLength + now
        IN /\ t \in 0..(Week - 1) /\ Begin(j) \in 0..(Week - 1)
           /\ Age(day, now, j) = IF Begin(j) <= t THEN t - Begin(j) ELSE t - Begin(j) + Week
           /\ Wait(day, now, j) = IF Begin(j) >= t THEN Begin(j) - t ELSE Begin(j) - t + Week
<1> DEFINE t == day * DayLength + now
           b == Begin(j)
<1>1. DayLength \in Nat \ {0} /\ j \in 0..(WeekSlots - 1)
  BY Lengths DEF Enabled
<1>2. day * DayLength \in Nat /\ day * DayLength <= 6 * DayLength
  BY <1>1
<1>3. t \in 0..(Week - 1) /\ b \in 0..(Week - 1) /\ Week \in Nat \ {0}
  BY <1>1, <1>2, BeginTypes DEF Week
<1>4. /\ Age(day, now, j) = (t - b) % Week
      /\ Wait(day, now, j) = (b - t) % Week
  <2>1. DayOf(j) * DayLength \in Nat /\ Minute(j) \in Nat
    BY <1>1, DaysOfSlots, EntryTypes, WholeDays
  <2>2. /\ day * DayLength + now - DayOf(j) * DayLength - Minute(j) = t - b
        /\ DayOf(j) * DayLength + Minute(j) - day * DayLength - now = b - t
    BY <1>1, <1>2, <2>1 DEF Begin
  <2>3. QED BY <2>2 DEF Age, Wait
<1> HIDE DEF t, b
<1>5. \A x \in 0..(Week - 1) : x % Week = x /\ (x - Week) % Week = x
  BY <1>3
<1>6. \A x, y \in 0..(Week - 1) : (x - y) % Week = IF y <= x THEN x - y ELSE x - y + Week
  <2>1. ASSUME NEW x \in 0..(Week - 1), NEW y \in 0..(Week - 1), y <= x
        PROVE (x - y) % Week = x - y
    <3>1. x - y \in 0..(Week - 1)
      BY <1>3, <2>1
    <3>2. QED BY <1>5, <3>1
  <2>2. ASSUME NEW x \in 0..(Week - 1), NEW y \in 0..(Week - 1), ~(y <= x)
        PROVE (x - y) % Week = x - y + Week
    <3>1. x - y + Week \in 0..(Week - 1) /\ x - y = (x - y + Week) - Week
      BY <1>3, <2>2
    <3>2. QED BY <1>5, <3>1
  <2>3. QED BY <2>1, <2>2
<1>7. b >= t <=> t <= b
  BY <1>3
<1>8. QED BY <1>3, <1>4, <1>6, <1>7 DEF t, b

\* The enabled slots around a moment, by their days and by their numbers.
LEMMA Around ==
  ASSUME TypeOK, NEW day \in 0..6, NEW now \in 0..(DayLength - 1), NEW k \in Enabled
  PROVE LET t == day * DayLength + now
        IN /\ k \in Nat /\ DayOf(k) \in 0..6 /\ Minute(k) \in Nat
           /\ Begin(k) <= t <=> DayOf(k) < day \/ (DayOf(k) = day /\ Minute(k) <= now)
           /\ Begin(k) >= t <=> DayOf(k) > day \/ (DayOf(k) = day /\ Minute(k) >= now)
           /\ k < day * SchedNum <=> DayOf(k) < day
           /\ k >= day * SchedNum + SchedNum <=> DayOf(k) > day
           /\ day * SchedNum \in Nat /\ Begin(k) \in Nat
<1>1. k \in 0..(WeekSlots - 1)
  BY DEF Enabled
<1>2. DayOf(k) \in 0..6 /\ Minute(k) \in 0..(DayLength - 1) /\ Begin(k) \in 0..(Week - 1)
  BY <1>1, DaysOfSlots, EntryTypes, BeginTypes
<1>3. /\ day * SchedNum \in Nat /\ day * DayLength \in Nat
      /\ k < day * SchedNum <=> DayOf(k) < day
      /\ k >= day * SchedNum + SchedNum <=> DayOf(k) > day
      /\ DayOf(k) < day => Begin(k) < day * DayLength
      /\ DayOf(k) > day => Begin(k) >= day * DayLength + DayLength
      /\ DayOf(k) = day => Begin(k) = day * DayLength + Minute(k)
  BY <1>1, BeginOfDays
<1>4. k \in Nat /\ DayLength \in Nat
  BY <1>1, Lengths
<1>5. QED BY <1>2, <1>3, <1>4

\* In a schedule in order no enabled slot began later than the one found.
LEMMA PastIsNearest ==
  ASSUME TypeOK, InOrder, NEW day \in 0..6, NEW now \in 0..(DayLength - 1),
         NEW p \in Enabled, PastIs(day, now, p), NEW j \in Enabled
  PROVE Age(day, now, p) <= Age(day, now, j)
<1> DEFINE t == day * DayLength + now
<1>1. /\ t \in 0..(Week - 1) /\ Begin(p) \in 0..(Week - 1) /\ Begin(j) \in 0..(Week - 1)
      /\ Age(day, now, p) = IF Begin(p) <= t THEN t - Begin(p) ELSE t - Begin(p) + Week
      /\ Age(day, now, j) = IF Begin(j) <= t THEN t - Begin(j) ELSE t - Begin(j) + Week
      /\ Week \in Nat
  <2>1. Week \in Nat
    BY Lengths DEF Week
  <2>2. QED BY <2>1, RoundTheWeek, Zenon
<1>2. SUFFICES \/ Begin(p) <= t /\ (Begin(j) <= t => Begin(j) <= Begin(p))
               \/ Begin(p) > t /\ Begin(j) > t /\ Begin(j) <= Begin(p)
  BY <1>1
<1>3. ASSUME NEW k \in Enabled
      PROVE /\ k \in Nat /\ DayOf(k) \in 0..6 /\ Minute(k) \in Nat
            /\ Begin(k) <= t <=> DayOf(k) < day \/ (DayOf(k) = day /\ Minute(k) <= now)
            /\ k < day * SchedNum <=> DayOf(k) < day
            /\ k >= day * SchedNum + SchedNum <=> DayOf(k) > day
            /\ day * SchedNum \in Nat /\ Begin(k) \in Nat
  BY Around, Zenon
<1> HIDE DEF t
<1>4. SchedNum \in Nat \ {0} /\ day \in Nat /\ now \in Int
  BY ScheduleAssumption, Lengths
<1>5. CASE /\ DayOf(p) = day /\ Minute(p) <= now
           /\ \A k \in Enabled : DayOf(k) = day /\ Minute(k) <= now => k <= p
  <2>1. Begin(p) <= t
    BY <1>3, <1>5
  <2>2. ASSUME Begin(j) <= t PROVE j <= p
    <3>1. CASE DayOf(j) < day
      BY <1>3, <1>5, <3>1
    <3>2. CASE DayOf(j) = day /\ Minute(j) <= now
      BY <1>5, <3>2
    <3>3. QED BY <1>3, <2>2, <3>1, <3>2
  <2>3. QED BY <2>1, <2>2, BeginsInOrder
<1>6. CASE /\ \A k \in Enabled : DayOf(k) = day => Minute(k) > now
           /\ p < day * SchedNum /\ \A k \in Enabled : k < day * SchedNum => k <= p
  <2>1. Begin(p) <= t
    BY <1>3, <1>6
  <2>2. ASSUME Begin(j) <= t PROVE j <= p
    BY <1>3, <1>4, <1>6, <2>2
  <2>3. QED BY <2>1, <2>2, BeginsInOrder
<1>7. CASE /\ \A k \in Enabled : DayOf(k) = day => Minute(k) > now
           /\ \A k \in Enabled : k >= day * SchedNum /\ k <= p
  <2>1. ASSUME NEW k \in Enabled PROVE Begin(k) > t
    <3>1. ~(Begin(k) <= t)
      BY <1>3, <1>4, <1>7
    <3>2. QED BY <1>1, <1>3, <3>1
  <2>2. QED BY <1>7, <2>1, BeginsInOrder
<1>8. QED BY <1>5, <1>6, <1>7, Zenon DEF PastIs

\* Nor does any begin before the one that is found ahead.
LEMMA NextIsNearest ==
  ASSUME TypeOK, InOrder, NEW day \in 0..6, NEW now \in 0..(DayLength - 1),
         NEW n \in Enabled, NextIs(day, now, n), NEW j \in Enabled
  PROVE Wait(day, now, n) <= Wait(day, now, j)
<1> DEFINE t == day * DayLength + now
<1>1. /\ t \in 0..(Week - 1) /\ Begin(n) \in 0..(Week - 1) /\ Begin(j) \in 0..(Week - 1)
      /\ Wait(day, now, n) = IF Begin(n) >= t THEN Begin(n) - t ELSE Begin(n) - t + Week
      /\ Wait(day, now, j) = IF Begin(j) >= t THEN Begin(j) - t ELSE Begin(j) - t + Week
      /\ Week \in Nat
  <2>1. Week \in Nat
    BY Lengths DEF Week
  <2>2. QED BY <2>1, RoundTheWeek, Zenon
<1>2. SUFFICES \/ Begin(n) >= t /\ (Begin(j) >= t => Begin(n) <= Begin(j))
               \/ Begin(n) < t /\ Begin(j) < t /\ Begin(n) <= Begin(j)
  BY <1>1
<1>3. ASSUME NEW k \in Enabled
      PROVE /\ k \in Nat /\ DayOf(k) \in 0..6 /\ Minute(k) \in Nat
            /\ Begin(k) >= t <=> DayOf(k) > day \/ (DayOf(k) = day /\ Minute(k) >= now)
            /\ k < day * SchedNum <=> DayOf(k) < day
            /\ k >= day * SchedNum + SchedNum <=> DayOf(k) > day
            /\ day * SchedNum \in Nat /\ Begin(k) \in Nat
  BY Around, Zenon
<1> HIDE DEF t
<1>4. SchedNum \in Nat \ {0} /\ day \in Nat /\ now \in Int
  BY ScheduleAssumption, Lengths
<1>5. CASE /\ DayOf(n) = day /\ Minute(n) >= now
           /\ \A k \in Enabled : DayOf(k) = day /\ Minute(k) >= now => n <= k
  <2>1. Begin(n) >= t
    BY <1>3, <1>5
  <2>2. ASSUME Begin(j) >= t PROVE n <= j
    <3>1. CASE DayOf(j) > day
      BY <1>3, <1>4, <1>5, <3>1
    <3>2. CASE DayOf(j) = day /\ Minute(j) >= now
      BY <1>5, <3>2
    <3>3. QED BY <1>3, <2>2, <3>1, <3>2
  <2>3. QED BY <2>1, <2>2, BeginsInOrder
<1>6. CASE /\ \A k \in Enabled : DayOf(k) = day => Minute(k) < now
           /\ n >= day * SchedNum + SchedNum
           /\ \A k \in Enabled : k >= day * SchedNum + SchedNum => n <= k
  <2>1. Begin(n) >= t
    BY <1>3, <1>6
  <2>2. ASSUME Begin(j) >= t PROVE n <= j
    BY <1>3, <1>4, <1>6, <2>2
  <2>3. QED BY <2>1, <2>2, BeginsInOrder
<1>7. CASE /\ \A k \in Enabled : DayOf(k) = day => Minute(k) < now
           /\ \A k \in Enabled : k < day * SchedNum + SchedNum /\ n <= k
  <2>1. ASSUME NEW k \in Enabled PROVE Begin(k) < t
    <3>1. ~(Begin(k) >= t)
      BY <1>3, <1>4, <1>7
    <3>2. QED BY <1>1, <1>3, <3>1
  <2>2. QED BY <1>7, <2>1, BeginsInOrder
<1>8. QED BY <1>5, <1>6, <1>7, Zenon DEF NextIs

\* Whatever the tables hold, the searches find the nearest slots.
LEMMA SearchIsRight == TypeOK => NearestSlots
<1> SUFFICES ASSUME TypeOK PROVE NearestPast /\ NearestNext
  BY DEF NearestSlots
<1>1. ASSUME NEW m \in Moments PROVE m[1] \in 0..6 /\ m[2] \in 0..(DayLength - 1) /\ m[2] \in Nat
  <2>1. m[1] \in 0..6 /\ m[2] \in 0..(DayLength - 1)
    BY DEF Moments
  <2>2. QED BY <2>1, Lengths
<1>2. NearestPast
  BY <1>1, PastFound, PastIsNearest, Zenon DEF NearestPast
<1>3. NearestNext
  BY <1>1, NextFound, NextIsNearest, Zenon DEF NearestNext
<1>4. QED BY <1>2, <1>3

\* A slot that is found round the end of the week is the slot on the other
\* side, too, if the two are of the same week.
LEMMA SidesOfMoment ==
  ASSUME TypeOK, NEW day \in 0..6, NEW now \in 0..(DayLength - 1),
         NEW p \in Enabled, PastIs(day, now, p), NEW n \in Enabled, NextIs(day, now, n), p <= n
  PROVE LET t == day * DayLength + now
        IN \/ n = p
           \/ /\ Begin(p) <= t /\ t <= Begin(n)
              /\ DayOf(p) <= day /\ day <= DayOf(n)
<1> DEFINE t == day * DayLength + now
<1>1. /\ p \in Nat /\ DayOf(p) \in 0..6
      /\ Begin(p) <= t <=> DayOf(p) < day \/ (DayOf(p) = day /\ Minute(p) <= now)
      /\ p < day * SchedNum <=> DayOf(p) < day
      /\ Begin(p) \in Nat
  BY Around, Zenon
<1>2. /\ n \in Nat /\ DayOf(n) \in 0..6
      /\ Begin(n) >= t <=> DayOf(n) > day \/ (DayOf(n) = day /\ Minute(n) >= now)
      /\ n >= day * SchedNum + SchedNum <=> DayOf(n) > day
      /\ Begin(n) \in Nat
  BY Around, Zenon
<1>3. t \in 0..(Week - 1)
  BY RoundTheWeek, Zenon
<1> HIDE DEF t
<1>4. \/ \A k \in Enabled : k <= p
      \/ Begin(p) <= t /\ DayOf(p) <= day
  BY <1>1 DEF PastIs
<1>5. \/ \A k \in Enabled : n <= k
      \/ Begin(n) >= t /\ DayOf(n) >= day
  BY <1>2 DEF NextIs
<1>6. CASE n <= p
  BY <1>1, <1>2, <1>6
<1>7. CASE ~(n <= p)
  <2>1. Begin(p) <= t /\ DayOf(p) <= day /\ Begin(n) >= t /\ DayOf(n) >= day
    BY <1>4, <1>5, <1>7, Zenon
  <2>2. QED BY <1>1, <1>2, <1>3, <2>1 DEF t
<1>8. QED BY <1>6, <1>7

\* A part of the way takes a part of the rise: the division rounds it down,
\* up or down the rise goes, and never turns it round.
LEMMA PartOfRise ==
  ASSUME NEW part \in Nat, NEW whole \in Nat \ {0}, part <= whole, NEW rise \in Int
  PROVE /\ rise >= 0 => Quotient(part * rise, whole) \in 0..rise
        /\ rise < 0 => Quotient(part * rise, whole) \in rise..0
<1>1. ASSUME NEW r \in Nat PROVE (part * r) \div whole \in 0..r
  <2> DEFINE q == (part * r) \div whole
             rest == (part * r) % whole
  <2>1. part * r \in Nat /\ part * r <= whole * r
    BY <1>1
  <2>2. q \in Int /\ rest \in 0..(whole - 1) /\ part * r = whole * q + rest
    BY <2>1
  <2> HIDE DEF q, rest
  <2>3. q >= 0
    <3>1. CASE q <= -1
      <4>1. whole * q <= -whole
        BY <2>2, <3>1
      <4>2. QED BY <2>1, <2>2, <4>1
    <3>2. QED BY <2>2, <3>1
  <2>4. q <= r
    <3>1. CASE q >= r + 1
      <4>1. whole * q >= whole * r + whole
        BY <2>2, <3>1
      <4>2. QED BY <2>1, <2>2, <4>1
    <3>2. QED BY <2>2, <3>1
  <2>5. QED BY <2>2, <2>3, <2>4 DEF q
<1>2. CASE rise >= 0
  <2>1. part * rise >= 0 /\ rise \in Nat /\ part * rise \in Int
    BY <1>2
  <2>2. Magnitude(part * rise) = part * rise /\ Magnitude(whole) = whole
    BY <2>1 DEF Magnitude
  <2>3. Quotient(part * rise, whole) = (part * rise) \div whole
    BY <2>1, <2>2 DEF Quotient
  <2>4. QED BY <1>1, <1>2, <2>1, <2>3
<1>3. CASE rise < 0
  <2> DEFINE r == -rise
             x == part * rise
  <2>1. r \in Nat /\ x \in Int /\ x = -(part * r) /\ part * r \in Nat
    BY <1>3
  <2>2. (part * r) \div whole \in 0..r
    BY <1>1, <2>1
  <2> HIDE DEF x
  <2>3. Magnitude(x) = part * r /\ Magnitude(whole) = whole
    BY <2>1 DEF Magnitude
  <2>4. CASE x < 0
    <3>1. Quotient(x, whole) = -((part * r) \div whole)
      BY <2>3, <2>4 DEF Quotient
    <3>2. QED BY <1>3, <2>2, <3>1 DEF x
  <2>5. CASE x = 0
    <3>1. part * r = 0
      BY <2>1, <2>5
    <3>2. (part * r) \div whole = 0
      BY <3>1
    <3>3. Quotient(x, whole) = 0
      BY <2>3, <2>5, <3>2 DEF Quotient
    <3>4. QED BY <1>3, <3>3 DEF x
  <2>6. QED BY <2>1, <2>4, <2>5
<1>4. QED BY <1>2, <1>3

\* With the moment between the two slots the target is between theirs.
LEMMA InBetween ==
  ASSUME TypeOK, NEW day \in 0..6, NEW now \in 0..(DayLength - 1),
         NEW p \in Enabled, NEW n \in Enabled,
         LET t == day * DayLength + now
         IN \/ n = p
            \/ /\ Begin(p) <= t /\ t <= Begin(n)
               /\ DayOf(p) <= day /\ day <= DayOf(n)
  PROVE Between(Interpolated(day, now, p, n), Entry(p).temp, Entry(n).temp)
<1> DEFINE t == day * DayLength + now
           elapsed == now - Minute(p) + DaysFrom(DayOf(p), day) * DayLength
           span == Minute(n) - Minute(p) + DaysFrom(DayOf(p), DayOf(n)) * DayLength
           rise == Entry(n).temp - Entry(p).temp
<1>1. Entry(p).temp \in Int /\ Entry(n).temp \in Int
  <2>1. Entry(p) \in Slots /\ Entry(n) \in Slots
    BY EntryTypes DEF Enabled
  <2>2. QED BY <2>1, ScheduleAssumption DEF Slots
<1>2. Interpolated(day, now, p, n) =
        IF Minute(n) = Minute(p) \/ span = 0
        THEN Entry(p).temp ELSE Entry(p).temp + Quotient(elapsed * rise, span)
  BY DEF Interpolated
<1>3. CASE Minute(n) = Minute(p) \/ span = 0
  BY <1>1, <1>2, <1>3 DEF Between
<1>4. CASE ~(Minute(n) = Minute(p) \/ span = 0)
  <2>1. Begin(p) <= t /\ t <= Begin(n) /\ DayOf(p) <= day /\ day <= DayOf(n)
    BY <1>4
  <2>2. /\ DayOf(p) \in 0..6 /\ DayOf(n) \in 0..6 /\ DayLength \in Nat
        /\ Minute(p) \in Nat /\ Minute(n) \in Nat
    BY Around, Lengths
  <2>3. elapsed = t - Begin(p) /\ span = Begin(n) - Begin(p) /\ span \in Int /\ elapsed \in Int
    <3>1. /\ DaysFrom(DayOf(p), day) = day - DayOf(p)
          /\ DaysFrom(DayOf(p), DayOf(n)) = DayOf(n) - DayOf(p)
      BY <2>1, <2>2 DEF DaysFrom
    <3>2. \A a, b \in 0..6 : /\ a * DayLength \in Nat
                             /\ (a - b) * DayLength = a * DayLength - b * DayLength
      BY <2>2
    <3>3. elapsed = now - Minute(p) + (day * DayLength - DayOf(p) * DayLength)
      BY <2>2, <3>1, <3>2
    <3>4. span = Minute(n) - Minute(p) + (DayOf(n) * DayLength - DayOf(p) * DayLength)
      BY <2>2, <3>1, <3>2
    <3> DEFINE a == day * DayLength
               b == DayOf(p) * DayLength
               c == DayOf(n) * DayLength
    <3>5. a \in Nat /\ b \in Nat /\ c \in Nat
      BY <2>2, <3>2
    <3>6. t = a + now /\ Begin(p) = b + Minute(p) /\ Begin(n) = c + Minute(n)
      BY DEF Begin
    <3>7. elapsed = now - Minute(p) + (a - b) /\ span = Minute(n) - Minute(p) + (c - b)
      BY <3>3, <3>4
    <3> HIDE DEF t, elapsed, span, a, b, c
    <3>8. now \in Nat /\ Minute(p) \in Nat /\ Minute(n) \in Nat
      BY <2>2
    <3>9. span = Begin(n) - Begin(p)
      BY <3>5, <3>6, <3>7, <3>8
    <3>10. elapsed = t - Begin(p)
      BY <3>5, <3>6, <3>7, <3>8
    <3>11. span \in Int /\ elapsed \in Int
      BY <3>5, <3>7, <3>8
    <3>12. QED BY <3>9, <3>10, <3>11
  <2>4. Begin(p) \in Nat /\ Begin(n) \in Nat /\ t \in Nat
    BY <2>2, Around
  <2> HIDE DEF t, elapsed, span
  <2>5. elapsed \in Nat /\ span \in Nat \ {0} /\ elapsed <= span
    BY <1>4, <2>1, <2>3, <2>4
  <2> HIDE DEF rise
  <2>6. rise \in Int /\ Entry(n).temp = Entry(p).temp + rise
    BY <1>1 DEF rise
  <2>7. /\ rise >= 0 => Quotient(elapsed * rise, span) \in 0..rise
        /\ rise < 0 => Quotient(elapsed * rise, span) \in rise..0
    BY <2>5, <2>6, PartOfRise
  <2>8. Interpolated(day, now, p, n) = Entry(p).temp + Quotient(elapsed * rise, span)
    BY <1>2, <1>4
  <2>9. CASE rise >= 0
    BY <1>1, <2>6, <2>7, <2>8, <2>9 DEF Between
  <2>10. CASE rise < 0
    BY <1>1, <2>6, <2>7, <2>8, <2>10 DEF Between
  <2>11. QED BY <2>6, <2>9, <2>10
<1>5. QED BY <1>3, <1>4

\* Whatever the tables hold, the target lies between the two slots' within a week.
LEMMA TargetIsBetween == TypeOK => StaysBetween
<1> SUFFICES ASSUME TypeOK, ~fromServer, NEW m \in Moments, SameWeek(m[1], m[2])
             PROVE OnTheWay(m[1], m[2])
  BY DEF StaysBetween
<1> DEFINE day == m[1]
           now == m[2]
           p == PastSlot(day, now)
           n == NextSlot(day, now)
<1>1. day \in 0..6 /\ now \in 0..(DayLength - 1) /\ now \in Nat
  <2>1. day \in 0..6 /\ now \in 0..(DayLength - 1)
    BY DEF Moments
  <2>2. QED BY <2>1, Lengths
<1>2. SUFFICES ASSUME p # -1, n # -1
               PROVE Between(AutoTemp(day, now, DefTemp), Entry(p).temp, Entry(n).temp)
  BY Zenon DEF OnTheWay
<1>3. p \in Enabled /\ n \in Enabled /\ PastIs(day, now, p) /\ NextIs(day, now, n)
  BY <1>1, <1>2, PastFound, NextFound, Zenon
<1>4. p <= n
  BY DEF SameWeek
<1>5. AutoTemp(day, now, DefTemp) = Interpolated(day, now, p, n)
  BY <1>2, Zenon DEF AutoTemp
<1> HIDE DEF day, now, p, n
<1>6. Between(Interpolated(day, now, p, n), Entry(p).temp, Entry(n).temp)
  BY <1>1, <1>3, <1>4, SidesOfMoment, InBetween, Zenon
<1>7. QED BY <1>5, <1>6

\* At every moment of the week the search of the automatic mode finds the
\* enabled slot that began last and the one that comes first, and fails only
\* if no slot is enabled (app.c:2809-2879): for any number of slots a day.
THEOREM SearchFindsNearest == Spec => []NearestSlots
<1>. QED
  BY ScheduleTypes, SearchIsRight, PTL

\* Within a week the target never passes the temperatures of the slots
\* before and after the moment (app.c:2903-2950).
THEOREM TargetStaysBetween == Spec => []StaysBetween
<1>. QED
  BY ScheduleTypes, TargetIsBetween, PTL

=============================================================================
