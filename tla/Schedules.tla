----------------------------- MODULE Schedules -----------------------------
(***************************************************************************)
(* scheduling/router.py, resolver.py and occurrences.py, for one employee: *)
(* schedules are created and assigned, and every local day has the         *)
(* windows the assigned schedule defines for it, in UTC.  Days are         *)
(* numbered from a Monday, times are hours, local (wall) ones counted from *)
(* midnight of day 0.                                                      *)
(***************************************************************************)
EXTENDS Integers, FiniteSets

CONSTANTS ScheduleIds, Definitions, SchedAssignable, MaxSchedAssignments,
          PlanDays,      \* the local days that are asked for
          EmployeeZone,  \* employees.timezone
          OrgZone        \* organizations.timezone

NoSchedule == [type |-> "none"]
NoZone == [before |-> 0, after |-> 0, change |-> -1000]
DayHours == 24

Windows == (0..DayHours - 1) \X (0..DayHours - 1)
WindowsBy(days) == \A d \in DOMAIN days : days[d] \subseteq Windows

\* Clocks go back by an hour at most.
Zones == {z \in [before: Int, after: Int, change: Int] : z.before - z.after =< 1}

\* Definitions as occurrences.py describes them: with others it raises an error.
ASSUME DefinitionAssumption ==
    \A d \in Definitions :
        /\ d.type \in {"fixed", "custom", "rotating", "flexible"} /\ d.zone \in Zones
        /\ d.type = "fixed" => WindowsBy(d.days)
        /\ d.type = "custom" => WindowsBy(d.dates)
        /\ d.type = "rotating" => /\ d.anchor \in Int /\ d.cycle \in Nat \ {0}
                                  /\ IsFiniteSet(DOMAIN d.weeks)
                                  /\ DOMAIN d.weeks = 0..Cardinality(DOMAIN d.weeks) - 1
                                  /\ \A i \in DOMAIN d.weeks : WindowsBy(d.weeks[i])
        /\ d.type = "flexible" => d.window \in Windows

ASSUME ScheduleAssumption ==
    /\ MaxSchedAssignments \in Nat /\ PlanDays \subseteq Int
    /\ EmployeeZone \in Zones /\ OrgZone \in Zones
    /\ SchedAssignable \subseteq [schedule: ScheduleIds, level: {"department", "team", "employee"},
                                  mine: BOOLEAN, from: Int, to: Int, priority: Nat]

VARIABLES schedules,         \* work_schedules
          schedAssignments   \* schedule_assignments
scheduleVars == <<schedules, schedAssignments>>

ScheduleInit == /\ schedules = [s \in ScheduleIds |-> NoSchedule]
                /\ schedAssignments = {}

CreateSchedule(s, d) == /\ schedules[s] = NoSchedule
                        /\ schedules' = [schedules EXCEPT ![s] = d]
                        /\ UNCHANGED schedAssignments

\* assign_schedule: 404 for an unknown schedule.
AssignSchedule(a) == /\ schedules[a.schedule] # NoSchedule
                     /\ a \notin schedAssignments
                     /\ Cardinality(schedAssignments) < MaxSchedAssignments
                     /\ schedAssignments' = schedAssignments \cup {a}
                     /\ UNCHANGED schedules

ScheduleNext == \/ \E s \in ScheduleIds, d \in Definitions : CreateSchedule(s, d)
                \/ \E a \in SchedAssignable : AssignSchedule(a)

ScheduleSpec == ScheduleInit /\ [][ScheduleNext]_scheduleVars

-----------------------------------------------------------------------------
(* resolve_schedule, _effective_tz *)

Specificity == [department |-> 1, team |-> 2, employee |-> 3]

InEffect(day) == {a \in schedAssignments : a.mine /\ a.from =< day /\ day =< a.to}

Before(a, b) == \/ Specificity[a.level] < Specificity[b.level]
                \/ Specificity[a.level] = Specificity[b.level] /\ a.priority < b.priority

\* Several of them when equal assignments match: the order of the rows decides.
Resolved(day) == {schedules[a.schedule] : a \in {b \in InEffect(day) :
                                                    \A c \in InEffect(day) : ~ Before(b, c)}}

EffectiveTz(s) == IF EmployeeZone # NoZone THEN EmployeeZone
                  ELSE IF s.zone # NoZone THEN s.zone ELSE OrgZone

-----------------------------------------------------------------------------
(* compute_occurrences.  A zone changes its offset once: wall times before *)
(* "change" have the old one, those the clock skips or repeats included    *)
(* (fold = 0).                                                             *)

ToUtc(z, wall) == wall - (IF wall < z.change THEN z.before ELSE z.after)

InGap(z, wall) == /\ z.after > z.before
                  /\ wall < z.change /\ wall >= z.change - (z.after - z.before)

\* Mutant: an end equal to the start does not roll over.
RollsIfBefore(day, w, z) ==
    [wall  |-> day * DayHours + w[1],
     start |-> ToUtc(z, day * DayHours + w[1]),
     end   |-> ToUtc(z, (IF w[2] < w[1] THEN day + 1 ELSE day) * DayHours + w[2])]

\* Local times are compared and moved on by a day before the conversion.
Make(day, w, z) ==
    [wall  |-> day * DayHours + w[1],
     start |-> ToUtc(z, day * DayHours + w[1]),
     end   |-> ToUtc(z, (IF w[2] =< w[1] THEN day + 1 ELSE day) * DayHours + w[2])]

\* days, weeks[i] : from weekdays to windows; a missing entry has none.
On(days, weekday) == IF weekday \in DOMAIN days THEN days[weekday] ELSE {}

RotatingWindows(s, day) ==
    LET idx == ((day - s.anchor) \div 7) % s.cycle
    IN  IF idx < Cardinality(DOMAIN s.weeks) THEN On(s.weeks[idx], day % 7) ELSE {}

WindowsForDay(s, day) == CASE s.type = "fixed"    -> On(s.days, day % 7)
                           [] s.type = "custom"   -> On(s.dates, day)
                           [] s.type = "rotating" -> RotatingWindows(s, day)
                           [] s.type = "flexible" -> {s.window}

ComputeOccurrences(s, day) == {Make(day, w, EffectiveTz(s)) : w \in WindowsForDay(s, day)}

-----------------------------------------------------------------------------
(* Properties *)

\* A window ends after it starts and lasts a day at most, with the hour the
\* clocks may repeat, unless it starts in the hour they skip: then its end
\* can come out first in UTC.
WindowsInOrder ==
    \A day \in PlanDays : \A s \in Resolved(day) : \A o \in ComputeOccurrences(s, day) :
        InGap(EffectiveTz(s), o.wall) \/ (o.start < o.end /\ o.end =< o.start + DayHours + 1)
=============================================================================
