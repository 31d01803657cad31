---------------------------- MODULE MCBackOffice ----------------------------
(***************************************************************************)
(* Instance of the parts around shifts and monitoring events.  They share  *)
(* no state that their properties are about, so a behaviour is one of one  *)
(* of them, and the others stay as they were.                              *)
(***************************************************************************)
EXTENDS TaskTimer, Timesheets, Webhooks, Alerts, Screenshots, Collectors,
        Devices, MCPolicy, Schedules, Tenancy, Rollups, Payroll

CONSTANTS Parts, e1, e2, t1, t2, g1, g2, r1, r2
VARIABLE part

-----------------------------------------------------------------------------
(* Alerts, collectors *)

IdleRules == {[key |-> "excessive_idle", threshold |-> 0, channels |-> <<>>],
              [key |-> "excessive_idle", threshold |-> 1, channels |-> <<"in_app", "email", "in_app">>]}

Monitoring == {[idle |-> i, input |-> TRUE, applications |-> TRUE, websites |-> ~ i] : i \in BOOLEAN}

-----------------------------------------------------------------------------
(* Schedules: a day's clock goes forward at 02:00 in one zone and back at   *)
(* 03:00 in the other, both on day 1.                                       *)

Spring == [before |-> 1, after |-> 2, change |-> 27]
Autumn == [before |-> 2, after |-> 1, change |-> 27]

DayShift == <<9, 17>>
NightShift == <<22, 6>>
AroundTheClock == <<0, 0>>
InTheGap == <<2, 3>>

ScheduleDefinitions ==
    {[type |-> "fixed", zone |-> NoZone, days |-> [w \in {0, 1, 6} |-> {DayShift, InTheGap}]],
     [type |-> "custom", zone |-> Autumn, dates |-> [d \in {1} |-> {AroundTheClock}]],
     [type |-> "rotating", zone |-> NoZone, anchor |-> 0, cycle |-> 3,
      weeks |-> [i \in {0, 1} |-> [w \in {0, 6} |-> IF i = 0 THEN {NightShift} ELSE {AroundTheClock}]]],
     [type |-> "flexible", zone |-> Autumn, window |-> InTheGap]}

AssignedSchedules ==
    [schedule: {g1, g2}, level: {"department", "employee"}, mine: {TRUE}, from: {-8, 1},
     to: {1, 1000}, priority: {0, 1}]
    \cup [schedule: {g1}, level: {"team"}, mine: {FALSE}, from: {0}, to: {0}, priority: {0}]

FourWeeks == -14..14

-----------------------------------------------------------------------------
(* Rollups, payroll *)

StartTeams == {(e1 :> t1) @@ (e2 :> t2)}

\* Bound: while two runs are at work, one second of activity.
RollupBound == (\A r \in RollupRuns : recompute[r].on) => Seconds(Staff) =< 1

LeaveSpells == {<<1, 1>>, <<1, 2>>, <<2, 1>>}
AttendedHours == {[worked |-> 10, overtime |-> 2]}

-----------------------------------------------------------------------------

\* Sound for safety: requests, and runs of a job, are alike in every part.
RequestSymmetry == Permutations({r1, r2})

\* One of the values a part can start with, where it is not the one at work.
BackOfficeInit ==
    /\ part \in Parts
    /\ TimerInit /\ SheetInit /\ HookInit /\ AlertInit /\ ShotInit /\ CollectInit
    /\ DeviceInit /\ PolicyInit /\ ScheduleInit /\ TenantInit /\ RollupInit /\ PayInit
    /\ part # "screenshots" => keepDays = CHOOSE n \in RetentionDays : TRUE
    /\ part # "collectors" => config = CHOOSE c \in Configs : TRUE

AllVars == <<timerVars, sheetVars, hookVars, alertVars, shotVars, collectVars, deviceVars,
             policyVars, scheduleVars, tenantVars, rollupVars, payVars>>

\* The parts that are not p stay as they are.
Others(p) ==
    /\ IF p = "timer" THEN TRUE ELSE UNCHANGED timerVars
    /\ IF p = "timesheets" THEN TRUE ELSE UNCHANGED sheetVars
    /\ IF p = "webhooks" THEN TRUE ELSE UNCHANGED hookVars
    /\ IF p = "alerts" THEN TRUE ELSE UNCHANGED alertVars
    /\ IF p = "screenshots" THEN TRUE ELSE UNCHANGED shotVars
    /\ IF p = "collectors" THEN TRUE ELSE UNCHANGED collectVars
    /\ IF p = "devices" THEN TRUE ELSE UNCHANGED deviceVars
    /\ IF p = "policies" THEN TRUE ELSE UNCHANGED policyVars
    /\ IF p = "schedules" THEN TRUE ELSE UNCHANGED scheduleVars
    /\ IF p = "tenancy" THEN TRUE ELSE UNCHANGED tenantVars
    /\ IF p = "rollups" THEN TRUE ELSE UNCHANGED rollupVars
    /\ IF p = "payroll" THEN TRUE ELSE UNCHANGED payVars

BackOfficeNext ==
    /\ UNCHANGED part
    /\ \/ part = "timer" /\ TimerNext
       \/ part = "timesheets" /\ SheetNext
       \/ part = "webhooks" /\ HookNext
       \/ part = "alerts" /\ AlertNext
       \/ part = "screenshots" /\ ShotNext
       \/ part = "collectors" /\ CollectNext
       \/ part = "devices" /\ DeviceNext
       \/ part = "policies" /\ PolicyNext
       \/ part = "schedules" /\ ScheduleNext
       \/ part = "tenancy" /\ TenantNext
       \/ part = "rollups" /\ RollupNext
       \/ part = "payroll" /\ PayNext
    /\ Others(part)

BackOfficeSpec == BackOfficeInit /\ [][BackOfficeNext]_<<part, AllVars>>
=============================================================================
