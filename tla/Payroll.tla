------------------------------ MODULE Payroll ------------------------------
(***************************************************************************)
(* payroll/ with scheduling/leave_router.py, for one employee: leave is    *)
(* requested and decided, attendance is derived, and a run pays for both   *)
(* over a period.  Hours are whole numbers and rates are left out.         *)
(***************************************************************************)
EXTENDS Integers, FiniteSets, FiniteSetsExt, Functions

CONSTANTS Leaves, PayDays,
          Spells,    \* the <<start_date, end_date>> leave is requested for
          Attended,  \* attendance rows a derivation can write
          MaxRuns    \* bound: payroll runs

ASSUME PayrollAssumption ==
    /\ IsFiniteSet(Leaves) /\ PayDays \subseteq Nat /\ MaxRuns \in Nat /\ Spells \subseteq Nat \X Nat
    /\ Attended \subseteq [worked: Nat, overtime: Nat]

VARIABLES leave,       \* leave_requests
          attended,    \* attendance, by work_date
          runs         \* payroll_runs and their payroll_lines
payVars == <<leave, attended, runs>>

NoLeave == [status |-> "none", from |-> 0, to |-> 0]
NoAttendance == [worked |-> 0, overtime |-> 0]

PayInit == /\ leave = [l \in Leaves |-> NoLeave]
           /\ runs = {}
           /\ attended = [d \in PayDays |-> NoAttendance]

\* create_leave: 422 for an end before the start.
CreateLeave(l, p) == /\ leave[l] = NoLeave /\ p[1] =< p[2]
                     /\ leave' = [leave EXCEPT ![l] = [status |-> "pending", from |-> p[1], to |-> p[2]]]
                     /\ UNCHANGED <<attended, runs>>

\* approve_leave, reject_leave: whatever was decided before.
DecideLeave(l, status) == /\ leave[l] # NoLeave
                          /\ leave' = [leave EXCEPT ![l].status = status]
                          /\ UNCHANGED <<attended, runs>>

\* Attendance of an ended shift (ShiftLifecycle).
Derive(d, a) == /\ attended' = [attended EXCEPT ![d] = a]
                /\ UNCHANGED <<leave, runs>>

-----------------------------------------------------------------------------
(* generate_run *)

AtLeastZero(n) == Max({0, n})

\* Mutant: the leave's own end, also after the period.
NotClipped(lv, start, end) == lv.to - Max({lv.from, start}) + 1

\* s = max(start_date, start), e = min(end_date, end)
DaysWithin(lv, start, end) == Min({lv.to, end}) - Max({lv.from, start}) + 1

ApprovedLeaveDays(start, end) ==
    LET counted == {l \in Leaves : /\ leave[l].status = "approved"
                                   /\ leave[l].from =< end /\ leave[l].to >= start}
    IN  AtLeastZero(SumFunction([l \in counted |-> DaysWithin(leave[l], start, end)]))

Total(field, start, end) ==
    SumFunction([d \in PayDays \cap start..end |-> attended[d][field]])

\* Lines without hours are not written: zero here.
LinesOf(start, end) ==
    [regular  |-> AtLeastZero(Total("worked", start, end) - Total("overtime", start, end)),
     overtime |-> Total("overtime", start, end),
     leave    |-> ApprovedLeaveDays(start, end)]

\* create_run: 422 for an end before the start; runs may overlap, or repeat.
GenerateRun(start, end) ==
    /\ Cardinality(runs) < MaxRuns /\ start =< end
    /\ runs' = runs \cup {[id |-> Cardinality(runs), from |-> start, to |-> end,
                           lines |-> LinesOf(start, end)]}
    /\ UNCHANGED <<leave, attended>>

PayNext == \/ \E l \in Leaves, p \in Spells : CreateLeave(l, p)
           \/ \E l \in Leaves, st \in {"approved", "rejected"} : DecideLeave(l, st)
           \/ \E d \in PayDays, a \in Attended : Derive(d, a)
           \/ \E start, end \in PayDays : GenerateRun(start, end)

PaySpec == PayInit /\ [][PayNext]_payVars

-----------------------------------------------------------------------------
(* Properties *)

OnLeave == UNION {leave[l].from..leave[l].to : l \in {x \in Leaves : leave[x] # NoLeave}}

LeavesOverlap == \E l, m \in Leaves : /\ l # m /\ NoLeave \notin {leave[l], leave[m]}
                                      /\ leave[l].from =< leave[m].to /\ leave[m].from =< leave[l].to

\* Runs over different periods pay a day of leave once between them, whatever
\* is decided from one to the next, unless the requests themselves overlap.
LeaveDayPaidOnce ==
    LeavesOverlap \/
    \A a, b \in runs : a.to < b.from =>
        a.lines.leave + b.lines.leave =< Cardinality(OnLeave \cap (a.from..a.to \cup b.from..b.to))
=============================================================================
