-------------------------- MODULE Computed_proofs --------------------------
(***************************************************************************)
(* Proofs about what is computed from the tables: the policy that holds    *)
(* for an employee, the windows of a schedule, the seconds a day's rows    *)
(* add up and the days of leave that payroll runs pay.                     *)
(***************************************************************************)
EXTENDS Policies, Schedules, Payroll, Rollups, Sums_proofs

\* The larger of two numbers.
LEMMA MaxOfTwo ==
    ASSUME NEW a \in Int, NEW b \in Int
    PROVE  Max({a, b}) = IF a >= b THEN a ELSE b
<1> DEFINE m == IF a >= b THEN a ELSE b
<1>1. m \in {a, b} /\ \A y \in {a, b} : m >= y
  OBVIOUS
<1>2. \A x \in {a, b} : (\A y \in {a, b} : x >= y) => x = m
  OBVIOUS
<1> QED BY <1>1, <1>2 DEF Max

\* The smaller of two numbers.
LEMMA MinOfTwo ==
    ASSUME NEW a \in Int, NEW b \in Int
    PROVE  Min({a, b}) = IF a =< b THEN a ELSE b
<1> DEFINE m == IF a =< b THEN a ELSE b
<1>1. m \in {a, b} /\ \A y \in {a, b} : m =< y
  OBVIOUS
<1>2. \A x \in {a, b} : (\A y \in {a, b} : x =< y) => x = m
  OBVIOUS
<1> QED BY <1>1, <1>2 DEF Min

\* The number of days two spells have in common.
LEMMA CommonDays ==
    ASSUME NEW a, NEW b, NEW c, NEW d, NEW common, common = (a..b) \cap (c..d),
           a \in Int, b \in Int, c \in Int, d \in Int, a =< b, c =< d, a =< d, b >= c
    PROVE  IsFiniteSet(common) /\ Cardinality(common) = Min({b, d}) - Max({a, c}) + 1
<1>1. PICK first \in Int : first = Max({a, c}) /\ first = IF a >= c THEN a ELSE c
  BY MaxOfTwo
<1>2. PICK last \in Int : last = Min({b, d}) /\ last = IF b =< d THEN b ELSE d
  BY MinOfTwo
<1>3. (a..b) \cap (c..d) = first..last /\ first =< last
  BY <1>1, <1>2
<1>4. IsFiniteSet(first..last) /\ Cardinality(first..last) = last - first + 1
  BY <1>3, FS_Interval
<1> QED BY <1>1, <1>2, <1>3, <1>4

-----------------------------------------------------------------------------
(* Payroll *)

LeaveRow == [status: {"none", "pending", "approved", "rejected"}, from: Nat, to: Nat]

\* A requested spell has a first and a last day, in this order (create_leave).
PayTypeOK == /\ leave \in [Leaves -> LeaveRow]
             /\ \A l \in Leaves : leave[l] # NoLeave =>
                    leave[l].status # "none" /\ leave[l].from =< leave[l].to

\* A run pays at most the days of its period somebody asked leave for.
RunsPayRequestedDays ==
    \A r \in runs : /\ r.from \in Nat /\ r.to \in Nat /\ r.lines.leave \in Nat
                    /\ LeavesOverlap \/ r.lines.leave =< Cardinality(OnLeave \cap r.from..r.to)

PayInv == PayTypeOK /\ RunsPayRequestedDays

\* No step takes a requested day back, or makes overlapping requests disjoint.
LEMMA RequestsStay ==
    ASSUME PayTypeOK, PayTypeOK',
           \A l \in Leaves : leave[l] # NoLeave =>
               leave'[l] # NoLeave /\ leave'[l].from = leave[l].from /\ leave'[l].to = leave[l].to
    PROVE  OnLeave \subseteq OnLeave' /\ (LeavesOverlap => LeavesOverlap')
<1>1. OnLeave \subseteq OnLeave'
  <2> SUFFICES ASSUME NEW l \in Leaves, leave[l] # NoLeave, NEW d \in leave[l].from..leave[l].to
               PROVE  d \in OnLeave'
    BY DEF OnLeave
  <2>1. leave'[l] # NoLeave /\ d \in leave'[l].from..leave'[l].to
    OBVIOUS
  <2> QED BY <2>1 DEF OnLeave
<1>2. LeavesOverlap => LeavesOverlap'
  <2> SUFFICES ASSUME NEW l \in Leaves, NEW m \in Leaves, l # m,
                      leave[l] # NoLeave, leave[m] # NoLeave,
                      leave[l].from =< leave[m].to, leave[m].from =< leave[l].to
               PROVE  LeavesOverlap'
    BY DEF LeavesOverlap
  <2>1. /\ leave'[l] # NoLeave /\ leave'[m] # NoLeave
        /\ leave'[l].from =< leave'[m].to /\ leave'[m].from =< leave'[l].to
    OBVIOUS
  <2> QED BY <2>1 DEF LeavesOverlap
<1> QED BY <1>1, <1>2

\* What one run pays for leave: the requested days of its period, approved.
LEMMA PaidDaysAreRequested ==
    ASSUME PayTypeOK, ~ LeavesOverlap, NEW start \in Nat, NEW end \in Nat, start =< end
    PROVE  ApprovedLeaveDays(start, end) =< Cardinality(OnLeave \cap start..end)
<1> USE PayrollAssumption
<1> DEFINE counted == {l \in Leaves : /\ leave[l].status = "approved"
                                      /\ leave[l].from =< end /\ leave[l].to >= start}
           F == [l \in counted |-> DaysWithin(leave[l], start, end)]
           D == [l \in counted |-> (leave[l].from..leave[l].to) \cap (start..end)]
           U == UNION {D[l] : l \in counted}
<1>1. IsFiniteSet(counted)
  BY FS_Subset
<1>2. \A l \in counted : IsFiniteSet(D[l]) /\ F[l] = Cardinality(D[l])
  <2> TAKE l \in counted
  <2>1. /\ leave[l].from \in Nat /\ leave[l].to \in Nat /\ leave[l].from =< leave[l].to
        /\ leave[l].from =< end /\ leave[l].to >= start
    BY DEF PayTypeOK, LeaveRow, NoLeave
  <2>2. D[l] = (leave[l].from..leave[l].to) \cap (start..end)
    OBVIOUS
  <2>3. F[l] = Min({leave[l].to, end}) - Max({leave[l].from, start}) + 1
    BY DEF DaysWithin
  <2> HIDE DEF F, D
  <2> QED BY <2>1, <2>2, <2>3, CommonDays
<1>3. \A l, m \in counted : l # m => D[l] \cap D[m] = {}
  <2> SUFFICES ASSUME NEW l \in counted, NEW m \in counted, l # m,
                      NEW d, d \in D[l], d \in D[m]
               PROVE  FALSE
    OBVIOUS
  <2>1. /\ leave[l] # NoLeave /\ leave[m] # NoLeave
        /\ leave[l].from =< leave[m].to /\ leave[m].from =< leave[l].to
    BY DEF PayTypeOK, LeaveRow, NoLeave
  <2> QED BY <2>1 DEF LeavesOverlap
<1>4. IsFiniteSet(U) /\ SumFunctionOnSet(F, counted) = Cardinality(U)
  <2>1. U = UNION {D[l] : l \in counted}
    OBVIOUS
  <2> HIDE DEF F, D, U, counted
  <2> QED BY <1>1, <1>2, <1>3, <2>1, SumOfSizes
<1>5. U \subseteq OnLeave \cap start..end
  <2> SUFFICES ASSUME NEW l \in counted, NEW d \in D[l] PROVE d \in OnLeave \cap start..end
    OBVIOUS
  <2>1. leave[l] # NoLeave /\ d \in leave[l].from..leave[l].to
    BY DEF NoLeave
  <2> QED BY <2>1 DEF OnLeave
<1>6. Cardinality(U) \in Nat /\ Cardinality(U) =< Cardinality(OnLeave \cap start..end)
  <2>1. IsFiniteSet(OnLeave \cap start..end)
    BY FS_Interval, FS_Subset
  <2> HIDE DEF U
  <2> QED BY <1>4, <1>5, <2>1, FS_Subset, FS_CardinalityType
<1>7. ApprovedLeaveDays(start, end) = Max({0, SumFunctionOnSet(F, counted)})
  BY DEF ApprovedLeaveDays, AtLeastZero, SumFunction
<1> HIDE DEF F, U, counted
<1> QED BY <1>4, <1>6, <1>7, MaxOfTwo

\* Leave is paid as integers that are not negative.
LEMMA PaidDaysAreNumbers ==
    ASSUME PayTypeOK, NEW start \in Nat, NEW end \in Nat, start =< end
    PROVE  ApprovedLeaveDays(start, end) \in Nat
<1> USE PayrollAssumption
<1> DEFINE counted == {l \in Leaves : /\ leave[l].status = "approved"
                                      /\ leave[l].from =< end /\ leave[l].to >= start}
           F == [l \in counted |-> DaysWithin(leave[l], start, end)]
<1>1. \A l \in counted : F[l] \in Int
  <2> TAKE l \in counted
  <2>1. leave[l].from \in Nat /\ leave[l].to \in Nat
    BY DEF PayTypeOK, LeaveRow
  <2>2. Min({leave[l].to, end}) \in Int /\ Max({leave[l].from, start}) \in Int
    BY <2>1, MaxOfTwo, MinOfTwo
  <2> QED BY <2>2 DEF DaysWithin
<1>2. Numbers(F, counted)
  <2>1. IsFiniteSet(counted)
    BY FS_Subset
  <2> QED BY <1>1, <2>1 DEF Numbers
<1>3. SumFunctionOnSet(F, counted) \in Int
  <2> HIDE DEF F, counted
  <2> QED BY <1>2, SumType
<1>4. ApprovedLeaveDays(start, end) = Max({0, SumFunctionOnSet(F, counted)})
  BY DEF ApprovedLeaveDays, AtLeastZero, SumFunction
<1> HIDE DEF F, counted
<1> QED BY <1>3, <1>4, MaxOfTwo

\* What is requested between two days is finite.
LEMMA PeriodIsFinite ==
    ASSUME NEW a, NEW b, a \in Nat, b \in Nat, NEW S
    PROVE  IsFiniteSet(S \cap a..b)
<1>1. a \in Int /\ b \in Int /\ S \cap a..b \in SUBSET (a..b)
  OBVIOUS
<1>2. IsFiniteSet(a..b)
  BY <1>1, FS_Interval
<1> QED BY <1>1, <1>2, FS_Subset, Zenon

LEMMA PayInitInv == PayInit => PayInv
BY DEF PayInit, PayInv, PayTypeOK, RunsPayRequestedDays, LeaveRow, NoLeave

\* A run that was right stays right when requests are only added.
LEMMA OldRunsStayRight ==
    ASSUME PayInv, runs' = runs, OnLeave \subseteq OnLeave', LeavesOverlap => LeavesOverlap'
    PROVE  RunsPayRequestedDays'
<1> SUFFICES ASSUME NEW r \in runs, ~ LeavesOverlap'
             PROVE  r.lines.leave =< Cardinality(OnLeave' \cap r.from..r.to)
  BY DEF PayInv, RunsPayRequestedDays
<1>1. /\ r.from \in Nat /\ r.to \in Nat /\ r.lines.leave \in Nat
      /\ r.lines.leave =< Cardinality(OnLeave \cap r.from..r.to)
  BY DEF PayInv, RunsPayRequestedDays
<1>2. IsFiniteSet(OnLeave' \cap r.from..r.to) /\ IsFiniteSet(OnLeave \cap r.from..r.to)
  BY <1>1, PeriodIsFinite, Zenon
<1>3. OnLeave \cap r.from..r.to \subseteq OnLeave' \cap r.from..r.to
  OBVIOUS
<1>4. Cardinality(OnLeave \cap r.from..r.to) =< Cardinality(OnLeave' \cap r.from..r.to)
  BY <1>2, <1>3, FS_Subset
<1>5. Cardinality(OnLeave \cap r.from..r.to) \in Nat /\ Cardinality(OnLeave' \cap r.from..r.to) \in Nat
  BY <1>2, FS_CardinalityType
<1> QED BY <1>1, <1>4, <1>5

LEMMA PayStep ==
    ASSUME PayInv, [PayNext]_payVars
    PROVE  PayInv'
<1> USE PayrollAssumption
<1>1. ASSUME NEW l \in Leaves, NEW p \in Spells, CreateLeave(l, p) PROVE PayInv'
  <2>1. PayTypeOK'
    <3>1. p[1] \in Nat /\ p[2] \in Nat /\ p[1] =< p[2]
      BY <1>1 DEF CreateLeave
    <3> QED BY <1>1, <3>1 DEF CreateLeave, PayInv, PayTypeOK, LeaveRow, NoLeave
  <2>2. \A m \in Leaves : leave[m] # NoLeave => leave'[m] = leave[m]
    BY <1>1 DEF CreateLeave, PayInv, PayTypeOK
  <2>3. OnLeave \subseteq OnLeave' /\ (LeavesOverlap => LeavesOverlap')
    BY <2>1, <2>2, RequestsStay DEF PayInv
  <2> QED BY <1>1, <2>1, <2>3, OldRunsStayRight DEF CreateLeave, PayInv
<1>2. ASSUME NEW l \in Leaves, NEW st \in {"approved", "rejected"}, DecideLeave(l, st) PROVE PayInv'
  <2>1. PayTypeOK'
    BY <1>2 DEF DecideLeave, PayInv, PayTypeOK, LeaveRow, NoLeave
  <2>2. \A m \in Leaves : leave[m] # NoLeave =>
            leave'[m] # NoLeave /\ leave'[m].from = leave[m].from /\ leave'[m].to = leave[m].to
    BY <1>2 DEF DecideLeave, PayInv, PayTypeOK, LeaveRow, NoLeave
  <2>3. OnLeave \subseteq OnLeave' /\ (LeavesOverlap => LeavesOverlap')
    BY <2>1, <2>2, RequestsStay DEF PayInv
  <2> QED BY <1>2, <2>1, <2>3, OldRunsStayRight DEF DecideLeave, PayInv
<1>3. ASSUME UNCHANGED <<leave, runs>> PROVE PayInv'
  BY <1>3 DEF PayInv, PayTypeOK, RunsPayRequestedDays, OnLeave, LeavesOverlap
<1>4. ASSUME NEW start \in PayDays, NEW end \in PayDays, GenerateRun(start, end) PROVE PayInv'
  <2>1. start \in Nat /\ end \in Nat /\ start =< end /\ UNCHANGED leave
    BY <1>4 DEF GenerateRun
  <2>2. PayTypeOK' /\ OnLeave' = OnLeave /\ LeavesOverlap' = LeavesOverlap
    BY <2>1 DEF PayInv, PayTypeOK, OnLeave, LeavesOverlap
  <2> DEFINE new == [id |-> Cardinality(runs), from |-> start, to |-> end, lines |-> LinesOf(start, end)]
  <2>3. runs' = runs \cup {new}
    BY <1>4 DEF GenerateRun
  <2>4. new.from = start /\ new.to = end /\ new.lines.leave = ApprovedLeaveDays(start, end)
    BY DEF LinesOf
  <2>5. new.lines.leave \in Nat
    BY <2>1, <2>4, PaidDaysAreNumbers DEF PayInv
  <2>6. LeavesOverlap \/ new.lines.leave =< Cardinality(OnLeave \cap start..end)
    BY <2>1, <2>4, PaidDaysAreRequested DEF PayInv
  <2> HIDE DEF new
  <2>7. RunsPayRequestedDays'
    BY <2>1, <2>2, <2>3, <2>4, <2>5, <2>6 DEF RunsPayRequestedDays, PayInv
  <2> QED BY <2>2, <2>7 DEF PayInv
<1> QED BY <1>1, <1>2, <1>3, <1>4 DEF PayNext, Derive, payVars

\* Whatever runs overlap in time with decisions on leave, those over different
\* periods pay a requested day once between them (create_run, approve_leave),
\* for any number of requests, days and runs.
THEOREM LeaveDayPaidOnceAlways == PaySpec => []LeaveDayPaidOnce
<1>1. PayInv => LeaveDayPaidOnce
  <2> SUFFICES ASSUME PayInv, ~ LeavesOverlap, NEW a \in runs, NEW b \in runs, a.to < b.from
               PROVE  a.lines.leave + b.lines.leave =<
                          Cardinality(OnLeave \cap (a.from..a.to \cup b.from..b.to))
    BY DEF LeaveDayPaidOnce
  <2> DEFINE A == OnLeave \cap a.from..a.to
             B == OnLeave \cap b.from..b.to
             C == OnLeave \cap (a.from..a.to \cup b.from..b.to)
  <2>1. /\ a.from \in Nat /\ a.to \in Nat /\ a.lines.leave \in Nat /\ a.lines.leave =< Cardinality(A)
        /\ b.from \in Nat /\ b.to \in Nat /\ b.lines.leave \in Nat /\ b.lines.leave =< Cardinality(B)
    BY DEF PayInv, RunsPayRequestedDays
  <2>2. IsFiniteSet(A) /\ IsFiniteSet(B)
    BY <2>1, PeriodIsFinite, Zenon
  <2>3. C = A \cup B /\ A \cap B = {}
    BY <2>1
  <2> HIDE DEF A, B, C
  <2>4. Cardinality(C) = Cardinality(A) + Cardinality(B)
    BY <2>2, <2>3, SizeOfUnion
  <2>5. Cardinality(A) \in Nat /\ Cardinality(B) \in Nat
    BY <2>2, FS_CardinalityType
  <2>6. a.lines.leave + b.lines.leave =< Cardinality(C)
    BY <2>1, <2>4, <2>5
  <2> QED BY <2>6 DEF C
<1> QED BY <1>1, PayInitInv, PayStep, PTL DEF PaySpec

-----------------------------------------------------------------------------
(* Rollups *)

\* The seconds of an employee are a number, and stored events only add to them.
LEMMA SecondsAreNumbers ==
    ASSUME NEW acts, acts \in [Staff -> [Subjects -> Nat]], NEW e, e \in Staff
    PROVE  SumFunction(acts[e]) \in Nat
<1>1. acts[e] \in [Subjects -> Nat] /\ DOMAIN acts[e] = Subjects
  OBVIOUS
<1>2. Numbers(acts[e], Subjects) /\ (\A s \in Subjects : acts[e][s] >= 0)
  BY <1>1, RollupAssumption DEF Numbers
<1>3. SumFunction(acts[e]) = SumFunctionOnSet(acts[e], Subjects)
  BY <1>1 DEF SumFunction
<1>4. SumFunctionOnSet(acts[e], Subjects) \in Int
  BY <1>2, SumType
<1>5. 0 =< SumFunctionOnSet(acts[e], Subjects)
  BY <1>2, SumGrows
<1> QED BY <1>3, <1>4, <1>5

LEMMA SecondsGrow ==
    ASSUME NEW acts, acts \in [Staff -> [Subjects -> Nat]],
           NEW more, more \in [Staff -> [Subjects -> Nat]], NEW e, e \in Staff,
           \A s \in Subjects : acts[e][s] =< more[e][s]
    PROVE  SumFunction(acts[e]) =< SumFunction(more[e])
<1>1. /\ acts[e] \in [Subjects -> Nat] /\ DOMAIN acts[e] = Subjects
      /\ more[e] \in [Subjects -> Nat] /\ DOMAIN more[e] = Subjects
  OBVIOUS
<1>2. Numbers(acts[e], Subjects) /\ Numbers(more[e], Subjects)
  BY <1>1, RollupAssumption DEF Numbers
<1>3. SumFunctionOnSet(acts[e], Subjects) =< SumFunctionOnSet(more[e], Subjects)
  BY <1>2, SumMonotone
<1> QED BY <1>1, <1>3 DEF SumFunction

\* What there is of each employee at present.
Now == [e \in Staff |-> TotalSeconds(e)]

RollupTypeOK ==
    /\ team \in [Staff -> Teams \cup {NoTeam}] /\ active \subseteq Staff
    /\ activity \in [Staff -> [Subjects -> Nat]]
    /\ recompute = [r \in RollupRuns |-> recompute[r]]

\* A run goes through the employees it selected, each with one team or none,
\* then through their teams.
Selection(q) ==
    /\ q = [on |-> q.on, team |-> q.team, rows |-> q.rows, new |-> q.new, dirty |-> q.dirty,
            least |-> q.least, alone |-> q.alone]
    /\ DOMAIN q.team \subseteq Staff
    /\ \A e \in DOMAIN q.team : q.team[e] \in Teams \cup {NoTeam}
    /\ DOMAIN q.rows \subseteq DOMAIN q.team \cup TeamsOf(q) /\ DOMAIN q.dirty = DOMAIN q.rows

\* Each employee's row lies between the seconds there were when the run began
\* (floor) and those there are now.
RowsInBetween(q, now) ==
    \E floor \in [DOMAIN q.team -> Nat] :
        /\ q.least = SumFunctionOnSet(floor, DOMAIN q.team)
        /\ \A e \in DOMAIN q.team : floor[e] =< now[e]
        /\ \A e \in DOMAIN q.team \cap DOMAIN q.rows :
              /\ q.rows[e]["tracked"] \in Nat
              /\ floor[e] =< q.rows[e]["tracked"] /\ q.rows[e]["tracked"] =< now[e]

\* A team's row is the sum of those of all its members.
TeamSum(q, t) ==
    /\ DOMAIN q.team \subseteq DOMAIN q.rows
    /\ q.rows[t]["tracked"] =
          SumFunctionOnSet([e \in Members(q, t) |-> q.rows[e]["tracked"]], Members(q, t))

\* What a run that is alone does not write is in the table.
UpToDate(q, table, x) ==
    \/ "tracked" \in q.dirty[x]
    \/ x \in DOMAIN table /\ table[x]["tracked"] = q.rows[x]["tracked"]

RunOK(q, table, now) ==
    /\ Selection(q) /\ RowsInBetween(q, now)
    /\ \A t \in DOMAIN q.rows \cap TeamsOf(q) : TeamSum(q, t)
    /\ q.alone => \A x \in DOMAIN q.rows : UpToDate(q, table, x)

RollupInv == RollupTypeOK /\ \A r \in RollupRuns : RunOK(recompute[r], rollups, Now)

\* A run that has not begun.
LEMMA RunIdle ==
    ASSUME NEW table, NEW now PROVE RunOK(NoRollupRun, table, now)
<1> DEFINE q == NoRollupRun
<1>1. /\ DOMAIN q.team = {} /\ DOMAIN q.rows = {} /\ DOMAIN q.dirty = {} /\ q.least = 0 /\ ~ q.alone
      /\ q = [on |-> q.on, team |-> q.team, rows |-> q.rows, new |-> q.new, dirty |-> q.dirty,
              least |-> q.least, alone |-> q.alone]
  BY DEF NoRollupRun
<1> HIDE DEF q
<1>2. Selection(q)
  BY <1>1 DEF Selection
<1>3. RowsInBetween(q, now)
  <2> DEFINE floor == [e \in {} |-> 0]
  <2>1. floor \in [{} -> Nat] /\ SumFunctionOnSet(floor, {}) = 0
    BY SumOfNone
  <2> HIDE DEF floor
  <2> QED BY <1>1, <2>1 DEF RowsInBetween
<1>4. RunOK(q, table, now)
  BY <1>1, <1>2, <1>3 DEF RunOK
<1> QED BY <1>4 DEF q

\* Activity is added.
LEMMA RunLater ==
    ASSUME NEW q, NEW table, NEW now, NEW next, RunOK(q, table, now),
           \A e \in Staff : now[e] \in Nat /\ next[e] \in Nat /\ now[e] =< next[e]
    PROVE  RunOK(q, table, next)
<1>1. DOMAIN q.team \subseteq Staff
  BY DEF RunOK, Selection
<1>2. PICK floor \in [DOMAIN q.team -> Nat] :
          /\ q.least = SumFunctionOnSet(floor, DOMAIN q.team)
          /\ \A e \in DOMAIN q.team : floor[e] =< now[e]
          /\ \A e \in DOMAIN q.team \cap DOMAIN q.rows :
                /\ q.rows[e]["tracked"] \in Nat
                /\ floor[e] =< q.rows[e]["tracked"] /\ q.rows[e]["tracked"] =< now[e]
  BY DEF RunOK, RowsInBetween
<1>3. /\ \A e \in DOMAIN q.team : floor[e] =< next[e]
      /\ \A e \in DOMAIN q.team \cap DOMAIN q.rows : q.rows[e]["tracked"] =< next[e]
  BY <1>1, <1>2
<1>4. RowsInBetween(q, next)
  BY <1>2, <1>3 DEF RowsInBetween
<1> QED BY <1>4 DEF RunOK

\* Another run commits.
LEMMA RunNotAlone ==
    ASSUME NEW q, NEW table, NEW now, NEW other, RunOK(q, table, now)
    PROVE  RunOK([q EXCEPT !.alone = FALSE], other, now)
<1> DEFINE p == [q EXCEPT !.alone = FALSE]
<1>0. /\ q = [on |-> q.on, team |-> q.team, rows |-> q.rows, new |-> q.new, dirty |-> q.dirty,
              least |-> q.least, alone |-> q.alone]
      /\ DOMAIN q.dirty = DOMAIN q.rows
  BY DEF RunOK, Selection
<1>8. p = [q EXCEPT !.alone = FALSE]
  OBVIOUS
<1> HIDE DEF p
<1>9. p = [on |-> q.on, team |-> q.team, rows |-> q.rows, new |-> q.new, dirty |-> q.dirty,
           least |-> q.least, alone |-> FALSE]
  BY <1>0, <1>8, Zenon
<1>1. /\ p.team = q.team /\ p.rows = q.rows /\ p.dirty = q.dirty /\ p.least = q.least /\ ~ p.alone
      /\ p = [on |-> p.on, team |-> p.team, rows |-> p.rows, new |-> p.new, dirty |-> p.dirty,
              least |-> p.least, alone |-> p.alone]
  BY <1>9
<1>2. Selection(p) /\ RowsInBetween(p, now) /\ TeamsOf(p) = TeamsOf(q)
  BY <1>1 DEF RunOK, Selection, RowsInBetween, TeamsOf
<1>3. \A t : TeamSum(q, t) => TeamSum(p, t)
  BY <1>1 DEF TeamSum, Members
<1>4. RunOK(p, other, now)
  BY <1>1, <1>2, <1>3 DEF RunOK
<1> QED BY <1>4 DEF p

\* A run begins: the floor is what there is now.
LEMMA RunStarts ==
    ASSUME NEW table, NEW now, \A e \in Staff : now[e] \in Nat,
           NEW q, NEW S, S \subseteq Staff, Selection(q), DOMAIN q.team = S, DOMAIN q.rows = {},
           q.least = SumFunctionOnSet([e \in S |-> now[e]], S)
    PROVE  RunOK(q, table, now)
<1> DEFINE floor == [e \in S |-> now[e]]
<1>1. floor \in [S -> Nat] /\ \A e \in S : floor[e] = now[e] /\ floor[e] =< now[e]
  OBVIOUS
<1> HIDE DEF floor
<1>2. q.least = SumFunctionOnSet(floor, S)
  BY DEF floor
<1>3. RowsInBetween(q, now)
  BY <1>1, <1>2 DEF RowsInBetween
<1> QED BY <1>3 DEF RunOK

\* What p is after q has looked for the row of x and flushed it.
Adds(p, q, x, row, table) ==
    /\ p = [on |-> p.on, team |-> p.team, rows |-> p.rows, new |-> p.new, dirty |-> p.dirty,
            least |-> p.least, alone |-> p.alone]
    /\ p.team = q.team /\ p.least = q.least /\ p.alone = q.alone
    /\ DOMAIN p.rows = DOMAIN q.rows \cup {x} /\ DOMAIN p.dirty = DOMAIN p.rows /\ p.rows[x] = row
    /\ \A y \in DOMAIN q.rows : y # x => p.rows[y] = q.rows[y] /\ p.dirty[y] = q.dirty[y]
    /\ UpToDate(p, table, x)

\* The flush of one row is such an addition.
LEMMA FlushAdds ==
    ASSUME NEW q, Selection(q), NEW x, x \notin DOMAIN q.rows, NEW row
    PROVE  Adds(Flushed(q, x, row), q, x, row, rollups)
<1> DEFINE p == Flushed(q, x, row)
           d == {c \in Columns : x \in DOMAIN rollups => rollups[x][c] # row[c]}
<1> HIDE DEF d
<1>0. q = [on |-> q.on, team |-> q.team, rows |-> q.rows, new |-> q.new, dirty |-> q.dirty,
           least |-> q.least, alone |-> q.alone]
  BY DEF Selection
<1>8. p = [q EXCEPT !.rows = Put(@, x, row), !.new = IF x \in DOMAIN rollups THEN @ ELSE @ \cup {x},
                    !.dirty = Put(@, x, d)]
  BY DEF Flushed, d
<1> DEFINE n == IF x \in DOMAIN rollups THEN q.new ELSE q.new \cup {x}
<1>9. p = [on |-> q.on, team |-> q.team, rows |-> Put(q.rows, x, row), new |-> n,
           dirty |-> Put(q.dirty, x, d), least |-> q.least, alone |-> q.alone]
  <2> HIDE DEF p
  <2> QED BY <1>0, <1>8, Zenon
<1>1. p = [on |-> q.on, team |-> q.team, rows |-> Put(q.rows, x, row), new |-> p.new,
           dirty |-> Put(q.dirty, x, d), least |-> q.least, alone |-> q.alone]
  <2> HIDE DEF p, n
  <2> QED BY <1>9
<1> HIDE DEF p
<1>2. "tracked" \in d \/ (x \in DOMAIN rollups /\ rollups[x]["tracked"] = row["tracked"])
  BY DEF Columns, d
<1>3. /\ DOMAIN Put(q.rows, x, row) = DOMAIN q.rows \cup {x} /\ Put(q.rows, x, row)[x] = row
      /\ Put(q.dirty, x, d)[x] = d /\ DOMAIN Put(q.dirty, x, d) = DOMAIN q.rows \cup {x}
      /\ \A y \in DOMAIN q.rows : y # x => Put(q.rows, x, row)[y] = q.rows[y]
                                           /\ Put(q.dirty, x, d)[y] = q.dirty[y]
  BY DEF Put, Selection
<1>4. p.rows = Put(q.rows, x, row) /\ p.dirty = Put(q.dirty, x, d)
      /\ p.team = q.team /\ p.least = q.least /\ p.alone = q.alone
  BY <1>1
<1>5. UpToDate(p, rollups, x)
  BY <1>2, <1>3, <1>4 DEF UpToDate
<1>6. p = [on |-> p.on, team |-> p.team, rows |-> p.rows, new |-> p.new, dirty |-> p.dirty,
           least |-> p.least, alone |-> p.alone]
  BY <1>1
<1>7. Adds(p, q, x, row, rollups)
  BY <1>3, <1>4, <1>5, <1>6 DEF Adds
<1> QED BY <1>7 DEF p

\* An employee's row is added: the seconds as they are now.
LEMMA EmployeeAdded ==
    ASSUME NEW p, NEW q, NEW table, NEW now, RunOK(q, table, now),
           NEW e, e \in DOMAIN q.team \ DOMAIN q.rows, NEW row, Adds(p, q, e, row, table),
           now[e] \in Nat, row["tracked"] = now[e], e \notin Teams
    PROVE  RunOK(p, table, now)
<1>1. Selection(q) /\ TeamsOf(p) = TeamsOf(q) /\ TeamsOf(q) \subseteq Teams
  BY DEF RunOK, Adds, TeamsOf, Selection, Range
<1>2. Selection(p)
  BY <1>1 DEF Selection, Adds
<1>3. RowsInBetween(p, now)
  <2>1. PICK floor \in [DOMAIN q.team -> Nat] :
            /\ q.least = SumFunctionOnSet(floor, DOMAIN q.team)
            /\ \A x \in DOMAIN q.team : floor[x] =< now[x]
            /\ \A x \in DOMAIN q.team \cap DOMAIN q.rows :
                  /\ q.rows[x]["tracked"] \in Nat
                  /\ floor[x] =< q.rows[x]["tracked"] /\ q.rows[x]["tracked"] =< now[x]
    BY DEF RunOK, RowsInBetween
  <2>2. \A x \in DOMAIN p.team \cap DOMAIN p.rows :
            /\ p.rows[x]["tracked"] \in Nat
            /\ floor[x] =< p.rows[x]["tracked"] /\ p.rows[x]["tracked"] =< now[x]
    <3> TAKE x \in DOMAIN p.team \cap DOMAIN p.rows
    <3>1. CASE x = e
      BY <3>1, <2>1 DEF Adds
    <3>2. CASE x # e
      BY <3>2, <2>1 DEF Adds
    <3> QED BY <3>1, <3>2
  <2>3. p.team = q.team /\ p.least = q.least
    BY DEF Adds
  <2> QED BY <2>1, <2>2, <2>3 DEF RowsInBetween
<1>4. \A t \in DOMAIN p.rows \cap TeamsOf(p) : TeamSum(p, t)
  <2> SUFFICES ASSUME NEW t \in DOMAIN p.rows \cap TeamsOf(p) PROVE FALSE
    OBVIOUS
  <2>1. t \in DOMAIN q.rows \cap TeamsOf(q)
    BY <1>1 DEF Adds
  <2> QED BY <2>1 DEF RunOK, TeamSum
<1>5. p.alone => \A x \in DOMAIN p.rows : UpToDate(p, table, x)
  BY DEF Adds, RunOK, UpToDate
<1> QED BY <1>2, <1>3, <1>4, <1>5 DEF RunOK

\* A team's row is added, after those of all employees.
LEMMA TeamAdded ==
    ASSUME NEW p, NEW q, NEW table, NEW now, RunOK(q, table, now),
           NEW t, t \in TeamsOf(q) \ DOMAIN q.rows, DOMAIN q.team \subseteq DOMAIN q.rows,
           NEW row, Adds(p, q, t, row, table),
           row["tracked"] =
              SumFunctionOnSet([e \in Members(q, t) |-> q.rows[e]["tracked"]], Members(q, t))
    PROVE  RunOK(p, table, now)
<1>1. Selection(q) /\ TeamsOf(p) = TeamsOf(q) /\ p.team = q.team
  BY DEF RunOK, Adds, TeamsOf
<1>2. Selection(p)
  BY <1>1 DEF Selection, Adds
<1>3. /\ \A e \in DOMAIN q.team : p.rows[e] = q.rows[e]
      /\ DOMAIN q.team \subseteq DOMAIN p.rows
  BY DEF Adds
<1>4. RowsInBetween(p, now)
  BY <1>1, <1>3 DEF RunOK, RowsInBetween, Adds
<1>5. ASSUME NEW u \in DOMAIN p.rows \cap TeamsOf(p) PROVE TeamSum(p, u)
  <2>1. Members(p, u) = Members(q, u) /\ Members(q, u) \subseteq DOMAIN q.team
    BY <1>1 DEF Members
  <2>2. [e \in Members(p, u) |-> p.rows[e]["tracked"]] = [e \in Members(q, u) |-> q.rows[e]["tracked"]]
    BY <2>1, <1>3
  <2>3. p.rows[u]["tracked"] =
            SumFunctionOnSet([e \in Members(q, u) |-> q.rows[e]["tracked"]], Members(q, u))
    <3>1. CASE u = t
      BY <3>1 DEF Adds
    <3>2. CASE u # t
      BY <3>2, <1>1 DEF Adds, RunOK, TeamSum
    <3> QED BY <3>1, <3>2
  <2> QED BY <1>1, <1>3, <2>1, <2>2, <2>3 DEF TeamSum
<1>6. p.alone => \A x \in DOMAIN p.rows : UpToDate(p, table, x)
  BY DEF Adds, RunOK, UpToDate
<1> QED BY <1>2, <1>4, <1>5, <1>6 DEF RunOK

\* The rows a run that is alone commits: each second of its employees once.
LEMMA CountedOnce ==
    ASSUME NEW q, NEW table, NEW now, RunOK(q, table, now), \A e \in Staff : now[e] \in Nat,
           DOMAIN q.rows = DOMAIN q.team \cup TeamsOf(q),
           NEW after, \A x \in DOMAIN q.rows : after[x]["tracked"] = q.rows[x]["tracked"]
    PROVE  /\ q.least =< Counted(q, after)
           /\ Counted(q, after) =< SumFunctionOnSet([e \in DOMAIN q.team |-> now[e]], DOMAIN q.team)
<1> DEFINE S == DOMAIN q.team
           f == [e \in S |-> q.rows[e]["tracked"]]
           M(t) == {e \in S : q.team[e] = t}
           K == Range(q.team) \cup {NoTeam}
           G == [t \in K |-> SumFunctionOnSet(f, M(t))]
           most == [e \in S |-> now[e]]
           teams == SumFunction([t \in TeamsOf(q) |-> after[t]["tracked"]])
           alone == SumFunction([e \in Members(q, NoTeam) |-> after[e]["tracked"]])
<1>1. PICK floor :
          /\ floor \in [S -> Nat]
          /\ q.least = SumFunctionOnSet(floor, S)
          /\ \A e \in S : floor[e] =< f[e] /\ f[e] =< most[e] /\ f[e] \in Nat
  BY DEF RunOK, RowsInBetween
<1>2. /\ S \subseteq Staff /\ IsFiniteSet(S) /\ \A e \in S : q.team[e] \in K
      /\ Range(q.team) \subseteq Teams \cup {NoTeam} /\ NoTeam \notin Teams /\ IsFiniteSet(K)
      /\ Numbers(f, S) /\ Numbers(floor, S) /\ Numbers(most, S)
  <2>1. S \subseteq Staff /\ Range(q.team) \subseteq Teams \cup {NoTeam}
    BY DEF RunOK, Selection, Range
  <2>2. IsFiniteSet(S) /\ NoTeam \notin Teams
    BY <2>1, FS_Subset, RollupAssumption
  <2>3. IsFiniteSet(Teams \cup {NoTeam}) /\ K \in SUBSET (Teams \cup {NoTeam})
    BY <2>1, FS_AddElement, RollupAssumption
  <2>4. IsFiniteSet(K)
    BY <2>3, FS_Subset
  <2>5. \A e \in S : most[e] \in Nat
    BY <2>1
  <2>6. \A e \in S : q.team[e] \in K
    BY DEF Range
  <2>7. Numbers(f, S) /\ Numbers(floor, S) /\ Numbers(most, S)
    <3>1. \A e \in S : f[e] \in Int /\ floor[e] \in Int /\ most[e] \in Int
      <4>1. \A e \in S : f[e] \in Nat /\ floor[e] \in Nat
        BY <1>1
      <4> HIDE DEF f, most
      <4> QED BY <4>1, <2>5
    <3> HIDE DEF f, most, S
    <3> QED BY <2>2, <3>1 DEF Numbers
  <2> HIDE DEF f, most, S, K
  <2> QED BY <2>1, <2>2, <2>4, <2>6, <2>7
<1>3. \A t \in K : Numbers(f, M(t)) /\ G[t] = SumFunctionOnSet(f, M(t))
  <2>1. \A t \in K : M(t) \in SUBSET S
    OBVIOUS
  <2> HIDE DEF f, S, M
  <2> QED BY <1>2, <2>1, NumbersOfSubset
<1>4. SumFunctionOnSet(G, K) = SumFunctionOnSet(f, S)
  <2> DEFINE part == [t \in K |-> M(t)]
  <2>1. \A t \in K : G[t] = SumFunctionOnSet(f, part[t])
    BY <1>3
  <2>2. Groups(part, K, S)
    <3>1. \A e \in S : q.team[e] \in K
      BY <1>2
    <3> HIDE DEF K, S
    <3> QED BY <3>1 DEF Groups
  <2>3. IsFiniteSet(K) /\ Numbers(f, S)
    BY <1>2
  <2> HIDE DEF f, S, K, G, part
  <2> QED BY <2>1, <2>2, <2>3, SumOfGroups
<1>5. Numbers(G, K)
  <2>1. \A t \in K : SumFunctionOnSet(f, M(t)) \in Int
    <3> HIDE DEF f, M
    <3> QED BY <1>3, SumType
  <2> QED BY <1>2, <1>3, <2>1 DEF Numbers
<1>6. SumFunctionOnSet(G, K) = G[NoTeam] + SumFunctionOnSet(G, K \ {NoTeam})
  <2>1. NoTeam \in K
    OBVIOUS
  <2> HIDE DEF G, K
  <2> QED BY <1>5, <2>1, SumRemove
<1>7. teams = SumFunctionOnSet(G, K \ {NoTeam})
  <2> DEFINE rowOf == [t \in TeamsOf(q) |-> after[t]["tracked"]]
  <2>1. teams = SumFunctionOnSet(rowOf, K \ {NoTeam})
    <3>1. TeamsOf(q) = K \ {NoTeam}
      BY DEF TeamsOf
    <3> QED BY <3>1 DEF SumFunction
  <2>2. ASSUME NEW t \in K \ {NoTeam} PROVE rowOf[t] = G[t]
    <3>1. t \in TeamsOf(q) /\ t \in DOMAIN q.rows /\ Members(q, t) = M(t)
      BY DEF Members, TeamsOf
    <3>2. rowOf[t] = SumFunctionOnSet([e \in M(t) |-> q.rows[e]["tracked"]], M(t))
      BY <3>1 DEF RunOK, TeamSum
    <3>3. SumFunctionOnSet([e \in M(t) |-> q.rows[e]["tracked"]], M(t)) = SumFunctionOnSet(f, M(t))
      <4>1. \A e \in M(t) : [x \in M(t) |-> q.rows[x]["tracked"]][e] = f[e]
        OBVIOUS
      <4> HIDE DEF f, M
      <4> QED BY <4>1, <1>3, SumAgrees
    <3> QED BY <3>2, <3>3
  <2>3. Numbers(G, K \ {NoTeam})
    <3> HIDE DEF G, K
    <3> QED BY <1>5, NumbersOfSubset
  <2> HIDE DEF rowOf, G, K
  <2> QED BY <2>1, <2>2, <2>3, SumAgrees
<1>8. alone = G[NoTeam]
  <2> DEFINE own == [e \in M(NoTeam) |-> after[e]["tracked"]]
  <2>1. alone = SumFunctionOnSet(own, M(NoTeam))
    BY DEF SumFunction, Members
  <2>2. \A e \in M(NoTeam) : own[e] = f[e]
    OBVIOUS
  <2>3. Numbers(f, M(NoTeam)) /\ G[NoTeam] = SumFunctionOnSet(f, M(NoTeam))
    BY <1>3
  <2> HIDE DEF own, f, M
  <2> QED BY <2>1, <2>2, <2>3, SumAgrees
<1>9. /\ q.least =< SumFunctionOnSet(f, S)
      /\ SumFunctionOnSet(f, S) =< SumFunctionOnSet(most, S)
  <2> HIDE DEF f, most, S
  <2> QED BY <1>1, <1>2, SumMonotone
<1>10. SumFunctionOnSet(f, S) = teams + alone
  <2> HIDE DEF f, S, K, teams, alone
  <2>1. SumFunctionOnSet(G, K \ {NoTeam}) \in Int /\ G[NoTeam] \in Int
    <3>1. NoTeam \in K
      BY DEF K
    <3> HIDE DEF G
    <3>2. Numbers(G, K \ {NoTeam})
      BY <1>5, NumbersOfSubset
    <3> QED BY <1>5, <3>1, <3>2, SumType DEF Numbers
  <2> HIDE DEF G
  <2> QED BY <1>4, <1>6, <1>7, <1>8, <2>1
<1>11. Counted(q, after) = teams + alone
  BY DEF Counted
<1> HIDE DEF f, teams, alone
<1> QED BY <1>9, <1>10, <1>11

\* At the start no run is at work.
LEMMA RollupInitInv == RollupInit => RollupInv
<1> SUFFICES ASSUME RollupInit PROVE RollupInv
  OBVIOUS
<1>1. RollupTypeOK
  BY RollupAssumption DEF RollupInit, RollupTypeOK
<1>2. \A r \in RollupRuns : recompute[r] = NoRollupRun
  BY DEF RollupInit
<1> QED BY <1>1, <1>2, RunIdle DEF RollupInv

\* The seconds there are of each employee are a number.
LEMMA NowIsNumber ==
    ASSUME RollupTypeOK
    PROVE  \A e \in Staff : Now[e] \in Nat /\ Now[e] = TotalSeconds(e)
BY SecondsAreNumbers DEF Now, TotalSeconds, RollupTypeOK

\* A run begins.
LEMMA StartRunStep ==
    ASSUME RollupInv, NEW r \in RollupRuns, StartRun(r)
    PROVE  RollupInv'
<1> DEFINE q == recompute'[r]
           start == [on |-> TRUE, team |-> Restrict(team, active), rows |-> <<>>, new |-> {},
                     dirty |-> <<>>, least |-> Seconds(active), alone |-> TRUE]
<1>1. /\ recompute' = [recompute EXCEPT ![r] = start]
      /\ UNCHANGED <<team, active, activity, rollups>>
  BY DEF StartRun
<1> HIDE DEF start
<1>2. RollupTypeOK' /\ q = start /\ \A i \in RollupRuns : i # r => recompute'[i] = recompute[i]
  BY <1>1 DEF RollupInv, RollupTypeOK
<1>3. Now' = Now /\ \A e \in Staff : Now[e] \in Nat
  BY <1>1, NowIsNumber DEF Now, TotalSeconds, RollupInv
<1>5. /\ active \subseteq Staff /\ DOMAIN Restrict(team, active) = active
      /\ \A e \in active : Restrict(team, active)[e] = team[e] /\ team[e] \in Teams \cup {NoTeam}
  BY DEF Restrict, RollupInv, RollupTypeOK
<1>6. /\ Selection(start) /\ DOMAIN start.team = active /\ DOMAIN start.rows = {}
      /\ start.least = Seconds(active)
  BY <1>5 DEF Selection, start
<1>7. Seconds(active) = SumFunctionOnSet([e \in active |-> Now[e]], active)
  <2>1. [e \in active |-> TotalSeconds(e)] = [e \in active |-> Now[e]]
    BY <1>5, NowIsNumber DEF RollupInv
  <2> QED BY <2>1 DEF Seconds, SumFunction
<1>8. RunOK(start, rollups, Now)
  BY <1>3, <1>5, <1>6, <1>7, RunStarts
<1>9. \A i \in RollupRuns : RunOK(recompute'[i], rollups', Now')
  BY <1>1, <1>2, <1>3, <1>8 DEF RollupInv
<1> QED BY <1>2, <1>9 DEF RollupInv

\* A step of one run: the others keep what they have.
LEMMA OneRunSteps ==
    ASSUME RollupInv, NEW r \in RollupRuns, NEW p, recompute' = [recompute EXCEPT ![r] = p],
           UNCHANGED <<team, active, activity, rollups>>, RunOK(p, rollups, Now)
    PROVE  RollupInv'
<1>1. /\ RollupTypeOK' /\ recompute'[r] = p
      /\ \A i \in RollupRuns : i # r => recompute'[i] = recompute[i]
  BY DEF RollupInv, RollupTypeOK
<1>2. Now' = Now
  BY DEF Now, TotalSeconds
<1>3. \A i \in RollupRuns : RunOK(recompute'[i], rollups', Now')
  BY <1>1, <1>2 DEF RollupInv
<1> QED BY <1>1, <1>3 DEF RollupInv

\* An employee's row is computed.
LEMMA ComputeEmployeeStep ==
    ASSUME RollupInv, NEW r \in RollupRuns, NEW e \in Staff, ComputeEmployee(r, e)
    PROVE  RollupInv'
<1>1. PICK key : recompute' = [recompute EXCEPT ![r] = Flushed(@, e, RollupOf(e, key))]
  BY DEF ComputeEmployee
<1> DEFINE q == recompute[r]
           row == RollupOf(e, key)
           p == Flushed(q, e, row)
<1>2. /\ e \in DOMAIN q.team \ DOMAIN q.rows
      /\ UNCHANGED <<team, active, activity, rollups>>
  BY DEF ComputeEmployee
<1>3. RunOK(q, rollups, Now) /\ Selection(q)
  BY DEF RollupInv, RunOK
<1>4. row["tracked"] = Now[e] /\ Now[e] \in Nat /\ e \notin Teams
  BY NowIsNumber, RollupAssumption DEF RollupInv, RollupOf, Columns
<1>5. recompute' = [recompute EXCEPT ![r] = p]
  BY <1>1
<1>6. Adds(p, q, e, row, rollups)
  <2> HIDE DEF q, row
  <2> QED BY <1>2, <1>3, FlushAdds
<1> HIDE DEF q, row, p
<1>7. RunOK(p, rollups, Now)
  BY <1>2, <1>3, <1>4, <1>6, EmployeeAdded
<1> QED BY <1>2, <1>5, <1>7, OneRunSteps

\* A team's row is aggregated.
LEMMA AggregateTeamStep ==
    ASSUME RollupInv, NEW r \in RollupRuns, NEW t \in Teams, AggregateTeam(r, t)
    PROVE  RollupInv'
<1> DEFINE q == recompute[r]
           row == SumOf(q, t)
           p == Flushed(q, t, row)
<1>1. /\ recompute' = [recompute EXCEPT ![r] = p]
      /\ DOMAIN q.team \subseteq DOMAIN q.rows /\ t \in TeamsOf(q) \ DOMAIN q.rows
      /\ UNCHANGED <<team, active, activity, rollups>>
  BY DEF AggregateTeam
<1>2. RunOK(q, rollups, Now) /\ Selection(q)
  BY DEF RollupInv, RunOK
<1>3. row["tracked"] =
          SumFunctionOnSet([e \in Members(q, t) |-> q.rows[e]["tracked"]], Members(q, t))
  BY DEF SumOf, SumFunction, Columns
<1>4. Adds(p, q, t, row, rollups)
  <2> HIDE DEF q, row
  <2> QED BY <1>1, <1>2, FlushAdds
<1> HIDE DEF q, row, p
<1>5. RunOK(p, rollups, Now)
  BY <1>1, <1>2, <1>3, <1>4, TeamAdded
<1> QED BY <1>1, <1>5, OneRunSteps

\* A run commits: the others are no longer alone.
LEMMA CommitRunStep ==
    ASSUME RollupInv, NEW r \in RollupRuns, CommitRun(r)
    PROVE  RollupInv'
<1>1. /\ recompute' = [i \in RollupRuns |-> IF i = r THEN NoRollupRun
                                          ELSE [recompute[i] EXCEPT !.alone = FALSE]]
      /\ UNCHANGED <<team, active, activity>>
  BY DEF CommitRun
<1>2. RollupTypeOK' /\ Now' = Now
  BY <1>1 DEF RollupInv, RollupTypeOK, Now, TotalSeconds
<1>3. RunOK(NoRollupRun, rollups', Now)
  BY RunIdle
<1>4. \A q : RunOK(q, rollups, Now) => RunOK([q EXCEPT !.alone = FALSE], rollups', Now)
  BY RunNotAlone
<1>5. \A i \in RollupRuns : RunOK(recompute'[i], rollups', Now)
  BY <1>1, <1>3, <1>4 DEF RollupInv
<1> QED BY <1>2, <1>5 DEF RollupInv

\* Every step keeps the invariant.
LEMMA RollupStep ==
    ASSUME RollupInv, [RollupNext]_rollupVars
    PROVE  RollupInv'
<1> USE DEF RollupInv
<1>1. ASSUME RollupTypeOK', UNCHANGED <<recompute, rollups>>,
             \A e \in Staff : \A s \in Subjects : activity[e][s] =< activity'[e][s]
      PROVE  RollupInv'
  <2>1. \A e \in Staff : TotalSeconds(e) =< TotalSeconds(e)'
    BY <1>1, SecondsGrow DEF RollupTypeOK, TotalSeconds
  <2>2. \A e \in Staff : /\ Now[e] \in Nat /\ Now'[e] \in Nat
                         /\ Now[e] = TotalSeconds(e) /\ Now'[e] = TotalSeconds(e)'
    BY <1>1, SecondsAreNumbers DEF Now, TotalSeconds, RollupTypeOK
  <2>3. \A e \in Staff : Now[e] =< Now'[e]
    BY <2>1, <2>2
  <2>4. \A q : RunOK(q, rollups, Now) => RunOK(q, rollups, Now')
    BY <2>2, <2>3, RunLater
  <2> QED BY <1>1, <2>4
<1>2. ASSUME RollupTypeOK', UNCHANGED <<activity, recompute, rollups>> PROVE RollupInv'
  <2>1. \A e \in Staff : \A s \in Subjects : activity[e][s] =< activity'[e][s]
    BY <1>2 DEF RollupTypeOK
  <2> QED BY <1>1, <1>2, <2>1
<1>3. ASSUME NEW e \in Staff, NEW t \in Teams \cup {NoTeam}, Move(e, t) PROVE RollupInv'
  BY <1>2, <1>3 DEF Move, RollupTypeOK
<1>4. ASSUME NEW e \in Staff, Deactivate(e) PROVE RollupInv'
  BY <1>2, <1>4 DEF Deactivate, RollupTypeOK
<1>5. ASSUME UNCHANGED <<team, active, activity, recompute, rollups>> PROVE RollupInv'
  BY <1>2, <1>5 DEF RollupTypeOK
<1>6. ASSUME NEW e \in Staff, NEW s \in Subjects, ReportActivity(e, s) PROVE RollupInv'
  <2>1. RollupTypeOK'
    BY <1>6 DEF ReportActivity, RollupTypeOK
  <2>2. \A x \in Staff : \A y \in Subjects : activity[x][y] =< activity'[x][y]
    BY <1>6 DEF ReportActivity, RollupTypeOK
  <2> QED BY <1>1, <1>6, <2>1, <2>2 DEF ReportActivity
<1>7. ASSUME NEW r \in RollupRuns, AbortRun(r) PROVE RollupInv'
  <2>1. RunOK(NoRollupRun, rollups, Now)
    BY RunIdle
  <2>2. /\ recompute' = [recompute EXCEPT ![r] = NoRollupRun]
        /\ UNCHANGED <<team, active, activity, rollups>>
    BY <1>7 DEF AbortRun
  <2> QED BY <2>1, <2>2, OneRunSteps
<1>8. CASE UNCHANGED rollupVars
  BY <1>5, <1>8 DEF rollupVars
<1>9. CASE RollupNext
  BY <1>3, <1>4, <1>5, <1>6, <1>7, <1>9, StartRunStep, ComputeEmployeeStep, AggregateTeamStep,
     CommitRunStep DEF RollupNext, UpsertCategory, Classify, ListCategories
<1> QED BY <1>8, <1>9

\* A run of compute_org_rollups during which no other run commits leaves the
\* rows of its teams, and of its employees in none, with each second of its
\* employees once: whoever moves, leaves or works meanwhile, whatever rows
\* overlapping runs had left, for any number of runs, employees and teams.
THEOREM EachSecondCountedOnceAlways == RollupSpec => EachSecondCountedOnce
<1>1. ASSUME RollupInv, NEW r \in RollupRuns, CommitRun(r), recompute[r].alone
      PROVE  /\ recompute[r].least =< Counted(recompute[r], rollups')
             /\ Counted(recompute[r], rollups') =< Seconds(DOMAIN recompute[r].team)
  <2> DEFINE q == recompute[r]
  <2>1. RunOK(q, rollups, Now) /\ DOMAIN q.team \subseteq Staff /\ \A e \in Staff : Now[e] \in Nat
    BY <1>1, NowIsNumber DEF RollupInv, RunOK, Selection
  <2>2. /\ DOMAIN q.rows = DOMAIN q.team \cup TeamsOf(q)
        /\ \A x \in DOMAIN q.rows :
              rollups'[x]["tracked"] = IF "tracked" \in q.dirty[x] THEN q.rows[x]["tracked"]
                                       ELSE rollups[x]["tracked"]
    BY <1>1 DEF CommitRun, Columns
  <2>3. \A x \in DOMAIN q.rows : UpToDate(q, rollups, x)
    BY <1>1, <2>1 DEF RunOK
  <2>4. \A x \in DOMAIN q.rows : rollups'[x]["tracked"] = q.rows[x]["tracked"]
    BY <2>2, <2>3 DEF UpToDate
  <2>5. Seconds(DOMAIN q.team) = SumFunctionOnSet([e \in DOMAIN q.team |-> Now[e]], DOMAIN q.team)
    <3>1. [e \in DOMAIN q.team |-> TotalSeconds(e)] = [e \in DOMAIN q.team |-> Now[e]]
      BY <1>1, <2>1, NowIsNumber DEF RollupInv
    <3> QED BY <3>1 DEF Seconds, SumFunction
  <2> HIDE DEF q
  <2>6. /\ q.least =< Counted(q, rollups')
        /\ Counted(q, rollups') =< SumFunctionOnSet([e \in DOMAIN q.team |-> Now[e]], DOMAIN q.team)
    BY <2>1, <2>2, <2>4, CountedOnce
  <2>7. q.least =< Counted(q, rollups') /\ Counted(q, rollups') =< Seconds(DOMAIN q.team)
    BY <2>5, <2>6
  <2> QED BY <2>7 DEF q
<1>2. RollupInv /\ [RollupNext]_rollupVars =>
        [\A r \in RollupRuns :
            LET q == recompute[r] IN
            CommitRun(r) /\ q.alone =>
                q.least =< Counted(q, rollups') /\ Counted(q, rollups') =< Seconds(DOMAIN q.team)
        ]_rollupVars
  BY <1>1
<1>3. RollupInv /\ [RollupNext]_rollupVars => RollupInv'
  BY RollupStep
<1> QED BY RollupInitInv, <1>2, <1>3, PTL DEF RollupSpec, EachSecondCountedOnce

-----------------------------------------------------------------------------
(* Policies *)

PolicyTypeOK == policies \subseteq PolicyIds /\ assignments \subseteq Assignable

\* The row found at level n, and the two walks up to it.
RowAt(f, n) == f[LEVEL_ORDER[n]]

Applied(f) ==
    LET s1 == ApplyLevel(Baseline, RowAt(f, 1))
        s2 == ApplyLevel(s1, RowAt(f, 2))
        s3 == ApplyLevel(s2, RowAt(f, 3))
    IN  ApplyLevel(s3, RowAt(f, 4))

Inherited(f) ==
    LET s1 == Inherit(Baseline, RowAt(f, 1))
        s2 == Inherit(s1, RowAt(f, 2))
        s3 == Inherit(s2, RowAt(f, 3))
    IN  Inherit(s3, RowAt(f, 4))

LEMMA FourLevels == Len(LEVEL_ORDER) = 4
BY DEF LEVEL_ORDER

\* The walk over the levels of resolve_kind, written out.
LEMMA ResolveUnfolds ==
    ASSUME NEW f PROVE ResolveKind(f) = Applied(f).policy
<1> DEFINE s1 == ApplyLevel(Baseline, RowAt(f, 1))
           s2 == ApplyLevel(s1, RowAt(f, 2))
           s3 == ApplyLevel(s2, RowAt(f, 3))
           s4 == ApplyLevel(s3, RowAt(f, 4))
           w == [n \in 0..4 |-> IF n = 0 THEN Baseline ELSE IF n = 1 THEN s1 ELSE IF n = 2 THEN s2
                                ELSE IF n = 3 THEN s3 ELSE s4]
           Walk(g) == g = [n \in 0..4 |-> IF n = 0 THEN Baseline ELSE ApplyLevel(g[n - 1], RowAt(f, n))]
           e == CHOOSE g : Walk(g)
<1>1. Walk(w)
  <2> HIDE DEF s1, s2, s3, s4
  <2>1. s1 = ApplyLevel(Baseline, RowAt(f, 1)) /\ s2 = ApplyLevel(s1, RowAt(f, 2))
    BY DEF s1, s2
  <2>2. s3 = ApplyLevel(s2, RowAt(f, 3)) /\ s4 = ApplyLevel(s3, RowAt(f, 4))
    BY DEF s3, s4
  <2>3. \A n \in 0..4 : w[n] = IF n = 0 THEN Baseline ELSE ApplyLevel(w[n - 1], RowAt(f, n))
    <3> TAKE n \in 0..4
    <3>1. n = 0 \/ n = 1 \/ n = 2 \/ n = 3 \/ n = 4
      OBVIOUS
    <3> QED BY <2>1, <2>2, <3>1
  <2> QED BY <2>3
<1>2. Walk(e)
  <2> HIDE DEF Walk, w
  <2> QED BY <1>1
<1>3. ResolveKind(f) = e[4].policy
  BY FourLevels DEF ResolveKind, RowAt
<1>4. e[4] = s4
  <2> HIDE DEF e
  <2>1. /\ e[0] = Baseline /\ e[1] = ApplyLevel(e[0], RowAt(f, 1)) /\ e[2] = ApplyLevel(e[1], RowAt(f, 2))
        /\ e[3] = ApplyLevel(e[2], RowAt(f, 3)) /\ e[4] = ApplyLevel(e[3], RowAt(f, 4))
    BY <1>2
  <2> QED BY <2>1, Zenon
<1> QED BY <1>3, <1>4, Zenon DEF Applied

\* The documented walk, written out.
LEMMA DocumentedUnfolds ==
    ASSUME NEW f PROVE Documented(f) = Inherited(f).policy
<1> DEFINE s1 == Inherit(Baseline, RowAt(f, 1))
           s2 == Inherit(s1, RowAt(f, 2))
           s3 == Inherit(s2, RowAt(f, 3))
           s4 == Inherit(s3, RowAt(f, 4))
           w == [n \in 0..4 |-> IF n = 0 THEN Baseline ELSE IF n = 1 THEN s1 ELSE IF n = 2 THEN s2
                                ELSE IF n = 3 THEN s3 ELSE s4]
           Walk(g) == g = [n \in 0..4 |-> IF n = 0 THEN Baseline ELSE Inherit(g[n - 1], RowAt(f, n))]
           e == CHOOSE g : Walk(g)
<1>1. Walk(w)
  <2> HIDE DEF s1, s2, s3, s4
  <2>1. s1 = Inherit(Baseline, RowAt(f, 1)) /\ s2 = Inherit(s1, RowAt(f, 2))
    BY DEF s1, s2
  <2>2. s3 = Inherit(s2, RowAt(f, 3)) /\ s4 = Inherit(s3, RowAt(f, 4))
    BY DEF s3, s4
  <2>3. \A n \in 0..4 : w[n] = IF n = 0 THEN Baseline ELSE Inherit(w[n - 1], RowAt(f, n))
    <3> TAKE n \in 0..4
    <3>1. n = 0 \/ n = 1 \/ n = 2 \/ n = 3 \/ n = 4
      OBVIOUS
    <3> QED BY <2>1, <2>2, <3>1
  <2> QED BY <2>3
<1>2. Walk(e)
  <2> HIDE DEF Walk, w
  <2> QED BY <1>1
<1>3. Documented(f) = e[4].policy
  BY FourLevels DEF Documented, RowAt
<1>4. e[4] = s4
  <2> HIDE DEF e
  <2>1. /\ e[0] = Baseline /\ e[1] = Inherit(e[0], RowAt(f, 1)) /\ e[2] = Inherit(e[1], RowAt(f, 2))
        /\ e[3] = Inherit(e[2], RowAt(f, 3)) /\ e[4] = Inherit(e[3], RowAt(f, 4))
    BY <1>2
  <2> QED BY <2>1, Zenon
<1> QED BY <1>3, <1>4, Zenon DEF Inherited

State == [policy: PolicyIds \cup {PolicyDefault}, allowed: BOOLEAN]

\* A row found at a level: of a policy that exists, or one that does not count.
RowOK(a) == a.policy \in policies => a.policy \in PolicyIds /\ a.allow \in BOOLEAN

\* One level of the code and of the docstring do the same, unless the level's
\* row exists and permits what was forbidden.
LEMMA SameLevel ==
    ASSUME NEW st, st \in State, NEW a, RowOK(a),
           a.policy \in policies => st.allowed \/ ~ a.allow
    PROVE  /\ ApplyLevel(st, a) = Inherit(st, a) /\ Inherit(st, a) \in State
           /\ ~ Inherit(st, a).allowed => ~ st.allowed \/ (a.policy \in policies /\ ~ a.allow)
<1>1. CASE a.policy \notin policies
  BY <1>1 DEF ApplyLevel, Inherit
<1>2. CASE a.policy \in policies /\ st.allowed
  BY <1>2 DEF ApplyLevel, Inherit, State, RowOK
<1>3. CASE a.policy \in policies /\ ~ st.allowed
  <2>1. a.allow = FALSE /\ st.allowed = FALSE
    BY <1>3 DEF RowOK, State
  <2>2. ApplyLevel(st, a) = [policy |-> st.policy, allowed |-> FALSE]
    BY <1>3, <2>1 DEF ApplyLevel
  <2>3. st = [policy |-> st.policy, allowed |-> FALSE]
    BY <2>1 DEF State
  <2>4. Inherit(st, a) = st
    BY <1>3 DEF Inherit
  <2> QED BY <2>1, <2>2, <2>3, <2>4
<1> QED BY <1>1, <1>2, <1>3

\* The rows of a pick.
LEMMA PickedRows ==
    ASSUME PolicyTypeOK, NEW f \in Picks, NEW n \in 1..4
    PROVE  RowOK(RowAt(f, n)) /\ (RowAt(f, n).policy \in policies <=> LEVEL_ORDER[n] \in KnownIn(f))
<1>1. LEVEL_ORDER[n] \in ToSet(LEVEL_ORDER)
  BY DEF LEVEL_ORDER, ToSet
<1>2. RowAt(f, n) \in ChosenAt(LEVEL_ORDER[n])
  BY <1>1 DEF Picks, RowAt
<1>3. RowAt(f, n) = NoAssignment \/ RowAt(f, n) \in assignments
  BY <1>2 DEF ChosenAt, ByLevel
<1>4. RowOK(RowAt(f, n))
  BY <1>3, PolicyAssumption DEF RowOK, NoAssignment, PolicyTypeOK
<1> QED BY <1>1, <1>4 DEF KnownIn, RowAt

LEMMA PolicyStep == PolicyTypeOK /\ [PolicyNext]_policyVars => PolicyTypeOK'
BY DEF PolicyTypeOK, PolicyNext, CreatePolicy, AssignPolicy, policyVars

\* The code's walk over the levels (resolve_kind) finds what the docstring
\* promises unless a level that forbids to override is followed by one that
\* permits it: for any policies, priorities and assignments.
THEOREM ResolvedAsDocumentedAlways == PolicySpec => []ResolvedAsDocumented
<1>1. PolicyTypeOK => ResolvedAsDocumented
  <2> SUFFICES ASSUME PolicyTypeOK, NEW f \in Picks,
                      ~ \E i, j \in 1..Len(LEVEL_ORDER) :
                            /\ i < j /\ {LEVEL_ORDER[i], LEVEL_ORDER[j]} \subseteq KnownIn(f)
                            /\ ~ f[LEVEL_ORDER[i]].allow /\ f[LEVEL_ORDER[j]].allow
               PROVE  ResolveKind(f) = Documented(f)
    BY DEF ResolvedAsDocumented
  <2> DEFINE Known(n) == RowAt(f, n).policy \in policies
             Allows(n) == RowAt(f, n).allow
             s1 == Inherit(Baseline, RowAt(f, 1))
             s2 == Inherit(s1, RowAt(f, 2))
             s3 == Inherit(s2, RowAt(f, 3))
  <2>1. \A i, j \in 1..4 : i < j /\ Known(i) /\ Known(j) /\ Allows(j) => Allows(i)
    BY FourLevels, PickedRows DEF RowAt
  <2>2. \A n \in 1..4 : RowOK(RowAt(f, n))
    BY PickedRows
  <2>3. Baseline \in State /\ Baseline.allowed
    BY DEF Baseline, State
  <2>4. /\ ApplyLevel(Baseline, RowAt(f, 1)) = s1 /\ s1 \in State
        /\ ~ s1.allowed => Known(1) /\ ~ Allows(1)
    BY <2>2, <2>3, SameLevel
  <2> HIDE DEF s1
  <2>5. /\ ApplyLevel(s1, RowAt(f, 2)) = s2 /\ s2 \in State
        /\ ~ s2.allowed => (Known(1) /\ ~ Allows(1)) \/ (Known(2) /\ ~ Allows(2))
    <3>1. Known(2) => s1.allowed \/ ~ Allows(2)
      BY <2>1, <2>4
    <3> QED BY <2>2, <2>4, <3>1, SameLevel
  <2> HIDE DEF s2
  <2>6. /\ ApplyLevel(s2, RowAt(f, 3)) = s3 /\ s3 \in State
        /\ ~ s3.allowed =>
               \/ Known(1) /\ ~ Allows(1)
               \/ Known(2) /\ ~ Allows(2)
               \/ Known(3) /\ ~ Allows(3)
    <3>1. Known(3) => s2.allowed \/ ~ Allows(3)
      BY <2>1, <2>5
    <3> QED BY <2>2, <2>5, <3>1, SameLevel
  <2> HIDE DEF s3
  <2>7. ApplyLevel(s3, RowAt(f, 4)) = Inherit(s3, RowAt(f, 4))
    <3>1. Known(4) => s3.allowed \/ ~ Allows(4)
      BY <2>1, <2>6
    <3> QED BY <2>2, <2>6, <3>1, SameLevel
  <2>8. Applied(f) = Inherited(f)
    BY <2>4, <2>5, <2>6, <2>7, Zenon DEF Applied, Inherited, s1, s2, s3
  <2> QED BY <2>8, ResolveUnfolds, DocumentedUnfolds
<1>2. PolicyInit => PolicyTypeOK
  BY DEF PolicyInit, PolicyTypeOK
<1> QED BY <1>1, <1>2, PolicyStep, PTL DEF PolicySpec

-----------------------------------------------------------------------------
(* Schedules *)

SchedTypeOK == /\ schedules \in [ScheduleIds -> Definitions \cup {NoSchedule}]
               /\ schedAssignments \subseteq SchedAssignable

\* What is assigned has been created (assign_schedule), and is never replaced.
AssignedExist == \A a \in schedAssignments : schedules[a.schedule] \in Definitions

ScheduleInv == SchedTypeOK /\ AssignedExist

LEMMA ScheduleStep == ScheduleInv /\ [ScheduleNext]_scheduleVars => ScheduleInv'
<1> SUFFICES ASSUME ScheduleInv, [ScheduleNext]_scheduleVars PROVE ScheduleInv'
  OBVIOUS
<1> USE ScheduleAssumption DEF ScheduleInv, SchedTypeOK, AssignedExist
<1>1. \A d \in Definitions : d # NoSchedule
  BY DefinitionAssumption DEF NoSchedule
<1>2. ASSUME NEW s \in ScheduleIds, NEW d \in Definitions, CreateSchedule(s, d) PROVE ScheduleInv'
  BY <1>1, <1>2 DEF CreateSchedule
<1>3. ASSUME NEW a \in SchedAssignable, AssignSchedule(a) PROVE ScheduleInv'
  BY <1>1, <1>3 DEF AssignSchedule
<1>4. CASE UNCHANGED scheduleVars
  BY <1>4 DEF scheduleVars
<1> QED BY <1>2, <1>3, <1>4 DEF ScheduleNext

\* A definition has only windows between hours of the day.
LEMMA WindowsAreHours ==
    ASSUME NEW s \in Definitions, NEW day \in Int
    PROVE  WindowsForDay(s, day) \subseteq Windows
<1> USE DefinitionAssumption
<1>1. CASE s.type = "fixed"
  BY <1>1 DEF WindowsForDay, On, WindowsBy
<1>2. CASE s.type = "custom"
  BY <1>2 DEF WindowsForDay, On, WindowsBy
<1>3. CASE s.type = "flexible"
  BY <1>3 DEF WindowsForDay
<1>4. CASE s.type = "rotating"
  <2> DEFINE idx == ((day - s.anchor) \div 7) % s.cycle
  <2>1. DOMAIN s.weeks = 0..Cardinality(DOMAIN s.weeks) - 1 /\ Cardinality(DOMAIN s.weeks) \in Nat
    BY <1>4, FS_CardinalityType
  <2>3. idx \in Int /\ idx >= 0
    BY <1>4
  <2> HIDE DEF idx
  <2>4. idx < Cardinality(DOMAIN s.weeks) => idx \in DOMAIN s.weeks
    BY <2>1, <2>3
  <2>5. WindowsForDay(s, day) = RotatingWindows(s, day)
    BY <1>4 DEF WindowsForDay
  <2>6. RotatingWindows(s, day) = IF idx < Cardinality(DOMAIN s.weeks)
                                  THEN On(s.weeks[idx], day % 7) ELSE {}
    BY DEF RotatingWindows, idx
  <2>7. idx \in DOMAIN s.weeks => WindowsBy(s.weeks[idx])
    BY <1>4
  <2> QED BY <2>4, <2>5, <2>6, <2>7 DEF On, WindowsBy
<1> QED BY <1>1, <1>2, <1>3, <1>4

\* The arithmetic of _make: two local times less than a day apart, in UTC.
LEMMA MadeInOrder ==
    ASSUME NEW z, z \in Zones, NEW from, from \in Int, NEW to, to \in Int,
           from < to, to =< from + DayHours, ~ InGap(z, from)
    PROVE  ToUtc(z, from) < ToUtc(z, to) /\ ToUtc(z, to) =< ToUtc(z, from) + DayHours + 1
<1>1. PICK before \in Int, after \in Int, change \in Int :
          z.before = before /\ z.after = after /\ z.change = change /\ before - after =< 1
  BY DEF Zones
<1>2. ~ (after > before /\ from < change /\ from >= change - (after - before))
  BY <1>1 DEF InGap
<1>3. /\ ToUtc(z, from) = from - (IF from < change THEN before ELSE after)
      /\ ToUtc(z, to) = to - (IF to < change THEN before ELSE after)
  BY <1>1 DEF ToUtc
<1>4. CASE from < change /\ to >= change
  BY <1>1, <1>2, <1>3, <1>4 DEF DayHours
<1>5. CASE from >= change
  BY <1>1, <1>3, <1>5 DEF DayHours
<1>6. CASE to < change
  BY <1>1, <1>3, <1>6 DEF DayHours
<1> QED BY <1>1, <1>4, <1>5, <1>6

\* Every window of every day comes out in order, a day and the repeated hour
\* long at most, unless it starts in the skipped hour (compute_occurrences):
\* for any schedules, zones and days.
THEOREM WindowsInOrderAlways == ScheduleSpec => []WindowsInOrder
<1>1. ScheduleInv => WindowsInOrder
  <2> SUFFICES ASSUME ScheduleInv, NEW day \in PlanDays, NEW s \in Resolved(day),
                      NEW o \in ComputeOccurrences(s, day), ~ InGap(EffectiveTz(s), o.wall)
               PROVE  o.start < o.end /\ o.end =< o.start + DayHours + 1
    BY DEF WindowsInOrder
  <2>1. day \in Int /\ s \in Definitions
    BY ScheduleAssumption DEF ScheduleInv, AssignedExist, Resolved, InEffect
  <2>2. EffectiveTz(s) \in Zones
    BY <2>1, ScheduleAssumption, DefinitionAssumption DEF EffectiveTz
  <2>3. PICK w \in Windows : o = Make(day, w, EffectiveTz(s))
    BY <2>1, WindowsAreHours DEF ComputeOccurrences
  <2> DEFINE from == day * DayHours + w[1]
             to == (IF w[2] =< w[1] THEN day + 1 ELSE day) * DayHours + w[2]
  <2>4. /\ o.wall = from /\ o.start = ToUtc(EffectiveTz(s), from)
        /\ o.end = ToUtc(EffectiveTz(s), to)
    BY <2>3 DEF Make
  <2>5. from \in Int /\ to \in Int /\ from < to /\ to =< from + DayHours
    BY <2>1, <2>3 DEF Windows, DayHours
  <2> HIDE DEF from, to
  <2> QED BY <2>2, <2>4, <2>5, MadeInOrder
<1>2. ScheduleInit => ScheduleInv
  BY DEF ScheduleInit, ScheduleInv, SchedTypeOK, AssignedExist
<1> QED BY <1>1, <1>2, ScheduleStep, PTL DEF ScheduleSpec
=============================================================================
