------------------------------ MODULE Rollups ------------------------------
(***************************************************************************)
(* productivity/: the categories and classifications of an organization,   *)
(* and the job that adds up a day's activity per employee and per team.    *)
(* A run of the job is one transaction at READ COMMITTED.  Beat enqueues   *)
(* one every ten minutes and no lock keeps two of them apart, so that runs *)
(* overlap: the flush of a run writes the columns whose value differs from *)
(* what it has read, over what another run wrote meanwhile.  Departments   *)
(* are added up like teams; application and website events alike.  Weights,*)
(* the indicator and the numbers copied from attendance are left out.      *)
(***************************************************************************)
EXTENDS Integers, FiniteSets, Functions

CONSTANTS Staff, Teams, NoTeam, Subjects,
          Postings,         \* the teams employees can start in
          CustomCategories,
          RollupRuns,   \* bound: runs at a time
          MaxActivity,  \* bound: seconds of activity in the day
          MaxChanges    \* bound: changes of team, status and classification

Default == {"productive", "neutral", "unproductive"}
CategoryKeys == Default \cup CustomCategories
Scopes == Teams \cup {"organization"}
Columns == Default \cup {"tracked"}

ASSUME RollupAssumption == /\ IsFiniteSet(Staff) /\ IsFiniteSet(Teams) /\ IsFiniteSet(Subjects)
                           /\ NoTeam \notin Teams /\ Postings \subseteq [Staff -> Teams \cup {NoTeam}]
                           /\ "organization" \notin Teams /\ Staff \cap Teams = {}
                           /\ MaxActivity \in Nat /\ MaxChanges \in Nat

VARIABLES team, active,      \* employees
          categories,        \* productivity_categories, by key
          classified,        \* application_ and website_classifications
          activity,          \* the day's seconds by employee and subject
          changes,
          rollups,           \* daily_employee_ and daily_team_rollup: the day's
                             \* rows, by employee and by team
          recompute          \* run -> its transaction
rollupVars == <<team, active, categories, classified, activity, changes, rollups, recompute>>

\* team: the employees the run selected, with the team it read for each;
\* rows: what it has added up; new: the rows it inserts; dirty: the columns
\* it writes; least: the activity there was when it began; alone: no other
\* run has committed since.
NoRollupRun == [on |-> FALSE, team |-> <<>>, rows |-> <<>>, new |-> {}, dirty |-> <<>>,
                least |-> 0, alone |-> FALSE]

RollupInit == /\ team \in Postings
              /\ active = Staff /\ categories = {} /\ classified = {} /\ changes = 0
              /\ activity = [e \in Staff |-> [s \in Subjects |-> 0]]
              /\ rollups = <<>> /\ recompute = [r \in RollupRuns |-> NoRollupRun]

-----------------------------------------------------------------------------
(* The API and the agents *)

Change == changes < MaxChanges /\ changes' = changes + 1

\* update_employee
Move(e, t) == /\ Change /\ team' = [team EXCEPT ![e] = t]
              /\ UNCHANGED <<active, categories, classified, activity, rollups, recompute>>

Deactivate(e) == /\ Change /\ e \in active /\ active' = active \ {e}
                 /\ UNCHANGED <<team, categories, classified, activity, rollups, recompute>>

\* list_categories: ensure_default_categories, committed.
ListCategories == /\ Change /\ categories' = categories \cup Default
                  /\ UNCHANGED <<team, active, classified, activity, rollups, recompute>>

UpsertCategory(k) == /\ Change /\ categories' = categories \cup {k}
                     /\ UNCHANGED <<team, active, classified, activity, rollups, recompute>>

\* classify_application, classify_website: 422 for an unknown category.
Classify(s, k, scope) ==
    /\ Change /\ k \in categories \cup Default
    /\ categories' = categories \cup Default
    /\ classified' = classified \cup {[subject |-> s, key |-> k, scope |-> scope]}
    /\ UNCHANGED <<team, active, activity, rollups, recompute>>

TotalSeconds(e) == SumFunction(activity[e])

Seconds(S) == SumFunction([e \in S |-> TotalSeconds(e)])

\* An event of one second is stored.
ReportActivity(e, s) == /\ Seconds(Staff) < MaxActivity
                        /\ activity' = [activity EXCEPT ![e][s] = @ + 1]
                        /\ UNCHANGED <<team, active, categories, classified, changes,
                                       rollups, recompute>>

-----------------------------------------------------------------------------
(* compute_org_rollups *)

ClassRank(c) == IF c.scope = "organization" THEN 1 ELSE 3

\* _pick: the most specific match; of equal ones the first row.
Picked(s, t) ==
    LET matches == {c \in classified : c.subject = s /\ c.scope \in {"organization", t}}
        best == {c.key : c \in {m \in matches : \A n \in matches : ClassRank(n) =< ClassRank(m)}}
    IN  IF matches = {} THEN {"neutral"} ELSE best

StartRun(r) ==
    /\ ~ recompute[r].on
    /\ recompute' = [recompute EXCEPT ![r] =
          [on |-> TRUE, team |-> Restrict(team, active), rows |-> <<>>, new |-> {}, dirty |-> <<>>,
           least |-> Seconds(active), alone |-> TRUE]]
    /\ UNCHANGED <<team, active, categories, classified, activity, changes, rollups>>

\* The run looks for the row of x, inserts it or sets its columns.  Reading
\* what is added up and reading the row are one step.
Put(f, x, v) == [y \in DOMAIN f \cup {x} |-> IF y = x THEN v ELSE f[y]]

Flushed(q, x, row) ==
    [q EXCEPT !.rows = Put(@, x, row),
              !.new = IF x \in DOMAIN rollups THEN @ ELSE @ \cup {x},
              !.dirty = Put(@, x, {c \in Columns : x \in DOMAIN rollups => rollups[x][c] # row[c]})]

\* compute_employee_rollup
RollupOf(e, key) ==
    [c \in Columns |->
        IF c = "tracked" THEN TotalSeconds(e)
        ELSE SumFunction([s \in {x \in Subjects : key[x] = c} |-> activity[e][s]])]

ComputeEmployee(r, e) ==
    /\ e \in DOMAIN recompute[r].team \ DOMAIN recompute[r].rows
    /\ \E key \in [Subjects -> CategoryKeys] :
          /\ \A s \in Subjects : key[s] \in Picked(s, recompute[r].team[e])
          /\ recompute' = [recompute EXCEPT ![r] = Flushed(@, e, RollupOf(e, key))]
    /\ UNCHANGED <<team, active, categories, classified, activity, changes, rollups>>

\* _aggregate_group, of one team: one without members keeps the row it had.
TeamsOf(q) == Range(q.team) \ {NoTeam}

\* Mutant: the teams the employees are in by now.
MembersNow(q, t) == {e \in DOMAIN q.team : team[e] = t}

Members(q, t) == {e \in DOMAIN q.team : q.team[e] = t}

SumOf(q, t) == [c \in Columns |-> SumFunction([e \in Members(q, t) |-> q.rows[e][c]])]

AggregateTeam(r, t) ==
    LET q == recompute[r] IN
    /\ DOMAIN q.team \subseteq DOMAIN q.rows /\ t \in TeamsOf(q) \ DOMAIN q.rows
    /\ recompute' = [recompute EXCEPT ![r] = Flushed(q, t, SumOf(q, t))]
    /\ UNCHANGED <<team, active, categories, classified, activity, changes, rollups>>

\* The keys are unique: a row that the run found missing must be missing yet.
\* A row that another run has written but not committed makes this one wait.
CommitRun(r) ==
    LET q == recompute[r] IN
    /\ q.on /\ DOMAIN q.rows = DOMAIN q.team \cup TeamsOf(q)
    /\ q.new \cap DOMAIN rollups = {}
    /\ rollups' = [x \in DOMAIN rollups \cup DOMAIN q.rows |->
                      IF x \notin DOMAIN q.rows THEN rollups[x]
                      ELSE [c \in Columns |-> IF c \in q.dirty[x] THEN q.rows[x][c]
                                             ELSE rollups[x][c]]]
    /\ recompute' = [i \in RollupRuns |-> IF i = r THEN NoRollupRun
                                         ELSE [recompute[i] EXCEPT !.alone = FALSE]]
    /\ UNCHANGED <<team, active, categories, classified, activity, changes>>

\* An INSERT is refused, two runs wait for each other, or the worker stops.
AbortRun(r) == /\ recompute[r].on /\ recompute' = [recompute EXCEPT ![r] = NoRollupRun]
               /\ UNCHANGED <<team, active, categories, classified, activity, changes, rollups>>

RollupNext ==
    \/ \E e \in Staff, t \in Teams \cup {NoTeam} : Move(e, t)
    \/ \E e \in Staff : Deactivate(e)
    \/ \E k \in CategoryKeys : UpsertCategory(k)
    \/ \E s \in Subjects, k \in CategoryKeys, c \in Scopes : Classify(s, k, c)
    \/ \E e \in Staff, s \in Subjects : ReportActivity(e, s)
    \/ ListCategories
    \/ \E r \in RollupRuns :
          \/ StartRun(r) \/ CommitRun(r) \/ AbortRun(r)
          \/ \E e \in Staff : ComputeEmployee(r, e)
          \/ \E t \in Teams : AggregateTeam(r, t)

RollupSpec == RollupInit /\ [][RollupNext]_rollupVars

-----------------------------------------------------------------------------
(* Properties *)

\* What the rows of a run's teams hold, with those of its employees in none.
Counted(q, table) == SumFunction([t \in TeamsOf(q) |-> table[t]["tracked"]])
                     + SumFunction([e \in Members(q, NoTeam) |-> table[e]["tracked"]])

\* A run during which no other one commits leaves each second of its employees
\* counted once, whoever moved, left or worked meanwhile and whatever rows
\* overlapping runs had left before.  (An emptied team's row stays as it was.)
\* Runs that overlap may leave an employee's seconds in two teams, or old.
EachSecondCountedOnce ==
    [][\A r \in RollupRuns :
          LET q == recompute[r] IN
          CommitRun(r) /\ q.alone =>
              q.least =< Counted(q, rollups') /\ Counted(q, rollups') =< Seconds(DOMAIN q.team)]_rollupVars
=============================================================================
