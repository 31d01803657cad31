------------------------------ MODULE TaskTimer ------------------------------
(***************************************************************************)
(* projects/router.py: projects, tasks and the task timer.  A request      *)
(* reads (TimerLoad), and writes when its transaction commits; what other  *)
(* requests commit in between it does not see.  No index of                *)
(* task_time_entries keeps two entries of an employee from being open.     *)
(***************************************************************************)
EXTENDS Integers, Sequences

CONSTANTS Timekeepers,   \* employees
          Projects, Tasks,
          TimerRequests, \* bound: requests at work at the same time
          MaxEntries,    \* bound: entries started
          TimerHours     \* bound: the clock

Open == -1               \* ended_at is null
NoTask == <<>>           \* a row that is not there

ASSUME TimerAssumption ==
    MaxEntries \in Nat /\ TimerHours \in Nat /\ NoTask \notin Projects

VARIABLES
    projects,      \* rows of projects
    taskProject,   \* task -> its project, NoTask without a row
    timeEntries,   \* task_time_entries, in the order of their INSERT
    timerTxn,      \* request -> what it has read
    timerClock,
    raced          \* history: employees of whom two requests overlapped

timerVars == <<projects, taskProject, timeEntries, timerTxn, timerClock, raced>>
catalogue == <<projects, taskProject>>

TaskTimeEntry == [emp: Timekeepers, task: Tasks, start: 0..TimerHours,
                  end: {Open} \cup 0..TimerHours, duration: {Open} \cup 0..TimerHours]

TimerIdle == [op |-> "idle", emp |-> NoTask, task |-> NoTask, open |-> 0, at |-> 0]

-----------------------------------------------------------------------------
CreateProject(p) ==
    /\ p \notin projects
    /\ projects' = projects \cup {p}
    /\ UNCHANGED <<taskProject, timeEntries, timerTxn, timerClock, raced>>

\* 404 without the project.
CreateTask(k, p) ==
    /\ taskProject[k] = NoTask /\ p \in projects
    /\ taskProject' = [taskProject EXCEPT ![k] = p]
    /\ UNCHANGED <<projects, timeEntries, timerTxn, timerClock, raced>>

OpenEntries(e) == {i \in DOMAIN timeEntries :
                      timeEntries[i].emp = e /\ timeEntries[i].end = Open}

\* start: any open entry of the employee; stop: of the employee and task.
Candidates(op, e, k) ==
    {i \in OpenEntries(e) : op = "stop" => timeEntries[i].task = k}

\* .scalars().first() of an unordered query; stop without one is a 404.
TimerLoad(t, op, e, k) ==
    /\ timerTxn[t] = TimerIdle /\ taskProject[k] # NoTask
    /\ \E i \in IF op = "start" /\ Candidates(op, e, k) = {} THEN {0} ELSE Candidates(op, e, k) :
          timerTxn' = [timerTxn EXCEPT ![t] =
              [op |-> op, emp |-> e, task |-> k, open |-> i, at |-> timerClock]]
    /\ raced' = IF \E u \in TimerRequests : timerTxn[u].emp = e THEN raced \cup {e} ELSE raced
    /\ UNCHANGED <<catalogue, timeEntries, timerClock>>

\* ended_at and duration_seconds of the entry that was found open.
ClosedEntry(es, x) ==
    [i \in DOMAIN es |-> IF i # x.open THEN es[i]
                         ELSE [es[i] EXCEPT !.end = x.at, !.duration = x.at - es[i].start]]

\* Mutant: switching tasks leaves the old entry open.
KeepOpen(es, x) == Append(es, [emp |-> x.emp, task |-> x.task, start |-> x.at,
                               end |-> Open, duration |-> Open])

SwitchedTo(es, x) ==
    Append(ClosedEntry(es, x), [emp |-> x.emp, task |-> x.task, start |-> x.at,
                                end |-> Open, duration |-> Open])

StartTask(t) ==
    /\ timerTxn[t].op = "start" /\ Len(timeEntries) < MaxEntries
    /\ timeEntries' = SwitchedTo(timeEntries, timerTxn[t])
    /\ timerTxn' = [timerTxn EXCEPT ![t] = TimerIdle]
    /\ UNCHANGED <<catalogue, timerClock, raced>>

StopTask(t) ==
    /\ timerTxn[t].op = "stop"
    /\ timeEntries' = ClosedEntry(timeEntries, timerTxn[t])
    /\ timerTxn' = [timerTxn EXCEPT ![t] = TimerIdle]
    /\ UNCHANGED <<catalogue, timerClock, raced>>

\* The connection is lost before COMMIT.
TimerAbort(t) == /\ timerTxn[t] # TimerIdle
                 /\ timerTxn' = [timerTxn EXCEPT ![t] = TimerIdle]
                 /\ UNCHANGED <<catalogue, timeEntries, timerClock, raced>>

TimerTick == /\ timerClock < TimerHours
             /\ timerClock' = timerClock + 1
             /\ UNCHANGED <<catalogue, timeEntries, timerTxn, raced>>

TimerInit == /\ projects = {} /\ taskProject = [k \in Tasks |-> NoTask]
             /\ timeEntries = <<>>
             /\ timerTxn = [t \in TimerRequests |-> TimerIdle]
             /\ timerClock = 0 /\ raced = {}

TimerNext ==
    \/ \E p \in Projects : CreateProject(p) \/ \E k \in Tasks : CreateTask(k, p)
    \/ \E t \in TimerRequests :
          \/ \E op \in {"start", "stop"}, e \in Timekeepers, k \in Tasks : TimerLoad(t, op, e, k)
          \/ StartTask(t) \/ StopTask(t) \/ TimerAbort(t)
    \/ TimerTick

TimerSpec == TimerInit /\ [][TimerNext]_timerVars

-----------------------------------------------------------------------------
(* Properties *)

EndOf(x) == IF x.end = Open THEN TimerHours + 1 ELSE x.end

\* "One open entry per employee" (router.py): of an employee whose requests
\* never overlapped at most one entry is open, and the entries cover no
\* moment twice, whatever stops, switches and lost connections there were.
NoTimeTwice ==
    \A i, j \in DOMAIN timeEntries :
        LET x == timeEntries[i]  y == timeEntries[j]
        IN  i < j /\ x.emp = y.emp /\ x.emp \notin raced => EndOf(x) =< y.start
=============================================================================
