------------------------------ MODULE ShiftRules ------------------------------
(***************************************************************************)
(* The pure part of the shift component: what app/shifts/state_machine.py  *)
(* allows and does to one shift row, and what app/shifts/attendance.py     *)
(* derives from a row and its breaks.  No variables: ShiftLifecycle gives  *)
(* these operators the rows a database transaction has read.               *)
(*                                                                         *)
(* Times are ticks of server time (app/core/time_authority.py); the unit   *)
(* stands for minutes and seconds alike.  None is SQL NULL.                *)
(***************************************************************************)
EXTENDS Integers, Sequences, SequencesExt

CONSTANTS None,       \* SQL NULL, and "no row"
          Policies    \* the resolved shift policies a snapshot can freeze

OptTime == Nat \cup {None}

PolicyRecords ==
    [auto_start: BOOLEAN, auto_end: BOOLEAN,
     allow_break: BOOLEAN, allow_multiple_breaks: BOOLEAN,
     allow_early_clockout: BOOLEAN,
     earliest_clock_in: OptTime, latest_clock_in: OptTime,
     max_break: OptTime]

ASSUME PoliciesAssumption == /\ Policies \subseteq PolicyRecords
                             /\ None \notin Nat

-----------------------------------------------------------------------------
(* States and rows *)

ACTIVE_STATES == {"AVAILABLE", "WORKING", "ON_BREAK", "PAUSED"}
TERMINAL_STATES == {"COMPLETED", "AUTO_COMPLETED", "MISSED", "FORCE_STOPPED",
                    "CANCELLED"}
WAITING == {"SCHEDULED", "AVAILABLE"}
RUNNING == {"WORKING", "ON_BREAK", "PAUSED"}
States == WAITING \cup RUNNING \cup TERMINAL_STATES

\* The columns of a shift row that a transition reads or writes.
Row == [state: States, version: Nat,
        scheduled_start: OptTime, scheduled_end: OptTime,
        actual_start: OptTime, actual_end: OptTime, policy: Policies]

Break == [started_at: Nat, ended_at: OptTime, max: OptTime, exceeded: BOOLEAN]

ASSUME NoRowAssumption == None \notin Row /\ None \notin States

\* create_shift_for_day: an AVAILABLE row for a window, or with no window.
NewRow(window, policy) ==
    [state |-> "AVAILABLE", version |-> 0,
     scheduled_start |-> IF window = None THEN None ELSE window.start,
     scheduled_end |-> IF window = None THEN None ELSE window.end,
     actual_start |-> None, actual_end |-> None, policy |-> policy]

-----------------------------------------------------------------------------
(* The operations of state_machine.py.  "miss" and "cancel" are the two    *)
(* outcomes of scheduler.mark_missed.                                      *)

Starts == {"start", "auto_start"}
Ends == {"end", "auto_end", "force_stop"}
Closings == {"miss", "cancel"}
Ops == Starts \cup Ends \cup Closings \cup {"break", "pause", "resume"}

\* Mutant: a break may begin in a pause.
BreakInPause(op) == IF op \in Starts \cup Closings THEN WAITING
                    ELSE IF op = "pause" THEN {"WORKING"}
                    ELSE IF op = "break" THEN {"WORKING", "PAUSED"}
                    ELSE IF op = "resume" THEN {"ON_BREAK", "PAUSED"} ELSE RUNNING

From(op) == CASE op \in Starts \cup Closings -> WAITING
              [] op \in {"break", "pause"}   -> {"WORKING"}
              [] op = "resume"               -> {"ON_BREAK", "PAUSED"}
              [] op \in Ends                 -> RUNNING

Target(op) == CASE op \in Starts       -> "WORKING"
                [] op = "break"        -> "ON_BREAK"
                [] op = "pause"        -> "PAUSED"
                [] op = "resume"       -> "WORKING"
                [] op = "end"          -> "COMPLETED"
                [] op = "auto_end"     -> "AUTO_COMPLETED"
                [] op = "force_stop"   -> "FORCE_STOPPED"
                [] op = "miss"         -> "MISSED"
                [] op = "cancel"       -> "CANCELLED"

\* start(): server time within [scheduled_start - earliest, + latest].
InClockInWindow(row, t) ==
    row.scheduled_start # None =>
        /\ row.policy.earliest_clock_in # None =>
              t >= row.scheduled_start - row.policy.earliest_clock_in
        /\ row.policy.latest_clock_in # None =>
              t =< row.scheduled_start + row.policy.latest_clock_in

\* Mutant: end() that does not look at the state.
EndAnyState(op, row, brks, t) == row.state \in From(op) \/ op \in Ends

\* The guards that raise: InvalidTransition, WindowNotOpen, NotPermitted.
\* brks are the shift's break rows, t is server time.
Permitted(op, row, brks, t) ==
    /\ row.state \in From(op)
    /\ op = "start" => InClockInWindow(row, t)
    /\ op = "break" => /\ row.policy.allow_break
                       /\ row.policy.allow_multiple_breaks \/ brks = <<>>
    /\ (op = "end" /\ row.scheduled_end # None) =>
          t >= row.scheduled_end \/ row.policy.allow_early_clockout

\* Mutant: every move to WORKING starts the shift anew.
RestartOnResume(op, row, t) ==
    [row EXCEPT !.state = Target(op), !.version = @ + 1,
                !.actual_start = IF Target(op) = "WORKING" THEN t ELSE @,
                !.actual_end = IF op \in Ends THEN t ELSE @]

\* _bump and the assignments of start() and end().
After(op, row, t) ==
    [row EXCEPT !.state = Target(op), !.version = @ + 1,
                !.actual_start = IF op \in Starts THEN t ELSE @,
                !.actual_end = IF op \in Ends THEN t ELSE @]

\* Mutant: the automatic end leaves an open break running.
AutoEndLeavesBreak(op, row) ==
    op \in {"end", "force_stop"} \/ (op = "resume" /\ row.state = "ON_BREAK")

\* Whether the operation looks for an open break to close.
ClosesBreak(op, row) == op \in Ends \/ (op = "resume" /\ row.state = "ON_BREAK")

OpenBreaks(brks) == {i \in DOMAIN brks : brks[i].ended_at = None}

\* Only resume() compares the elapsed time with max_seconds.
Closed(op, b, t) ==
    [b EXCEPT !.ended_at = t,
              !.exceeded = IF op = "resume" /\ b.max # None
                           THEN @ \/ t - b.started_at > b.max ELSE @]

\* The break rows after op at time t; i is the open break found, 0 if none.
BreaksAfter(op, row, brks, i, t) ==
    IF op = "break"
    THEN Append(brks, [started_at |-> t, ended_at |-> None,
                       max |-> row.policy.max_break, exceeded |-> FALSE])
    ELSE IF i \in DOMAIN brks THEN [brks EXCEPT ![i] = Closed(op, @, t)]
    ELSE brks

-----------------------------------------------------------------------------
(* shift_events *)

\* Mutant: the event types named after the states.
EventTypeByState(op) == IF op = "break" THEN "BREAK_START" ELSE Target(op)

EventType(op) == CASE op = "start"      -> "SHIFT_START"
                   [] op = "auto_start" -> "AUTO_START"
                   [] op = "break"      -> "BREAK_START"
                   [] op = "pause"      -> "PAUSE"
                   [] op = "resume"     -> "RESUME"
                   [] op = "end"        -> "SHIFT_END"
                   [] op = "auto_end"   -> "AUTO_END"
                   [] op = "force_stop" -> "FORCE_STOP"

EventTypes == {"SHIFT_START", "AUTO_START", "BREAK_START", "BREAK_END", "PAUSE",
               "RESUME", "SHIFT_END", "AUTO_END", "FORCE_STOP"}

\* A key is a client's event_id, "<event_id>:be" for the BREAK_END that a
\* resume records too, or None for a key the server derives from its clock.
BreakEndKey(key) == IF key = None THEN None ELSE <<key, "be">>

\* What the operation inserts; mark_missed inserts no event.
EventsOf(op, row, key, t) ==
    LET main == [type |-> EventType(op), key |-> key, at |-> t]
    IN  IF op \in Closings THEN <<>>
        ELSE IF op = "resume" /\ row.state = "ON_BREAK"
        THEN << [type |-> "BREAK_END", key |-> BreakEndKey(key), at |-> t], main >>
        ELSE << main >>

-----------------------------------------------------------------------------
(* attendance.py: the hours of an attendance row.  Activity intervals are  *)
(* recorded by ingestion, outside this module: idle is the total of the    *)
(* shift's idle intervals.  Lateness, overtime and the status are left out *)

AtLeastZero(n) == IF n < 0 THEN 0 ELSE n

BreakSeconds(brks) ==
    SumFunction([i \in DOMAIN brks \ OpenBreaks(brks) |-> brks[i].ended_at - brks[i].started_at])

WorkedSeconds(row, brks, idle) ==
    IF row.actual_start = None \/ row.actual_end = None THEN 0
    ELSE AtLeastZero(AtLeastZero(row.actual_end - row.actual_start
                                 - BreakSeconds(brks)) - idle)
=============================================================================
