---------------------------- MODULE ShiftContract ----------------------------
(***************************************************************************)
(* What the shift component does to states, without requests, jobs, tables *)
(* or time: the moves of state_machine.py and scheduler.py, which are more *)
(* than the documentation lists, one active shift per employee, and        *)
(* terminal states that are final.                                         *)
(***************************************************************************)
CONSTANTS ShiftIds,       \* <<employee, n>>
          Waiting, Running, Terminal,
          NoShift         \* the state of a shift not created yet

VARIABLE state            \* shift -> its state

Active == (Waiting \ {"SCHEDULED"}) \cup Running

\* The rows of the transition table of docs/04-shift-state-machine.md:59-75.
\* (No code makes a SCHEDULED shift AVAILABLE.)
Documented ==
    {NoShift} \X {"AVAILABLE"}
    \cup Waiting \X {"MISSED"}
    \cup {<<"SCHEDULED", "CANCELLED">>, <<"AVAILABLE", "WORKING">>}
    \cup {"WORKING"} \X {"ON_BREAK", "PAUSED"}
    \cup {"ON_BREAK", "PAUSED"} \X {"WORKING"}
    \cup Running \X {"AUTO_COMPLETED"}
    \cup {"WORKING", "PAUSED"} \X {"COMPLETED", "FORCE_STOPPED"}

\* The moves that the docstrings of start and end and the query of
\* mark_missed add to them.
Undocumented ==
    {<<"SCHEDULED", "WORKING">>, <<"AVAILABLE", "CANCELLED">>}
    \cup {"ON_BREAK"} \X {"COMPLETED", "FORCE_STOPPED"}

\* The moves of one shift.
Moves == Documented \cup Undocumented

OneActive(st) == \A s, u \in ShiftIds :
    s[1] = u[1] /\ st[s] \in Active /\ st[u] \in Active => s = u

Init == state = [s \in ShiftIds |-> NoShift]

\* A job moves several shifts at once.
Next == /\ state' \in [ShiftIds -> {NoShift} \cup Waiting \cup Running \cup Terminal]
        /\ \A s \in ShiftIds : state'[s] = state[s] \/ <<state[s], state'[s]>> \in Moves
        /\ OneActive(state')

Spec == Init /\ [][Next]_state
=============================================================================
