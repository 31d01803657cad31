--------------------------- MODULE ShiftProperties ---------------------------
(***************************************************************************)
(* What ShiftLifecycle must guarantee.  The serial properties hold when    *)
(* transactions run one at a time; the concurrent ones hold whatever the   *)
(* interleaving; the last section states what the documentation claims     *)
(* and the code does not do.                                               *)
(***************************************************************************)
EXTENDS ShiftLifecycle

Keys == {r.key : r \in Requests}
Event == [type: EventTypes, key: Keys \cup Keys \X {"be"} \cup {None}, at: Nat]
AttendanceRow == [shift: ShiftIds, row: Row, breaks: Seq(Break)]
ASSUME NoAttendanceAssumption == None \notin AttendanceRow
Notice == [event: {"shift.started", "shift.paused", "shift.resumed", "shift.ended"},
           state: States]
OptRow == Row \cup {None}
Txn == [pc: {"idle", "loaded", "ready"},
        op: RequestOps \cup JobOps \cup {"none", "create", "ensure"},
        key: Keys \cup {None}, at: Nat,
        old: [ShiftIds -> OptRow], new: [ShiftIds -> OptRow],
        close: [ShiftIds -> Nat], ins: [Employees -> OptRow]]

\* Every table holds rows of its columns' types, and a row of shift_events,
\* breaks or attendance belongs to a shift that exists.
TypeOK == /\ clock \in 0..MaxTime
          /\ shifts \in [ShiftIds -> OptRow]
          /\ breaks \in [ShiftIds -> Seq(Break)]
          /\ log \in [ShiftIds -> Seq(Event)]
          /\ attendance \in [Employees \X Days -> AttendanceRow \cup {None}]
          /\ notified \in [ShiftIds -> Notice \cup {None}]
          /\ leave \subseteq LeaveRequests
          /\ txn \in [Workers -> Txn]
          /\ crashes \in 0..MaxCrashes

-----------------------------------------------------------------------------
(* Serial properties *)

\* The state a shift is in after the first i events of its log.
Outcome(type) ==
    CASE type \in {"SHIFT_START", "AUTO_START", "RESUME"} -> "WORKING"
      [] type = "BREAK_START" -> "ON_BREAK"
      [] type = "BREAK_END"   -> "ON_BREAK"
      [] type = "PAUSE"       -> "PAUSED"
      [] type = "SHIFT_END"   -> "COMPLETED"
      [] type = "AUTO_END"    -> "AUTO_COMPLETED"
      [] type = "FORCE_STOP"  -> "FORCE_STOPPED"

Sources(type) ==
    CASE type \in {"SHIFT_START", "AUTO_START"}   -> WAITING
      [] type \in {"BREAK_START", "PAUSE"}        -> {"WORKING"}
      [] type = "BREAK_END"                       -> {"ON_BREAK"}
      [] type = "RESUME"                          -> {"ON_BREAK", "PAUSED"}
      [] OTHER                                    -> RUNNING

StateAfter(s, i) == IF i = 0 THEN "AVAILABLE" ELSE Outcome(log[s][i].type)

\* shift_events is the record the other tables can be rebuilt from: each
\* event of a shift is legal where its predecessors left the shift, times
\* never go back, and the last one explains the row's state and version.
\* (MISSED and CANCELLED leave no event.)
LogExplainsState ==
    \A s \in ShiftIds : Exists(s) =>
        /\ \A i \in DOMAIN log[s] :
              /\ StateAfter(s, i - 1) \in Sources(log[s][i].type)
              /\ i > 1 => log[s][i - 1].at =< log[s][i].at
        /\ IF shifts[s].state \in {"MISSED", "CANCELLED"}
           THEN log[s] = <<>> /\ shifts[s].version = 1
           ELSE /\ shifts[s].state = StateAfter(s, Len(log[s]))
                /\ shifts[s].version =
                     Cardinality({i \in DOMAIN log[s] : log[s][i].type # "BREAK_END"})

\* A shift has an open break exactly while it is ON_BREAK, and then only one:
\* no end, forced stop or automatic end leaves a break running.
OpenBreakIffOnBreak ==
    \A s \in ShiftIds :
        Cardinality(OpenBreaks(breaks[s])) =
            IF Exists(s) /\ shifts[s].state = "ON_BREAK" THEN 1 ELSE 0

\* Ticks that the log of s shows in one of the states of S.
TimeIn(s, S) ==
    SumFunction([i \in {j \in 1..(Len(log[s]) - 1) : StateAfter(s, j) \in S}
                    |-> log[s][i + 1].at - log[s][i].at])

\* Two ways to the same hours: the worked time that attendance computes from
\* the row and the breaks table is the time the event log shows outside
\* breaks, so the breaks lie inside the shift and do not overlap.
WorkedTimeMatchesLog ==
    \A s \in ShiftIds : Exists(s) /\ shifts[s].actual_end # None =>
        /\ WorkedSeconds(shifts[s], breaks[s], 0) = TimeIn(s, {"WORKING", "PAUSED"})
        /\ BreakSeconds(breaks[s]) = TimeIn(s, {"ON_BREAK"})

\* No attendance row lags behind its shift: after every transaction it is
\* what derive_for_shift would compute now, and a shift that has left
\* AVAILABLE has had its day's row derived.
AttendanceCurrent ==
    /\ \A k \in Employees \X Days : attendance[k] # None =>
          LET a == attendance[k] IN
          a.row = shifts[a.shift] /\ a.breaks = breaks[a.shift]
    /\ \A s \in ShiftIds : Exists(s) /\ shifts[s].version > 0 =>
          attendance[<<s[1], WorkDate(shifts[s])>>] # None

\* A subscriber that is told "shift.ended" finds the shift ended, and the
\* payload says so too, also for a resent request.
EndedNoticeIsTrue ==
    \A s \in ShiftIds :
        notified[s] # None /\ notified[s].event = "shift.ended" =>
            /\ notified[s].state \in TERMINAL_STATES
            /\ shifts[s].state = notified[s].state

\* The job never creates a second shift for an occurrence of the schedule.
OneShiftPerOccurrence ==
    \A s, u \in ShiftIds :
        (/\ s[1] = u[1] /\ Exists(s) /\ Exists(u)
         /\ shifts[s].scheduled_start # None
         /\ shifts[s].scheduled_start = shifts[u].scheduled_start)
        => s = u

\* The state each shift shows to the rest of the system.
ShiftState == [s \in ShiftIds |-> IF Exists(s) THEN shifts[s].state ELSE None]

\* The transaction-level component implements its contract: of the moves that
\* the documentation does not list it makes those of Undocumented only.
Contract == INSTANCE ShiftContract WITH
    Waiting <- WAITING, Running <- RUNNING, Terminal <- TERMINAL_STATES,
    NoShift <- None,
    state <- ShiftState

ContractSpec == Contract!Spec

-----------------------------------------------------------------------------
(* Concurrent properties *)

\* A client's key is applied at most once, to one shift, even when the
\* resent request runs next to the original.
KeysAppliedOnce ==
    \A s, u \in ShiftIds : \A i \in DOMAIN log[s], j \in DOMAIN log[u] :
        log[s][i].key # None /\ log[s][i].key = log[u][j].key => s = u /\ i = j

\* The breaks table holds the breaks that the log records, no more (a resent
\* request that inserted its break and then failed) and no fewer.
BreaksAreRecorded ==
    \A s \in ShiftIds :
        Len(breaks[s]) =
            Cardinality({i \in DOMAIN log[s] : log[s][i].type = "BREAK_START"})

\* A row never shows a state that no recorded event put it in: the state of
\* the row and the last event of its log are written together.
StateIsLastEvent ==
    \A s \in ShiftIds : Exists(s) /\ shifts[s].state \notin {"MISSED", "CANCELLED"} =>
        shifts[s].state = StateAfter(s, Len(log[s]))

\* Whatever clients did, resent or left half done, every scheduled shift is
\* in the end closed for good, by its employee, a manager or the jobs.
ScheduledShiftsClose ==
    <>[](\A s \in ShiftIds :
            Exists(s) /\ shifts[s].scheduled_start # None /\ shifts[s].policy.auto_end
            => shifts[s].state \in TERMINAL_STATES)

-----------------------------------------------------------------------------
(* Claims of the documentation that the code does not meet                *)

\* docs/04-shift-state-machine.md:78: terminal states accept no further
\* transitions.
TerminalIsFinal ==
    [][\A s \in ShiftIds : Exists(s) /\ shifts[s].state \in TERMINAL_STATES
                           => shifts'[s] = shifts[s]]_vars

\* docs/04-shift-state-machine.md:77: "Any event not in this table for the
\* current state -> 409", so a shift moves by the rows of the table only.
DocumentedMoves ==
    [][\A s \in ShiftIds : ShiftState'[s] # ShiftState[s]
            => <<ShiftState[s], ShiftState'[s]>> \in Contract!Documented]_vars

\* docs/04-shift-state-machine.md:105: worked time is the sum of the WORKING
\* intervals.
WorkedIsTimeWorking ==
    \A s \in ShiftIds : Exists(s) /\ shifts[s].actual_end # None =>
        WorkedSeconds(shifts[s], breaks[s], 0) = TimeIn(s, {"WORKING"})
=============================================================================
