------------------------------- MODULE MCShift -------------------------------
(***************************************************************************)
(* Instances of ShiftLifecycle for TLC: one policy of each kind, schedules *)
(* of one or two days, and the requests clients send.                      *)
(***************************************************************************)
EXTENDS ShiftProperties, TLC

CONSTANTS e1, w1, w2, k1, k2, k3, k4, k5, k6

-----------------------------------------------------------------------------
(* Policies *)

\* policy/defaults.py, scaled: clock-in from one tick before to one tick
\* after the scheduled start, breaks of one tick, automatic end.
Hybrid == [auto_start |-> FALSE, auto_end |-> TRUE, allow_break |-> TRUE,
           allow_multiple_breaks |-> TRUE, allow_early_clockout |-> FALSE,
           earliest_clock_in |-> 1, latest_clock_in |-> 1, max_break |-> 1]

\* One break, started by the system, early clock-out allowed.
Enforced == [Hybrid EXCEPT !.auto_start = TRUE, !.allow_multiple_breaks = FALSE,
                           !.allow_early_clockout = TRUE, !.latest_clock_in = 2]

\* No window, no automatic end, no limit on breaks.
Flexible == [Hybrid EXCEPT !.auto_end = FALSE, !.earliest_clock_in = None,
                           !.latest_clock_in = None, !.max_break = None,
                           !.allow_early_clockout = TRUE]

\* Missed as soon as the scheduled start has passed.
Punctual == [Hybrid EXCEPT !.latest_clock_in = 0]

OnePolicy == {Hybrid}
PunctualOnly == {Punctual}
AllPolicies == {Hybrid, Enforced, Flexible}

-----------------------------------------------------------------------------
(* Schedules, as windows of the local days 0 and 1 *)

Window(from, to) == [start |-> from, end |-> to]
ByDay(window0, window1) ==
    [k \in Employees \X Days |-> IF k[2] = 0 THEN window0
                                 ELSE IF k[2] = 1 THEN window1 ELSE None]

OneDay == ByDay(Window(1, 2), None)

\* Open, under Punctual, for one tick only.
Early == ByDay(Window(0, 1), None)

\* With days of three ticks, each shift lies within its UTC day ...
TwoDays == ByDay(Window(1, 2), Window(4, 5))

\* ... or, east of Greenwich, starts on the UTC day before the local one.
Eastern == ByDay(None, Window(2, 4))

LeaveOnDay1 == {<<e1, 1>>}

-----------------------------------------------------------------------------
(* Requests.  A key belongs to one operation on one shift: the tray makes  *)
(* a fresh GUID for each action.  A forced stop comes without a key.        *)

Req(op, key, n) == [op |-> op, shift |-> <<e1, n>>, key |-> key]

Everything == {Req("start", k1, 1), Req("break", k2, 1), Req("break", k3, 1),
               Req("pause", k4, 1), Req("resume", k5, 1),
               Req("end", k6, 1), Req("force_stop", None, 1)}
StartBreakEnd == {Req("start", k1, 1), Req("break", k2, 1), Req("end", k6, 1)}
NextDay == {Req("start", k1, 1), Req("end", k2, 1),
            Req("start", k3, 2), Req("break", k4, 2), Req("force_stop", None, 2)}

\* Sound for the invariants: the two workers do the same things.
WorkerSymmetry == Permutations({w1, w2})
=============================================================================
