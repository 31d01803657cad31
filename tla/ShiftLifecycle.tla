---------------------------- MODULE ShiftLifecycle ----------------------------
(***************************************************************************)
(* The shift component as its database sees it: HTTP requests of           *)
(* app/shifts/router.py and periodic jobs of app/shifts/scheduler.py, each *)
(* a READ COMMITTED transaction.  A transaction is three steps:            *)
(*                                                                         *)
(*   Load    selects the shift rows it will work on (ORM objects);         *)
(*   Decide  reads event keys, breaks, leave and the clock, validates, and *)
(*           changes the ORM objects (Replay, Reject are the other ends);  *)
(*   Commit  flushes the changed columns and the new rows and commits, or  *)
(*           Rollback when a unique index refuses them.                    *)
(*                                                                         *)
(* Other transactions may commit between the steps.  The first flush takes *)
(* the row lock that is held until the commit, so flush, attendance        *)
(* derivation and commit are one step.  A job handles all its rows in one  *)
(* transaction.  With a single worker the transactions run one at a time.  *)
(***************************************************************************)
EXTENDS ShiftRules, FiniteSets

CONSTANTS
    Employees,
    MaxShifts,      \* bound: shift rows one employee can get
    ApiWorkers,     \* request handlers that may run at the same time
    JobWorkers,     \* Celery workers
    Requests,       \* bound: [op, shift, key] that clients send and resend;
                    \*   key is None when the client gives no event_id
    MaxTime,        \* bound: last tick of the clock
    DayLen,         \* ticks of a UTC day
    Schedule,       \* <<employee, local day>> -> [start, end] or None
    Holidays,       \* days of the organization's holiday calendars
    LeaveRequests,  \* bound: <<employee, day>> pairs leave is requested for
    ManualDays,     \* bound: days POST /shifts is called with
    MaxCrashes      \* bound: transactions lost to a crash

Workers == ApiWorkers \cup JobWorkers
ShiftIds == Employees \X (1..MaxShifts)
Date(t) == t \div DayLen
Days == 0..Date(MaxTime)

RequestOps == {"start", "break", "pause", "resume", "end", "force_stop"}
JobOps == {"auto_start", "auto_end", "mark_missed"}

ASSUME BoundsAssumption ==
    /\ MaxTime \in Nat /\ MaxCrashes \in Nat /\ DayLen \in Nat \ {0}
    /\ MaxShifts \in Nat \ {0}
    /\ LeaveRequests \subseteq Employees \X Days
    /\ ManualDays \subseteq Days

\* A request need not carry a key; "<event_id>:be" is no client's key.
ASSUME RequestsAssumption ==
    \A r \in Requests :
        /\ r.op \in RequestOps /\ r.shift \in ShiftIds
        /\ r.key # None =>
              /\ BreakEndKey(r.key) # None
              /\ \A q \in Requests : r.key # BreakEndKey(q.key)

ASSUME ScheduleAssumption ==
    Schedule \in [Employees \X Days -> [start: 0..MaxTime, end: Nat] \cup {None}]

VARIABLES
    clock,       \* server time
    shifts,      \* table shifts: id -> row, None when there is no such row
    breaks,      \* table breaks: shift -> its rows in insertion order
    log,         \* table shift_events: shift -> its rows in commit order
    attendance,  \* table attendance: <<employee, UTC date>> -> row or None
    notified,    \* table webhook_deliveries: shift -> the row queued last
    leave,       \* <<employee, day>> pairs on approved leave
    txn,         \* worker -> its transaction
    crashes      \* transactions lost so far

tables == <<shifts, breaks, log, attendance, notified>>
vars == <<clock, shifts, breaks, log, attendance, notified, leave, txn, crashes>>

-----------------------------------------------------------------------------
(* Reading the tables *)

Exists(s) == shifts[s] # None

\* Mutant: an index that forgets the shifts that wait to be started.
RunningIn(tab, s) == tab[s] # None /\ tab[s].state \in RUNNING

ActiveIn(tab, s) == tab[s] # None /\ tab[s].state \in ACTIVE_STATES

\* uq_active_shift_per_employee
ActiveIndexOK(tab) ==
    \A s, u \in ShiftIds :
        s[1] = u[1] /\ ActiveIn(tab, s) /\ ActiveIn(tab, u) => s = u

HasActive(e) == \E s \in ShiftIds : s[1] = e /\ ActiveIn(shifts, s)
UsedKeys == {ev.key : ev \in UNION {Range(log[s]) : s \in ShiftIds}} \ {None}
Suppressed(e, d) == <<e, d>> \in leave \/ d \in Holidays
FreeIds(e) == {n \in 1..MaxShifts : shifts[<<e, n>>] = None}

-----------------------------------------------------------------------------
(* Transactions.  old and new hold, for each loaded shift, the row as read *)
(* and the ORM object as changed; close the open break it found; ins the   *)
(* shift row it will insert for an employee.                               *)

NoRows == [s \in ShiftIds |-> None]
IdleTxn == [pc |-> "idle", op |-> "none", key |-> None, at |-> 0,
            old |-> NoRows, new |-> NoRows, close |-> [s \in ShiftIds |-> 0],
            ins |-> [e \in Employees |-> None]]

Loaded(tx) == {s \in ShiftIds : tx.old[s] # None}
Touched(tx) == {s \in Loaded(tx) : tx.new[s] # tx.old[s]}

\* Which operation a transaction applies to a loaded shift: mark_missed
\* cancels instead of missing when the shift's UTC date is suppressed.
OpOn(tx, s) ==
    IF tx.op # "mark_missed" THEN tx.op
    ELSE IF Suppressed(s[1], Date(tx.old[s].scheduled_start)) THEN "cancel"
    ELSE "miss"

\* The operation that made the ORM object, once it has been changed.
AppliedOp(tx, s) ==
    IF tx.op # "mark_missed" THEN tx.op
    ELSE IF tx.new[s].state = "CANCELLED" THEN "cancel" ELSE "miss"

Load(w, op, key, S) ==
    /\ txn[w] = IdleTxn
    /\ txn' = [txn EXCEPT ![w] =
                 [IdleTxn EXCEPT !.pc = "loaded", !.op = op, !.key = key,
                                 !.old = [s \in ShiftIds |->
                                            IF s \in S THEN shifts[s] ELSE None]]]
    /\ UNCHANGED <<clock, tables, leave, crashes>>

\* router._action and force_stop_shift: get_shift.
LoadRequest(w) ==
    \E r \in Requests : Exists(r.shift) /\ Load(w, r.op, r.key, {r.shift})

\* run_auto_start, run_auto_end, mark_missed: the rows that are due now.
Due(op, row) ==
    CASE op = "auto_start" ->
            /\ row.state = "AVAILABLE" /\ row.policy.auto_start
            /\ row.scheduled_start # None /\ clock >= row.scheduled_start
      [] op = "auto_end" ->
            /\ row.state \in RUNNING /\ row.policy.auto_end
            /\ row.scheduled_end # None /\ clock >= row.scheduled_end
      [] op = "mark_missed" ->
            /\ row.state \in WAITING /\ row.scheduled_start # None
            /\ clock > row.scheduled_start + IF row.policy.latest_clock_in = None
                                             THEN 0 ELSE row.policy.latest_clock_in

\* Mutant: a job that leaves the shifts on a break alone.
DueNotOnBreak(op) ==
    {s \in ShiftIds : Exists(s) /\ Due(op, shifts[s]) /\ shifts[s].state # "ON_BREAK"}

DueShifts(op) == {s \in ShiftIds : Exists(s) /\ Due(op, shifts[s])}

LoadJob(w, op) == DueShifts(op) # {} /\ Load(w, op, None, DueShifts(op))

Deny(w) == txn' = [txn EXCEPT ![w] = IdleTxn]

\* The event key is recorded already: the loaded object is left as it is.
Replay(w) ==
    /\ txn[w].pc = "loaded" /\ txn[w].key \in UsedKeys
    /\ txn' = [txn EXCEPT ![w].pc = "ready", ![w].new = txn[w].old,
                          ![w].at = clock]
    /\ UNCHANGED <<clock, tables, leave, crashes>>

\* An HTTP 409 or 422; nothing is written.
Reject(w) ==
    /\ txn[w].pc = "loaded" /\ txn[w].key \notin UsedKeys
    /\ \E s \in Loaded(txn[w]) :
          ~ Permitted(OpOn(txn[w], s), txn[w].old[s], breaks[s], clock)
    /\ Deny(w)
    /\ UNCHANGED <<clock, tables, leave, crashes>>

\* The open break an operation finds: any one, the query has no ORDER BY.
BreakFound(tx, s) ==
    IF s \in Loaded(tx) /\ ClosesBreak(tx.op, tx.old[s]) /\ OpenBreaks(breaks[s]) # {}
    THEN OpenBreaks(breaks[s]) ELSE {0}

Decide(w) ==
    LET tx == txn[w] IN
    /\ tx.pc = "loaded" /\ tx.key \notin UsedKeys
    /\ \A s \in Loaded(tx) :
          Permitted(OpOn(tx, s), tx.old[s], breaks[s], clock)
    /\ \E close \in [ShiftIds -> UNION {BreakFound(tx, s) : s \in ShiftIds}] :
        /\ \A s \in ShiftIds : close[s] \in BreakFound(tx, s)
        /\ txn' = [txn EXCEPT ![w] =
             [tx EXCEPT !.pc = "ready", !.at = clock, !.close = close,
                        !.new = [s \in ShiftIds |->
                                   IF s \in Loaded(tx)
                                   THEN After(OpOn(tx, s), tx.old[s], clock)
                                   ELSE None]]]
    /\ UNCHANGED <<clock, tables, leave, crashes>>

(* Creation *)

Insert(w, op, ins) ==
    /\ txn[w] = IdleTxn
    /\ txn' = [txn EXCEPT ![w] = [IdleTxn EXCEPT !.pc = "ready", !.op = op,
                                                !.at = clock, !.ins = ins]]
    /\ UNCHANGED <<clock, tables, leave, crashes>>

\* POST /shifts: refused (409 already_active) while a shift is active.
LoadCreate(w) ==
    \E e \in Employees, d \in ManualDays, p \in Policies :
        /\ ~ HasActive(e) /\ FreeIds(e) # {}
        /\ Insert(w, "create", [IdleTxn.ins EXCEPT ![e] =
                                   NewRow(Schedule[<<e, d>>], p)])

\* ensure_daily_shifts(today): who gets a shift.  An employee with no
\* occurrence gets an ad-hoc row that the same transaction deletes.
HasShiftOn(e, d) ==
    \E s \in ShiftIds : /\ s[1] = e /\ Exists(s)
                        /\ shifts[s].scheduled_start # None
                        /\ Date(shifts[s].scheduled_start) = d

\* Mutant: the job that looks for an active shift only.
NeedsActiveShift(e, d) == /\ ~ Suppressed(e, d) /\ ~ HasActive(e)
                          /\ Schedule[<<e, d>>] # None /\ FreeIds(e) # {}

NeedsShift(e, d) == /\ ~ Suppressed(e, d) /\ ~ HasShiftOn(e, d) /\ ~ HasActive(e)
                    /\ Schedule[<<e, d>>] # None /\ FreeIds(e) # {}

LoadEnsure(w) ==
    LET today == Date(clock)
        due == {e \in Employees : NeedsShift(e, today)} IN
    /\ due # {}
    /\ \E p \in Policies :
          Insert(w, "ensure", [e \in Employees |->
              IF e \in due THEN NewRow(Schedule[<<e, today>>], p) ELSE None])

-----------------------------------------------------------------------------
(* Commit *)

\* Mutant: an ORM that writes whole rows.
WholeRow(current, loaded, changed) == changed

\* The ORM writes the columns whose value it changed, and no others.
Column(current, loaded, changed) ==
    IF changed = loaded THEN current ELSE changed

Flush(current, old, new) ==
    [current EXCEPT
        !.state = Column(@, old.state, new.state),
        !.version = Column(@, old.version, new.version),
        !.actual_start = Column(@, old.actual_start, new.actual_start),
        !.actual_end = Column(@, old.actual_end, new.actual_end)]

InsertedId(e) == <<e, CHOOSE n \in FreeIds(e) : TRUE>>
Inserts(tx, s) == tx.ins[s[1]] # None /\ FreeIds(s[1]) # {} /\ s = InsertedId(s[1])

ShiftsAfter(tx) ==
    [s \in ShiftIds |-> IF Inserts(tx, s) THEN tx.ins[s[1]]
                        ELSE IF s \in Loaded(tx)
                        THEN Flush(shifts[s], tx.old[s], tx.new[s])
                        ELSE shifts[s]]

\* Mutant: a replay does its break rows again.
BreaksReplayed(tx) ==
    [s \in ShiftIds |-> IF s \in Loaded(tx)
                        THEN BreaksAfter(AppliedOp(tx, s), tx.old[s], breaks[s],
                                         tx.close[s], tx.at)
                        ELSE breaks[s]]

BreaksNext(tx) ==
    [s \in ShiftIds |-> IF s \in Touched(tx)
                        THEN BreaksAfter(AppliedOp(tx, s), tx.old[s], breaks[s],
                                         tx.close[s], tx.at)
                        ELSE breaks[s]]

NewEvents(tx, s) == IF s \in Touched(tx)
                    THEN EventsOf(AppliedOp(tx, s), tx.old[s], tx.key, tx.at)
                    ELSE <<>>

\* Mutant: no unique index on event_key.
NoKeyIndex(tx) == TRUE

\* uq_shift_event_key: an event_key is recorded at most once.
EventKeysOK(tx) ==
    \A s \in ShiftIds : \A ev \in Range(NewEvents(tx, s)) : ev.key \notin UsedKeys

Committable(tx) == ActiveIndexOK(ShiftsAfter(tx)) /\ EventKeysOK(tx)

\* derive_for_shift runs for every loaded shift, after a replay as well.
\* The columns of an attendance row are functions of the ORM object and of
\* the breaks (WorkedSeconds, BreakSeconds, ...), which stand for them.
WorkDate(row) ==
    IF row.scheduled_start # None THEN Date(row.scheduled_start)
    ELSE IF row.actual_start # None THEN Date(row.actual_start) ELSE Date(clock)

\* Mutant: mark_missed does not derive.
DerivedIfWorked(tx, k) ==
    {s \in Loaded(tx) : /\ s[1] = k[1] /\ WorkDate(tx.new[s]) = k[2]
                        /\ tx.op # "mark_missed"}

Derived(tx, k) ==
    {s \in Loaded(tx) : s[1] = k[1] /\ WorkDate(tx.new[s]) = k[2]}

\* Mutant: the breaks are read before the flush.
AttendanceOldBreaks(tx) ==
    [k \in Employees \X Days |->
        IF Derived(tx, k) = {} THEN attendance[k]
        ELSE LET s == CHOOSE s \in Derived(tx, k) : TRUE
             IN  [shift |-> s, row |-> tx.new[s], breaks |-> breaks[s]]]

AttendanceAfter(tx) ==
    [k \in Employees \X Days |->
        IF Derived(tx, k) = {} THEN attendance[k]
        ELSE LET s == CHOOSE s \in Derived(tx, k) : TRUE
             IN  [shift |-> s, row |-> tx.new[s], breaks |-> BreaksNext(tx)[s]]]

\* service.start .. end queue a webhook; the scheduler's jobs do not.
WebhookOf(op) == CASE op = "start"                 -> "shift.started"
                   [] op \in {"break", "pause"}    -> "shift.paused"
                   [] op = "resume"                -> "shift.resumed"
                   [] op \in {"end", "force_stop"} -> "shift.ended"

\* Mutant: the payload is built before the transition.
NotifiedBefore(tx) ==
    [s \in ShiftIds |->
        IF s \in Loaded(tx) /\ tx.op \in RequestOps
        THEN [event |-> WebhookOf(tx.op), state |-> tx.old[s].state]
        ELSE notified[s]]

NotifiedAfter(tx) ==
    [s \in ShiftIds |->
        IF s \in Loaded(tx) /\ tx.op \in RequestOps
        THEN [event |-> WebhookOf(tx.op), state |-> tx.new[s].state]
        ELSE notified[s]]

Commit(w) ==
    LET tx == txn[w] IN
    /\ tx.pc = "ready" /\ Committable(tx)
    /\ shifts' = ShiftsAfter(tx)
    /\ breaks' = BreaksNext(tx)
    /\ log' = [s \in ShiftIds |-> log[s] \o NewEvents(tx, s)]
    /\ attendance' = AttendanceAfter(tx)
    /\ notified' = NotifiedAfter(tx)
    /\ Deny(w)
    /\ UNCHANGED <<clock, leave, crashes>>

\* IntegrityError: the request answers 500, the job ends with an exception.
Rollback(w) ==
    /\ txn[w].pc = "ready" /\ ~ Committable(txn[w])
    /\ Deny(w)
    /\ UNCHANGED <<clock, tables, leave, crashes>>

\* The process or its connection dies before the commit.
Crash(w) ==
    /\ txn[w] # IdleTxn /\ crashes < MaxCrashes
    /\ Deny(w)
    /\ crashes' = crashes + 1
    /\ UNCHANGED <<clock, tables, leave>>

-----------------------------------------------------------------------------
(* The environment *)

Tick == /\ clock < MaxTime
        /\ clock' = clock + 1
        /\ UNCHANGED <<tables, leave, txn, crashes>>

\* leave_router._decide_leave accepts either decision at any time.
DecideLeave(l) == /\ leave' \in {leave \cup {l}, leave \ {l}}
                  /\ UNCHANGED <<clock, tables, txn, crashes>>

-----------------------------------------------------------------------------

Init == /\ clock = 0
        /\ shifts = NoRows
        /\ breaks = [s \in ShiftIds |-> <<>>]
        /\ log = [s \in ShiftIds |-> <<>>]
        /\ attendance = [k \in Employees \X Days |-> None]
        /\ notified = NoRows
        /\ leave = {}
        /\ txn = [w \in Workers |-> IdleTxn]
        /\ crashes = 0

Step(w) == Replay(w) \/ Reject(w) \/ Decide(w) \/ Commit(w) \/ Rollback(w)

Next == \/ Tick
        \/ \E l \in LeaveRequests : DecideLeave(l)
        \/ \E w \in ApiWorkers : LoadRequest(w) \/ LoadCreate(w)
        \/ \E w \in JobWorkers : LoadEnsure(w) \/ \E op \in JobOps : LoadJob(w, op)
        \/ \E w \in Workers : Step(w) \/ Crash(w)

Spec == Init /\ [][Next]_vars

\* Celery beat fires every job again and again, a job that runs finishes,
\* and time passes.  Nothing is assumed of the clients.
Fairness ==
    /\ WF_vars(Tick)
    /\ \A w \in JobWorkers :
          /\ WF_vars(LoadEnsure(w)) /\ WF_vars(Step(w))
          /\ \A op \in JobOps : WF_vars(LoadJob(w, op))

FairSpec == Spec /\ Fairness
=============================================================================
