# A verification project for MonitoringSoftware

The repository is a multi-tenant workforce system: a FastAPI backend over
PostgreSQL (`src/backend/app`), Celery jobs, a .NET agent on the employee's
machine (`src/agent`), and a web frontend. Its core is the *shift*: a row whose
state machine is driven by the employee's tray, by managers and by periodic
jobs, and from which attendance, timesheets and payroll follow. Around it the
agent collects and uploads events, and jobs deliver webhooks, raise alerts, purge
screenshots and add up productivity. This directory models all of that in TLA+,
model-checks it on small instances with TLC and proves with TLAPS, for every
instance, the safety properties that were checked.

## 1. Inventory

Sources are under `src/backend/app` unless they start with `agent/` (then
`src/agent/src`).

| Component | State | Operations | Interacts with | Hard behaviour | Correct when |
|---|---|---|---|---|---|
| Shift state machine (`shifts/state_machine.py`) | row of `shifts`, rows of `shift_events`, `breaks` | `start`, `pause` (break or not), `resume`, `end` (manual, automatic, forced) | called by the service and the jobs, inside their transactions | read-decide-write without a version check; keys looked up before the insert | events, breaks and row agree; legal moves only; a key is applied once |
| Shift service and API (`shifts/service.py`, `router.py`) | none of its own | `POST /shifts`, start, pause, resume, end, force-stop | state machine, attendance, webhooks; one transaction per request | resent requests, concurrent requests, database refusals | one active shift; notices say what happened |
| Shift jobs (`shifts/scheduler.py`, `worker/`) | none | `ensure_daily_shifts`, `run_auto_start`, `run_auto_end`, `mark_missed`, `detect_monitoring_lost` | same tables, one transaction for a batch | run next to requests and to each other; crash between selection and commit | every scheduled shift closes; one shift per occurrence |
| Attendance (`shifts/attendance.py`) | `attendance`, one row per employee and UTC date | `derive_for_shift` | called after each transition; timesheets and payroll read it | recomputed from rows that change later | current; hours agree with the event log |
| Leave, holidays (`scheduling/leave_router.py`, `suppression.py`) | `leave_requests`, calendars | approve, reject, `is_suppressed` | jobs ask it | decisions change between two jobs | a suppressed day gets no shift or a CANCELLED one |
| Occurrences (`scheduling/occurrences.py`, `resolver.py`) | `work_schedules`, `schedule_assignments` | create, assign; expansion of fixed, custom, flexible, rotating schedules | `create_shift_for_day` takes the first occurrence | time zones, daylight saving, midnight | windows of the local day, in UTC, in order |
| Policy (`policy/resolver.py`) | policies, `policy_assignments` | create, assign; resolve organization to employee | frozen into `shifts.policy_snapshot` | overrides, priorities, policies that are gone | most specific permitted value |
| Webhooks (`webhooks/service.py`) | `webhooks`, `webhook_deliveries` | subscribe, `emit`, `deliver_pending` | queued in the shift's transaction, posted by a job | crash between post and commit; overlapping runs; five attempts | delivered at least once, or FAILED after all attempts |
| Agent queue and sync (`agent/Agent.Service/SqliteEventQueue.cs`, `SyncWorker.cs`) | SQLite queue, sequence numbers | enqueue, peek, acknowledge, flush with backoff | posts batches to ingestion | lost answers, restarts, poison events | no event lost, none stored twice |
| Ingestion (`ingestion/service.py`) | activity, idle and web tables with `event_key` | `ingest_batch` | finds the active shift; attendance reads idle intervals | one transaction per batch; key check before the insert; shift bound at upload time | every event stored once, on no shift that was over at its capture |
| Agent heartbeat, collectors | shift state cache; interval, span and counters in memory | heartbeat, collect | backend heartbeat, the queue | stale state after a failure, idle passes, failed writes, restarts | no moment is reported twice |
| Agent tray | the current shift | one fresh key per action | transition endpoints | a lost answer: the action is repeated with a new key | - |
| Screenshots (`screenshots/`) | `screenshots`, object store | presign, upload, confirm, view, purge | agent collector, retention job, settings | blobs and rows are deleted in different steps; crash, overlap, refusal in between | kept until the retention ends, then gone |
| Timesheets (`timesheets/service.py`) | `timesheets`, entries, corrections | generate, edit, submit, approve, reject, lock, correct | reads attendance | lock against regeneration; no row version | a locked sheet never changes; one row per day |
| Projects and timer (`projects/router.py`) | `projects`, `tasks`, `task_time_entries` | create, start, stop | - | check then insert without an index | one open entry per employee |
| Devices (`devices/`, `agent/`) | `devices`, secrets on the machine | enrol, approve, revoke, token, heartbeat | agent | overlapping decisions; secrets that outlive them; authorization in another transaction | a revoked device is shut out |
| Alerts (`alerts/engine.py`) | `alert_rules`, `alerts`, `notifications` | evaluate, acknowledge, resolve | attendance and rollups of the day | check then insert; overlap; the day ends | one alert per `dedup_key`, on the same day |
| Payroll (`payroll/`) | `payroll_runs`, `payroll_lines` | run | attendance, leave | leave across periods, overlapping leaves | every day of leave paid once |
| Rollups (`productivity/`) | categories, classifications, daily rollups | classify, recompute | activity events, employees | people move while the job runs; it runs over its own rows | every second counted once |
| Tenancy, directory (`core/tenant.py`, `directory/`) | `app.current_org`, tenant tables | open, query, insert, commit | every request | the setting ends with each transaction | a session sees its organization, all of it and no other |
| Auth, RBAC, SSO, reports, AI, geo, audit, frontend | - | - | - | stateless checks, read-only queries, append-only log | not modelled, see section 7 |

`PROJECT.json` lists every component with its status, and under `hazards` each
place where this code can go wrong in a way a test would hardly reach, with the
properties aimed at it; a hazard that no property covers says why.

## 2. Modules

```
ShiftRules              pure: guards, row changes, events, attendance arithmetic
  ShiftLifecycle        state: tables, transactions, jobs, clock, leave, crashes
    ShiftProperties     type invariant, safety, liveness, refuted claims
      MCShift           policies, schedules and requests for TLC
      ShiftLifecycle_proofs      what holds for any interleaving
        ShiftSeparate_proofs     what holds while no two transactions have one shift
ShiftContract           abstract: one state per shift, its moves, one active shift

OfflineSync             the agent's queue, the sync loop, ingest_batch, faults;
                        the employee's shifts move as ShiftContract says,
                        or as a stale transaction leaves them
  MCSync                shifts and symmetry for TLC
  OfflineSync_proofs    types, delivery, uniqueness, refinement, binding
EventStream             abstract: what was captured, and a stored prefix of it

Webhooks, Alerts, Screenshots   jobs that Celery beat runs again and again
  MCProgress            these and OfflineSync with fairness: what must happen in
                        the end
  Jobs_proofs           the safety of the three jobs
Devices, Tenancy        who is let in, and what a session sees
TaskTimer               read-then-commit requests: the timer
Timesheets              read-then-commit requests: generate, decide, lock, edit
  Requests_proofs       the four of them
Collectors              the agent's passes: intervals, spans, counters
  Collectors_proofs
Policies, Schedules     assignments, and what is resolved from them
  MCPolicy              assignments to choose from
Rollups, Payroll        what is added up, and when
  Computed_proofs       the four of them
Sums_proofs             lemmas about sums over finite sets
MCBackOffice            an instance of all twelve of these, one per behaviour
```

**ShiftRules** translates `state_machine.py` and `attendance.py` operation by
operation. `Permitted` collects what raises (`InvalidTransition`,
`WindowNotOpen`, `NotPermitted`), `After` the assignments and `_bump`,
`BreaksAfter` what happens to the breaks, `EventsOf` the rows inserted into
`shift_events` (a `resume` from a break inserts two). `WorkedSeconds` and
`BreakSeconds` are the hours of `_compute_durations`; lateness, early leave,
overtime and the status word are functions of the same row and left out.

**ShiftLifecycle** is the component as its database sees it.

| Variable | Stands for |
|---|---|
| `shifts`, `breaks`, `log` | tables `shifts`, `breaks`, `shift_events` (committed rows) |
| `attendance` | table `attendance`: the row and breaks from which its columns were computed |
| `notified` | the shift's last row in `webhook_deliveries` |
| `leave` | employee and day pairs on approved leave |
| `clock` | `time_authority.now()` |
| `txn` | per request handler or Celery worker, its open transaction |
| `crashes` | transactions lost so far, bounded by `MaxCrashes` |

A transaction is READ COMMITTED, the default of `create_async_engine`, and three
steps, because that is where other transactions can get in between:

1. *Load*: `get_shift`, or the selection of a job. The ORM object keeps what was
   read then.
2. *Decide*: the key lookup, the checks and the changes to the object. It ends
   in `Decide`, in `Replay` (the key is recorded: the object stays as it is, but
   attendance and the webhook still follow) or in `Reject` (409, 422).
3. *Commit*: SQLAlchemy flushes the columns whose value changed and the new
   rows; the attendance derivation and the webhook read the flushed state. The
   first flush takes the row lock that is held until COMMIT, so nothing can come
   between flush, derivation and commit, and they are one step. `Rollback` is
   the refusal by `uq_active_shift_per_employee` or `uq_shift_event_key`.

The flush is modelled column by column (`Column`, `Flush`): a stale `pause` over
an `end` leaves the new `actual_end` under the old state. That, and the missing
comparison of `version`, is what makes the concurrent properties interesting.
`Crash` drops a transaction at any point before its commit. A job's batch is one
transaction over all due rows, as in the code.

**ShiftContract** knows states only: the moves the code makes, one active shift
per employee, and (no move leaves a terminal state) that terminal states are
final. `Moves` is the table of `docs/04-shift-state-machine.md` (`Documented`) and
four more that the code makes and the table leaves out (`Undocumented`): section 4
says which, and the run `documented_moves` shows one. `ShiftProperties` maps
`ShiftLifecycle` onto the contract with `ShiftState`.

**OfflineSync** follows a monitoring event from its capture to the database.
An event is its sequence number: AUTOINCREMENT never gives a number twice and
`event_id` is a fresh GUID, so number, key and event are one thing.

| Variable | Stands for |
|---|---|
| `state` | the employee's shifts, moved by `ShiftContract!Next` or by a stale transition (`StaleMove`) |
| `view` | `AgentState.CurrentShift`, as the last heartbeat that succeeded left it |
| `pass` | `CollectionWorker` has read `MonitoringActive` and is in its loop over the collectors |
| `last`, `queue` | the AUTOINCREMENT counter and the rows of the SQLite table `events` |
| `sync` | the request `SyncWorker` waits for |
| `post` | per backend handler: its request, the shift it bound, the events it found unseen |
| `rows` | the monitoring tables: for each event the shifts of its rows |
| `ended` | history: which shifts were over when the event was captured and have been ever since |
| `faults` | faults so far, bounded by `MaxFaults` |

`StaleMove` is what `final_claim` shows of the shift component: a transaction that
read a shift before it ended writes its own state over the terminal one, unless
the index on active shifts refuses it. An event captured after the end is then
bound to the revived shift, as `ingest_batch` does.

`Send` is the peek and the POST. `BindShift`, `Dedup` and `Store` are
`ingest_batch` up to its commit; between them other requests and shift
transitions get in. `Dedup` looks all events up at once although the code
inserts each before it looks up the next (autoflush): an insert of a key that
another open transaction has inserted waits for that transaction and fails if it
commits, so both orders end in `Store` or in `Refuse` alike. `Acknowledge` deletes
by number, not by event. The agent may give up at any time (`Timeout`) while the
backend goes on, so two requests with the same events are at work together; it
may restart (`AgentRestart`: only SQLite survives), and a request may be lost or
its handler die (`RequestFails`). A lost answer is a `Timeout` after `Store`.

**The jobs.** `Webhooks`, `Alerts` and `Screenshots` have the same shape as their
tasks in `worker/tasks.py`: a run reads its rows (`DeliverStart`, `Evaluate`,
`PurgeStart`), works on them one by one, and commits once. Runs overlap when one
takes longer than the beat, and a run may die before its commit. What a run does
outside the database cannot be rolled back: the posts of `Deliver` (`posts` keeps
how many there were and whether one was accepted) and the deleted blobs of
`PurgeOne`. `DeliverCommit` writes `attempts` as it was read plus one, over what
another run wrote, and `status` only if it changed, as SQLAlchemy's UPDATE does.
`DedupIndexOK` is `uq_alert_dedup`; `EvaluateRefused` rolls all alerts of a run
back, other employees' included. The channels of a rule are the list the API takes,
and `InApp` counts the notifications `dispatch` inserts for it: one for each
`in_app`, repeated ones too. `Screenshots` starts with the agent's side, presign, upload, confirm, each
of which may fail and end the capture (`DropCapture`).

**Requests without a version.** `TaskTimer`, `Timesheets` and `Devices` are tables
whose requests read a row, decide, and write at COMMIT the columns whose value
differs from what they read (`Written`, `Set`). What another request commits in
between is not noticed. `raced`, `overlapped` and `crossed` are history: they say
whose requests were at work at the same time, since that is what the promises of
this code depend on. In `Devices` a secret is shown once, at an approval, and
brought to the machine by hand (`StoreSecret`); the agent loads secret and token
when it starts; a call is authorized in one transaction (`Authorize`) and handled
in another (`HandleHeartbeat`), with a revocation possible in between.

**Collectors** has one action for an iteration of the worker's loop
(`CollectPass`), which may lose the reports of one collector to an exception, and
the things that move on their own: foreground window, input hooks, the cached
state, restarts. Shift changes and heartbeats are as in `OfflineSync`; here the
question is what the collectors measure.

**Policies** and **Schedules** keep tables of policies, schedules and assignments
that only grow, and operators that resolve them as the code does: `ApplyLevel` is
one iteration of `_resolve_kind`, `Make` is `_make` with local times compared
before they are converted. Where the order of rows decides between equals, all
answers are considered (`Picks`, `Resolved`). Hours are counted from a Monday,
and a zone changes its offset once, which is all a window of a day can meet.

**Tenancy** has sessions that run several transactions. `currentOrg` is
`app.current_org`: set again by the listener when a transaction begins
(`OrgOfStatement`), gone with its commit. The policy's USING is `Visible`, its
WITH CHECK a guard of `Insert`. Two inserts with the same key meet at the index;
the one that comes second fails in `Commit`.

**Rollups** reads the employees when a run starts and each one's activity,
classification and row when it gets there, while people move, leave and work.
Beat enqueues the job every ten minutes and no lock keeps two runs apart, so runs
overlap: `Flushed` notes the columns that differ from the row that was read,
`CommitRun` writes those over whatever another run has committed since, and is
refused (`AbortRun`) if a row it found missing is there by now. Rows of different
runs can so be mixed.
**Payroll** computes the lines of a run from attendance and leave at one moment.

The twelve parts share tables (attendance, employees, organizations) but none of
their properties relates what one of them writes to another: where a part reads
what another writes, it lets that change freely (`AttendanceDerived`,
`RowsChange`, `Derive`, `ReportActivity`). `MCBackOffice` therefore checks
behaviours of one part at a time, chosen by its variable `part`.

**EventStream** is the promise: a counter of captured events and a set of
received ones that is always a prefix of them and, with fairness, catches up.

## 3. Runs

| Run | Instance | Question | Result |
|---|---|---|---|
| `serial` | one shift, one transaction at a time, every endpoint, every job, three policies, four ticks | do the tables agree with each other and does the component implement its contract? | holds |
| `days` | two days of three ticks, two shifts, leave for the second day granted and withdrawn | one shift per occurrence, current attendance, contract over two shifts | holds |
| `concurrent` | two workers that both run requests and jobs, room for a second shift | what do the indexes and the column-wise flush still guarantee? | holds |
| `closing` | a client and a job worker, a crash, fairness of the jobs | is every scheduled shift closed in the end? | holds |
| `final_claim` | two transactions | "terminal states accept no further transitions" | violated |
| `duplicate_shift` | a shift that starts on the previous UTC day | the daily job creates shifts for who has "no shift yet" | violated |
| `worked_claim` | as `serial` | worked time is the sum of the WORKING intervals | violated |
| `documented_moves` | as `serial`, two ticks | "any event not in this table" is refused | violated |
| `sync` | two requests in flight, batches of two, three events, three faults of any kind; with a second shift two events and one fault | is no event lost, stored twice or bound to a shift that was over at its capture and since, and is the abstract stream implemented? | holds |
| `progress` | the sync with two events, two requests in flight and a fault; webhooks, alerts of two employees and screenshots with two overlapping runs and a crash; fairness of the sync loop, the backend and the beat | does every event reach the database and leave the disk, do deliveries end, is what is overdue alerted the same day, is what expires purged? | holds |
| `backoffice` | the twelve parts, two overlapping requests or runs each | fifteen invariants and action properties, see below | holds |
| `policy_claim` | two policies assigned to four levels | "otherwise the inherited value stands" | violated |

The properties of `serial` are the hard ones to keep by hand:
`LogExplainsState` (the log replays to the row's state and version),
`OpenBreakIffOnBreak` (whoever ends the shift closes the break),
`WorkedTimeMatchesLog` (two independent ways to the same hours),
`AttendanceCurrent` and `EndedNoticeIsTrue` (what other tables and subscribers
were told is still so), and `ContractSpec`, the refinement. Of these only the
weaker ones in `concurrent` survive interleaving: `KeysAppliedOnce`,
`BreaksAreRecorded`, `StateIsLastEvent`. (One active shift per employee is what
`Commit` tests with the index, so it is a lemma of the proofs and not checked.)

In `progress`: `StreamFairSpec` and `QueueDrains` (a retry that meets events
stored already, or the request it repeats, gets through in the end),
`DeliveryEnds` (lost counts and crashes do not keep a delivery pending for ever),
`OverdueIsAlerted` (a run that is refused for one employee's alert, or dies, does
not swallow another's), `RetentionIsKept` (neither a crash nor a blob that cannot
be deleted keeps a row).

In `backoffice`, by part:

| Part | Property | What could break it |
|---|---|---|
| timer | `NoTimeTwice` | a stop or switch that closes the wrong entry, or none |
| timesheets | `LockHoldsWithoutOverlap`, `OneRowPerDay` | a regeneration or edit that gets past the lock, or leaves old rows |
| webhooks | `DeliveredWasAccepted`, `NotGivenUpEarly` | overlapping runs that set counts back, an exception after the receiver had the post |
| alerts | `AlertedOnce` | overlapping runs, resolved alerts, two rules of one kind with different channels, runs that die |
| screenshots | `StoredCanBeViewed` | a purge that deletes blobs too early, from old rows or before their rows expire |
| collectors | `TimeReportedOnce` | idle passes, lost reports, restarts |
| devices | `RevocationHolds`, `OnlyLastSecretWorks` | a secret kept over a revocation or a new approval, overlapping decisions |
| policies | `ResolvedAsDocumented` | an order of levels, flags or priorities that is not the documented one |
| schedules | `WindowsInOrder` | windows at midnight, around the clock, at a change of the clocks |
| tenancy | `SeesItsOrganization` | a transaction that begins after a commit without its organization |
| rollups | `EachSecondCountedOnce` | people who move during the job, rows that overlapping runs have left |
| payroll | `LeaveDayPaidOnce` | leave over the boundary of two periods, decided between two runs |

Several of them carry a condition, and the condition is what the code needs:
`LockHoldsWithoutOverlap`, `OneRowPerDay`, `NoTimeTwice` and `RevocationHolds` fail
in the model for requests that overlap, `EachSecondCountedOnce` for a run during
which another one commits, `LeaveDayPaidOnce` for overlapping leaves,
`WindowsInOrder` for a start in the hour the clocks skip, and
`ResolvedAsDocumented` below an assignment that forbids but is not applied.
`AlertedOnce` counts notifications by the rule's list: a list that names `in_app`
twice gets two.

### Bounds

- *Employees*: one in the shift component. Employees share no row and no index
  entry; batches couple them only in that one refusal rolls all back (see section 7).
  The proofs are for any set.
- *Shifts* (`MaxShifts`): one, or two where a second one matters (revival, the
  next day, a duplicate). Three add nothing to pairwise properties.
- *Time* (`MaxTime`): enough ticks for before, at and after a window's start
  and end, with a break longer than its limit of one tick; `concurrent` needs
  only a deadline that passes while a transaction is open.
- *Requests*: one key per action, each may be sent any number of times while its
  shift exists. Two breaks, or a break then a pause, need distinct keys. Forced
  stops carry no key, which the API permits for all actions.
- *Workers*: two transactions are enough for every race in the hazard list, which are
  all between two.
- *Crashes*: one; a job lost twice behaves as one lost once.
- *Events and batches* (`MaxEvents`, `BatchSize`): three events in batches of two,
  so that a batch is cut, a later batch has fewer, and a retry's batch may differ
  from the first one's.
- *Handlers*: two; a third request could only wait for the same index entries.
  The proofs are for any number.
- *Faults* (`MaxFaults`): three allow a timeout, a lost retry and a restart in one
  history; liveness needs them to end, and runs with one, and with two events: one
  that is stored already when the other is sent.
- *The twelve parts*: two requests or runs at a time, which is what every race
  here needs (a third would race with one of the two as they do); one employee
  where rows are kept per employee, two where a run works on several (rollups, and
  alerts in `progress`, where one's alert gets a run refused that holds another's); two attempts, so that the limit is reached
  after one failure; three copies of a row so that two requests can each add one
  to one that is there; as many days, minutes or hours as it takes to be before,
  at and after a limit; four weeks, which is more than a rotation of three; two
  zones, one that goes forward and one that goes back; two teams, with an
  employee in each at first, two seconds of activity and one change of the
  directory or the classifications. One crash or restart each.
- `RollupBound` in `backoffice` is a state constraint: while two runs of the rollup
  job are at work, one second of activity, which one run may miss.
- `OutageBound` in `sync` is a state constraint: all three events and three faults
  with one shift, two events and one fault once there is a second one.

`CHECK_DEADLOCK FALSE` in all of them: clocks and rows are bounded and clients
need not send anything, so a run may stop when nothing is left to do.
`concurrent`, `sync` and `backoffice` use the symmetry of their workers, handlers,
or requests and runs, sound for what they check; the runs that check liveness use none.

### Fairness

`closing` assumes weak fairness of the clock, of every job's start and of the
steps of the job workers. Celery beat (`worker/celery_app.py`) enqueues every
job every one to five minutes, a job has no loop that waits for anything, and
time passes. Nothing is assumed of clients or of request handlers. Crashes are
bounded: with a worker that crashes on every run nothing would ever close.

`progress` assumes, for the sync, weak fairness of sending, of the agent's reaction to an answer
and of each backend handler. `SyncWorker.ExecuteAsync` loops for ever, waits
at most two minutes between attempts and catches every exception; a handler has no wait but
the index entry of another transaction, which ends too. The agent's collection
and heartbeat need no fairness. A device that stays revoked or a network that
stays down are excluded by the bound on faults.

For the jobs, `progress` assumes weak fairness of the start of a job's run and of the steps of a
run: beat enqueues `deliver_webhooks_all`, `evaluate_alerts_all` and `purge_screenshots_all`
periodically, and a post has a timeout of ten seconds. Days pass (`ShotDayEnds`) only for
the retention of screenshots; for alerts they need not, and may end before a run
commits, which `OverdueIsAlerted` allows. Answers of receivers and of object
storage are arbitrary.

## 4. Where the code and its documentation disagree

Five runs show a claim refuted (`findings` in `PROJECT.json`):

- `final_claim`. `docs/04-shift-state-machine.md:78` and `:118` promise terminal
  states that are final and a `version` that is checked, with 409 for the loser.
  No UPDATE compares `version`; the counterexample commits a transition that was
  decided on a row that has since ended.
- `duplicate_shift`. `ensure_daily_shifts` compares the UTC date of
  `scheduled_start` with the day (`scheduler.py:70`). East of Greenwich a shift
  may start on the previous UTC date, is not recognised, and once it is terminal
  is created again, although job and docstring call themselves idempotent.
- `worked_claim`. `docs/04-shift-state-machine.md:105` defines worked time as
  the sum of the WORKING intervals; PAUSED time, which has no break row, counts.
- `documented_moves`. `docs/04-shift-state-machine.md:77` answers 409 to any event
  its table (`:61-75`) does not list for the current state. The table lets a shift
  on a break be resumed or ended by AUTO_END. `end()` refuses only AVAILABLE and
  terminal shifts (`state_machine.py:290`, and its docstring says so): a manual end
  takes ON_BREAK to COMPLETED, a forced stop to FORCE_STOPPED. Two more moves are
  not in the table: `mark_missed` cancels an AVAILABLE shift when leave has been
  approved (`scheduler.py:187-209`), where `:63` and `:143` cancel SCHEDULED ones
  only and leave active ones alone; and `start` takes SCHEDULED to WORKING
  (`state_machine.py:120`), though no code creates a SCHEDULED shift.
  `ContractSpec` is about the moves of the code, these four included.
- `policy_claim`. `policy/resolver.py:4-6` and its comment at `:84` let a level
  override only when the assignment that is currently applied permits it. Line
  100 takes the flag of every level that has one: the organization forbids, a
  department permits and is therefore not applied, yet the employee's own
  assignment then replaces the organization's value. (`docs/07:126` can be read
  either way.) `ResolvedAsDocumented` says this is the only way to go wrong.

Read, with no run of their own: `docs/04:149-150` has MISSED and CANCELLED write a
shift event, `mark_missed` writes an audit row only; `docs/04:139` flags any
break longer than its limit, `end` never does (`state_machine.py:307`), only
`resume`; `docs/05-desktop-agent.md:112` plans a bounded queue with
backpressure, the SQLite queue has no limit; `docs/05:83` queues lifecycle events
offline, the tray posts them directly or fails; `docs/05:101` lets monitoring run
for the current shift state only, the agent goes by the last state it heard,
however old (`HeartbeatWorker.cs:44`). The batch carries a `shift_id` that
`ingestion/router.py` does not pass on: events belong to whatever shift is
active at upload, which after an outage may be a later one, or none.
The tray starts and ends shifts with its device token (`ApiClient.cs:73-83`), the
endpoints decode access tokens only (`core/deps.py:34`). `core/security.py:87` has
the device token "refreshed by the agent as needed": no code calls
`IssueDeviceTokenAsync`, and `Program.cs:27` loads the token once. `alert.created`
and others of `WEBHOOK_EVENTS` are never emitted. The URL for an upload
is signed for `image/webp` (`storage.py:70`), the agent sends `image/jpeg`
(`ApiClient.cs:64`). `rollups.py` counts a custom category in `tracked_seconds` but
in none of the three sums. A team that loses its last member keeps the rollup it
had (`rollups.py:174`). One organization's exception ends a job for those after
it (`worker/tasks.py:32-43`). A rule whose channels name `in_app` twice notifies
twice (`notifications/service.py:84`): the API takes any list. Two runs of the
rollup job that overlap can leave a team with an older sum, an employee who
moved in the sums of both teams, or a row whose columns come from two runs
(`rollups.py:184-202`), until the next run that is alone.

## 5. Theorems

Every invariant, action property and refinement that a passing run checks is
also a theorem, proved with `tlapm` for every value of the constants: any sets of
employees, workers, requests, handlers, rows, any schedule and every bound. Each
theorem is named after its property (`...Always`). The proofs use the assumptions
the modules name for their constants, which TLC evaluates in every run. Most only
say that constants have their types. Those that say more:

- `ShiftRules`, `ShiftLifecycle`: `None` is nobody's value, no client key ends in
  ":be" (the code derives the key of a closing break event so).
- `SyncAssumption`: a shift that is over is not active too.
- `AlertAssumption`: the `channels` of a rule are a list, of any length and with
  names repeated, of `in_app` and of `email`, which stands for what is only logged.
- `DefinitionAssumption` (`Schedules`): schedules have the fields that their type
  needs, with hours of a day. For others `occurrences.py` raises an error
  instead of giving a window. Clocks go back by an hour at most.
- `PayrollAssumption`, `RollupAssumption`: tables are finite, so that a sum over
  one has a value.

### Shifts, any interleaving (`ShiftLifecycle_proofs`)

| Theorem | Inductive invariant | Why it is needed |
|---|---|---|
| `TypeCorrect` | `TypeInv`: `TypeOK` and `TxnOK` | a commit writes what a transaction holds, so `TypeOK` alone is not inductive: what was loaded exists and stays, a changed object is `After` of the loaded one at a time that is not in the future, the break it found is one of the shift's |
| `KeysAppliedOnceAlways` | `KeysInv`, with `OneShiftPerKey` | the index refuses a key that is in the table; that a transaction with a key works on one shift, and that the two events of a `resume` have different keys, exclude that one transaction inserts it twice |
| `StateIsLastEventAlways`, `BreaksAreRecordedAlways` | `RecordInv`, given `DecidedInv` | the flush writes columns whose value changed. `DecidedInv` says that a changed object got there by an operation whose target differs from the loaded state, so `state` is written whenever an event is, however stale the object; and that a shift not created yet has no events |

That an employee has one active shift at most follows from the guard of `Commit`,
which is the index on the flushed table: `OneActiveShiftAlways` is a lemma that the
other proofs use.

These hold with any number of overlapping requests and jobs. None of the other
properties of a shift does; `final_claim` is one counterexample.

### Shifts, one transaction per shift at a time (`ShiftSeparate_proofs`)

`Separate` says that no two open transactions have read the same shift. It is
assumed of the whole behaviour: `Spec /\ []Separate => []P`, for any number of
workers, jobs with batches and requests on other shifts going on meanwhile, resent
requests, refusals and crashes. Without it each of these properties fails in the
model with two workers. The code does not enforce it: `get_shift` and the
selections of the jobs take no row lock. So the theorems say what holds as long as
transactions do not meet on a shift, and what a `FOR UPDATE` there would give at
all times. With one worker, as in the runs `serial` and `days` and in the
repository's own tests, it holds (`OneWorkerIsSeparate`).

All but the last rest on `FreshInv`: what a transaction has loaded is still
what the table holds, so that the flush is the decided move. A commit keeps it
for the others because they have loaded none of its shifts, and none that it
creates.

| Theorem | Further hypotheses | Inductive invariant |
|---|---|---|
| `SeparateImplementsContract` | | `FreshInv`: every commit is a step of the contract or a stutter (`PermittedMoves`: a decision makes one of the moves in `Moves`) |
| `LogExplainsStateAlways`, `OpenBreakIffOnBreakAlways` | | `HistoryInv`: no event is later than the decision in progress, the break it will close is one of the open ones, a row that waits has no events, and version 0 is AVAILABLE |
| `WorkedTimeMatchesLogAlways` | | `TimedInv`: time in WORKING or PAUSED and time in ON_BREAK add up to the whole log, the closed breaks sum to the latter, an open break began at the last event |
| `AttendanceCurrentAlways`, `EndedNoticeIsTrueAlways` | `KeysOfOneAction` | `ReportsInv`: each attendance row equals the shift and breaks it was computed from, an ended notice belongs to a row in the state it names, each recorded key names an event of its own request |
| `OneShiftPerOccurrenceAlways` | `WindowsOnTheirDate`, `OnlyTheJobSchedules`, and `OneCreates` for `Separate` | `OccurrenceInv`: what a transaction is about to insert is not there yet |

The further hypotheses are what the code relies on. `KeysOfOneAction`: no key is
used for two actions; the tray makes a fresh GUID for each. A key that named
another operation would announce what has not happened, and one that named
another shift would have attendance derived for a shift without events.
`WindowsOnTheirDate`: a window starts on the UTC date of its local day; elsewhere the daily job creates
a shift twice, which is `duplicate_shift`. `OnlyTheJobSchedules`: nobody creates
a shift by hand on a scheduled day, which the API allows. `OneCreates`: no two
open transactions are about to create a shift for one employee; two runs of the
daily job that overlap do, and if the shift of the first is over before the
second one commits, the index does not stop it.

### Sums (`Sums_proofs`)

Hours, seconds and days are sums. The library computes them by a function that is
recursive over the subsets of a finite set, in an order `CHOOSE` fixes.
`NumbersFromZero` and `SubsetsFromSmaller` state induction for sets instead of
operators (the library's own induction theorems take an operator, which cannot be
instantiated here), `SumExists` and `SumUnfolds` show with them that there is such
a function, and the rest follows: `SumRemove` (the order does not matter),
`SumOfUnion`, `SumOfGroups`, `SumMonotone`, `SumGrows` and `SumOfSizes` (sizes of
disjoint sets). The models therefore write their sums with `SumFunction`.
A log that grows by an event adds the gap between two events to the sum of one
state, and a break that closes adds the same gap to the sum of breaks: that is
`TimedInv`.

### Offline sync (`OfflineSync_proofs`)

- `SyncTypeCorrect`, `NothingLostAlways`, `StoredOnceAlways`.
  `NothingLost` rests on `DeliveryInv`: the tables hold a prefix of what was
  captured and each request works on a batch without gaps (`GapFree`:
  what precedes one of its events is in the batch or stored already, whatever
  happens to the queue meanwhile). That is why deleting *up to* the last number
  of a stored batch deletes stored events only. `PeekIsPrefix` shows by
  cardinalities that `LIMIT` after `ORDER BY` cuts a prefix.
- `SyncImplementsStream`: `Spec => StreamSpec`. A commit maps to `Deliver`, or to a
  stutter when all its events were duplicates; captures map to `Capture`.
- `NotBoundToEndedShiftAlways`. `ended` forgets a shift that a stale transition has
  revived, so no shift is assumed to stay over. `BindingInv` adds that the shifts in
  `ended` are over now, hence not among those a lookup finds, and that a request
  holds none of those of its events.

### The other parts

Any number of requests and runs may be at work at the same time.

- `DeliveredWasAcceptedAlways`, `NotGivenUpEarlyAlways` (`Jobs_proofs`). `HookInv`
  keeps, for the row and for what each run has read and done with it, that the
  posts made are at least the attempts counted: a commit that overwrites another
  run's count can only lower it.
- `AlertedOnceAlways`. `AlertInv` adds what a run knows (`Knows`): it sends for the
  keys it raises only, and for each of them what one rule that exists says
  (`InAppIsNumber`: any list of channels gives a number); the index then admits
  both or neither.
- `StoredCanBeViewedAlways`. `ShotInv` says that a purge only works on rows that
  were past their retention when it read them, that days only go forward, and
  that a row's date never changes after its confirmation.
- `RevocationHoldsAlways`, `OnlyLastSecretWorksAlways` (`Requests_proofs`).
  `DeviceInv`: a decision that overlaps no other is the only one at work and what
  it has read is still the row (`Current`); the row's secret is none or that of the
  last approval to commit.
- `SeesItsOrganizationAlways`. `TenantInv`: the setting is the session's own or
  none, so that the listener restores it.
- `NoTimeTwiceAlways`. `TimerInv`: a request that is alone has found the one open
  entry there is, or none because there is none, and time has not gone back.
- `OneRowPerDayAlways`, `LockHoldsAlways`. `SheetInv`: on a sheet that no two
  requests worked on, what the one at work has read is what is there.
- `TimeReportedOnceAlways` (`Collectors_proofs`). `CollectInv`: every report ends
  before the point at which its collector will begin the next (`PassReports`,
  `Appended`).
- `LeaveDayPaidOnceAlways` (`Computed_proofs`). `PayInv`: a run pays at most the days
  of its period somebody asked leave for, counted as a set unless requests
  overlap; requests are never withdrawn or moved, so later decisions cannot make
  an earlier run wrong, and disjoint periods have disjoint days.
- `EachSecondCountedOnceAlways`. `RollupInv`, for each run at work: while it goes
  through the employees it selected, each row lies between the seconds there were
  when it began and those there are now (`RowsInBetween`), a team's row is the sum
  of its members' (`TeamSum`), and, if no other run has committed since, a column
  that it will not write is already in the table with its value (`UpToDate`). So what
  its commit leaves are its own rows, whoever wrote them, and the teams' sums are
  sums over disjoint groups of them (`CountedOnce`).
- `ResolvedAsDocumentedAlways`. The walk of `_resolve_kind` over the levels is a
  recursive function. There are four levels, and the proof goes through them: a
  level treats what it inherits as the docstring says unless its row permits
  what was forbidden (`SameLevel`), and where nothing has been permitted again
  after being forbidden no level meets that case.
- `WindowsInOrderAlways`. `ScheduleInv` (what is assigned has been created); the
  rest is arithmetic about local times, midnight and the hour a zone changes by.

### Only model-checked

Liveness under fairness is out of the prover's reach: `ScheduledShiftsClose`,
`QueueDrains`, `DeliveryEnds`, `OverdueIsAlerted`, `RetentionIsKept`, and of
`StreamFairSpec` the part that says the stream catches up (its safety part is
`SyncImplementsStream`). The five claims of section 4 are refuted by TLC; that they
are false needs no proof.

## 6. Plan

Done: the shift component with its contract, the offline sync with its abstract
stream, the twelve parts around them, and a theorem for each safety property.
What would add most next:

1. Idle intervals in attendance, composed with ingestion (idle that arrives after
   the last derivation) and with two shifts on one UTC date.
2. The daily job employee by employee, with the session that has failed, the
   ad-hoc row that is deleted again, and two organizations.
3. Proofs: what the theorems of `ShiftSeparate_proofs` still give to one shift when
   transactions overlap on *other* shifts only (`Separate` is assumed of all of
   them at once), and step properties of jobs, such as what a batch may not touch.

## 7. Not modelled

- *Inside the shift component*: `audit_logs` rows (append-only, read by no
  transition), permissions and ownership checks (they refuse before anything is
  read), idle time (written by ingestion; `WorkedSeconds` takes it as a
  parameter and the runs pass 0), `detect_monitoring_lost` (audit rows only),
  the loop over organizations (one transaction each, no shared rows), the
  refusal of `attendance`'s unique index when two shifts of one date are derived
  for the first time at the same moment, the ad-hoc row that the daily job
  inserts and deletes in one transaction, and the decision of a batch shift by
  shift: the model decides all rows of a job in one step.
- *Inside the offline sync*: rows of the queue that cannot be decrypted (nothing
  gets past one, see the hazard), events the agent never produces (unknown type,
  no id: `ingest_batch` rejects them and the agent deletes them), the privacy filter on
  payloads, backoff times, and device revocation.
- *Inside the other parts*: the batch of 100 deliveries and webhooks that are
  disabled (no code does it); the read mark of a notification, channels other than `in_app` (they are only
  logged), and `early_departure` or `missed_shift` apart from rules with a threshold;
  when a screenshot is due; percentages and titles in collected events; HMAC and
  clock skew; weights, the indicator and the numbers that rollups copy from attendance; departments next to teams; amounts of
  payroll lines and inactive employees; roles and the columns of directory rows;
  holiday calendars, which the jobs read as constants; project costing, which
  only reads.
- *Whole components*: token cryptography, sessions and identity providers (checks
  of one request, without state that two actors share), reports, analytics and
  AI (read-only queries and formatting), distances over floats, settings other
  than the retention, the audit log (append-only, read by nothing), the tray and
  the frontend (clients of the modelled API).
