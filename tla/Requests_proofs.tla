--------------------------- MODULE Requests_proofs ---------------------------
(***************************************************************************)
(* Proofs about requests that check and then write without a lock: that an *)
(* employee never has two time entries for one moment, that a locked       *)
(* timesheet stays as it is and that a day has one row in a sheet, and     *)
(* that a revoked device stays out, wherever no two requests were at work  *)
(* on the same thing at once.  And that a query, in whatever order the     *)
(* requests of several organizations run, sees the rows of its own.        *)
(***************************************************************************)
EXTENDS TaskTimer, Timesheets, Devices, Tenancy, TLAPS

-----------------------------------------------------------------------------
(* The task timer *)

TimerTxn == [op: {"idle", "start", "stop"}, emp: Timekeepers \cup {NoTask},
             task: Tasks \cup {NoTask}, open: Nat, at: 0..TimerHours]

Busy(t) == timerTxn[t].op # "idle"

TimerTypeOK ==
    /\ timeEntries \in Seq(TaskTimeEntry)
    /\ timerTxn \in [TimerRequests -> TimerTxn]
    /\ timerClock \in 0..TimerHours
    /\ \A t \in TimerRequests : IF Busy(t) THEN timerTxn[t].emp \in Timekeepers /\ timerTxn[t].task \in Tasks
                                         ELSE timerTxn[t] = TimerIdle

\* The entry a request has found is there and belongs to its employee.
Found(t) ==
    LET x == timerTxn[t] IN
    Busy(t) /\ x.open # 0 =>
        /\ x.open \in DOMAIN timeEntries
        /\ timeEntries[x.open].emp = x.emp /\ timeEntries[x.open].start =< x.at

\* A request that overlaps no other of its employee has found the only entry
\* that is open, and nothing of the employee is later than its clock.
UpToDate(t) ==
    LET x == timerTxn[t] IN
    Busy(t) /\ x.emp \notin raced =>
        /\ x.open # 0 => timeEntries[x.open].end = Open
        /\ \A i \in DOMAIN timeEntries : timeEntries[i].emp = x.emp =>
              /\ timeEntries[i].start =< x.at /\ timeEntries[i].end =< x.at
              /\ timeEntries[i].end = Open => i = x.open

Alone == \A t, u \in TimerRequests :
             Busy(t) /\ Busy(u) /\ timerTxn[t].emp = timerTxn[u].emp
                 => t = u \/ timerTxn[t].emp \in raced

TimerInv ==
    /\ TimerTypeOK
    /\ \A i \in DOMAIN timeEntries : timeEntries[i].start =< timerClock /\ timeEntries[i].end =< timerClock
    /\ \A t \in TimerRequests : Found(t) /\ UpToDate(t) /\ timerTxn[t].at =< timerClock
    /\ Alone
    /\ NoTimeTwice

LEMMA EntryType ==
    ASSUME TimerTypeOK, NEW i \in DOMAIN timeEntries
    PROVE  /\ timeEntries[i] \in TaskTimeEntry
           /\ timeEntries[i].start \in 0..TimerHours /\ timeEntries[i].start \in Int
           /\ timeEntries[i].end \in Int
<1>1. timeEntries[i] \in TaskTimeEntry
    BY DEF TimerTypeOK
<1> QED BY <1>1 DEF TaskTimeEntry, Open

LEMMA TimerInvInit == TimerInit => TimerInv
<1> SUFFICES ASSUME TimerInit PROVE TimerInv
    OBVIOUS
<1>1. TimerIdle \in TimerTxn
    BY TimerAssumption DEF TimerIdle, TimerTxn
<1>2. /\ timerTxn = [t \in TimerRequests |-> TimerIdle] /\ timeEntries = <<>>
      /\ timerClock = 0
    BY DEF TimerInit
<1>3. \A t \in TimerRequests : ~ Busy(t) /\ timerTxn[t].at = 0
    BY <1>2 DEF Busy, TimerIdle
<1> QED BY <1>1, <1>2, <1>3, TimerAssumption
        DEF TimerInv, TimerTypeOK, Found, UpToDate, Alone, NoTimeTwice

\* Of the entries that are open, at most one is of an employee whose
\* requests never overlapped, and it is the last one.
LEMMA OneOpen ==
    ASSUME TimerInv, NEW i \in DOMAIN timeEntries, NEW j \in DOMAIN timeEntries,
           timeEntries[i].emp = timeEntries[j].emp, timeEntries[i].emp \notin raced,
           timeEntries[i].end = Open
    PROVE  j =< i
<1>1. timeEntries[j].start \in 0..TimerHours /\ i \in Nat /\ j \in Nat
    BY EntryType DEF TimerInv, TimerTypeOK
<1>2. i < j => EndOf(timeEntries[i]) =< timeEntries[j].start
    BY DEF TimerInv, NoTimeTwice
<1> QED BY <1>1, <1>2, TimerAssumption DEF EndOf

LEMMA TimerInvLoad ==
    ASSUME TimerInv, NEW t \in TimerRequests, NEW op \in {"start", "stop"},
           NEW e \in Timekeepers, NEW k \in Tasks, TimerLoad(t, op, e, k)
    PROVE  TimerInv'
<1>1. PICK i \in IF op = "start" /\ Candidates(op, e, k) = {} THEN {0} ELSE Candidates(op, e, k) :
          timerTxn' = [timerTxn EXCEPT ![t] =
              [op |-> op, emp |-> e, task |-> k, open |-> i, at |-> timerClock]]
    BY Zenon DEF TimerLoad
<1>2. /\ UNCHANGED <<timeEntries, timerClock>>
      /\ raced' = IF \E u \in TimerRequests : timerTxn[u].emp = e THEN raced \cup {e} ELSE raced
    BY DEF TimerLoad
<1>3. /\ i \in Nat
      /\ i # 0 => i \in DOMAIN timeEntries /\ timeEntries[i].emp = e /\ timeEntries[i].end = Open
      /\ i = 0 => OpenEntries(e) = {}
    BY DEF Candidates, OpenEntries, TimerInv, TimerTypeOK
<1> DEFINE x == [op |-> op, emp |-> e, task |-> k, open |-> i, at |-> timerClock]
<1>4. x \in TimerTxn
    BY <1>3 DEF TimerTxn, TimerInv, TimerTypeOK
<1>5. /\ timerTxn'[t] = x
      /\ \A u \in TimerRequests \ {t} : timerTxn'[u] = timerTxn[u]
      /\ timerTxn' \in [TimerRequests -> TimerTxn]
    BY <1>1, <1>4 DEF TimerInv, TimerTypeOK
<1>6. raced \subseteq raced' /\ (e \notin raced' => \A u \in TimerRequests : timerTxn[u].emp # e)
    BY <1>2
<1>7. Found(t)'
    BY <1>2, <1>3, <1>5 DEF Found, TimerInv
<1>8. UpToDate(t)'
  <2> SUFFICES ASSUME e \notin raced, NEW j \in DOMAIN timeEntries, timeEntries[j].emp = e
               PROVE  /\ timeEntries[j].start =< timerClock /\ timeEntries[j].end =< timerClock
                      /\ timeEntries[j].end = Open => j = i
      BY <1>2, <1>3, <1>5, <1>6 DEF UpToDate
  <2>1. timeEntries[j].end = Open => j = i
    <3> SUFFICES ASSUME timeEntries[j].end = Open PROVE j = i
        OBVIOUS
    <3>1. i # 0
        BY <1>3 DEF OpenEntries
    <3>2. i =< j /\ j =< i
        BY <1>3, <3>1, OneOpen
    <3> QED BY <3>2, <1>3 DEF TimerInv, TimerTypeOK
  <2> QED BY <2>1 DEF TimerInv
<1>9. \A u \in TimerRequests \ {t} : (Found(u) /\ UpToDate(u))'
    BY <1>2, <1>5, <1>6 DEF Found, UpToDate, TimerInv, Busy
<1>10. Alone'
    BY <1>5, <1>6 DEF Alone, TimerInv, Busy
<1>11. NoTimeTwice'
    BY <1>2, <1>6 DEF NoTimeTwice, TimerInv
<1>12. TimerTypeOK'
    BY <1>2, <1>5 DEF TimerTypeOK, TimerInv, Busy
<1>13. \A u \in TimerRequests : timerTxn'[u].at =< timerClock
    BY <1>5 DEF TimerInv, TimerTypeOK
<1> QED BY <1>2, <1>7, <1>8, <1>9, <1>10, <1>11, <1>12, <1>13 DEF TimerInv

\* Closing the entry a request has found leaves the others as they are.
LEMMA Closing ==
    ASSUME TimerInv, NEW t \in TimerRequests, Busy(t)
    PROVE  LET x == timerTxn[t]  es == ClosedEntry(timeEntries, x) IN
           /\ es \in Seq(TaskTimeEntry) /\ Len(es) = Len(timeEntries)
           /\ \A i \in DOMAIN timeEntries :
                 /\ es[i].emp = timeEntries[i].emp /\ es[i].start = timeEntries[i].start
                 /\ es[i].end = IF i = x.open THEN x.at ELSE timeEntries[i].end
<1> DEFINE x == timerTxn[t]
           closed(i) == IF i # x.open THEN timeEntries[i]
                        ELSE [timeEntries[i] EXCEPT !.end = x.at, !.duration = x.at - timeEntries[i].start]
<1>1. \A i \in DOMAIN timeEntries :
         /\ closed(i) \in TaskTimeEntry
         /\ closed(i).emp = timeEntries[i].emp /\ closed(i).start = timeEntries[i].start
         /\ closed(i).end = IF i = x.open THEN x.at ELSE timeEntries[i].end
  <2> SUFFICES ASSUME NEW i \in DOMAIN timeEntries
               PROVE  /\ closed(i) \in TaskTimeEntry
                      /\ closed(i).emp = timeEntries[i].emp /\ closed(i).start = timeEntries[i].start
                      /\ closed(i).end = IF i = x.open THEN x.at ELSE timeEntries[i].end
      OBVIOUS
  <2>1. timeEntries[i] \in TaskTimeEntry /\ x \in TimerTxn
      BY DEF TimerInv, TimerTypeOK
  <2>2. CASE i = x.open
    <3>1. x.at - timeEntries[i].start \in 0..TimerHours /\ x.at \in 0..TimerHours
      <4>1. i # 0 /\ timeEntries[i].start =< x.at
          BY <2>2 DEF TimerInv, Found, TimerTypeOK
      <4> QED BY <4>1, <2>1, TimerAssumption DEF TaskTimeEntry, TimerTxn
    <3> QED BY <2>1, <2>2, <3>1 DEF TaskTimeEntry
  <2>3. CASE i # x.open
      BY <2>1, <2>3
  <2> QED BY <2>2, <2>3
<1>2. ClosedEntry(timeEntries, x) = [i \in DOMAIN timeEntries |-> closed(i)]
    BY DEF ClosedEntry
<1> HIDE DEF closed
<1> QED BY <1>1, <1>2 DEF TimerInv, TimerTypeOK

\* A request that ends, by closing what it has found and, for start, by an
\* entry that is open from its clock on.
LEMMA TimerInvEnd ==
    ASSUME TimerInv, NEW t \in TimerRequests, Busy(t),
           UNCHANGED <<timerClock, raced>>,
           timerTxn' = [timerTxn EXCEPT ![t] = TimerIdle],
           timeEntries' \in {timeEntries, ClosedEntry(timeEntries, timerTxn[t]),
                             SwitchedTo(timeEntries, timerTxn[t])}
    PROVE  TimerInv'
<1> DEFINE x == timerTxn[t]
           n == Len(timeEntries)
           new == [emp |-> x.emp, task |-> x.task, start |-> x.at, end |-> Open, duration |-> Open]
<1>1. /\ x \in TimerTxn /\ x.emp \in Timekeepers /\ x.task \in Tasks
      /\ x.at \in 0..TimerHours /\ x.at =< timerClock /\ timerClock \in 0..TimerHours
      /\ n \in Nat /\ DOMAIN timeEntries = 1..n /\ timeEntries \in Seq(TaskTimeEntry)
      /\ x.open # 0 => x.open \in 1..n /\ timeEntries[x.open].emp = x.emp
    BY DEF TimerInv, TimerTypeOK, TimerTxn, Found
<1>2. new \in TaskTimeEntry
    BY <1>1 DEF TaskTimeEntry
<1> DEFINE m == Len(timeEntries')
           closed(i) == IF i = x.open THEN x.at ELSE timeEntries[i].end
           Kept == m = n /\ \A i \in 1..n : timeEntries'[i].end = timeEntries[i].end
           Stopped == m = n /\ \A i \in 1..n : timeEntries'[i].end = closed(i)
           Switched == /\ m = n + 1 /\ timeEntries'[n + 1] = new
                       /\ \A i \in 1..n : timeEntries'[i].end = closed(i)
<1>3. /\ timeEntries' \in Seq(TaskTimeEntry)
      /\ \A i \in 1..n : timeEntries'[i].emp = timeEntries[i].emp /\ timeEntries'[i].start = timeEntries[i].start
      /\ Kept \/ Stopped \/ Switched
  <2> DEFINE es == ClosedEntry(timeEntries, x)
  <2>1. /\ es \in Seq(TaskTimeEntry) /\ Len(es) = n
        /\ \A i \in 1..n :
              /\ es[i].emp = timeEntries[i].emp /\ es[i].start = timeEntries[i].start
              /\ es[i].end = closed(i)
      BY <1>1, Closing
  <2> HIDE DEF es
  <2>2. CASE timeEntries' = timeEntries
      BY <2>2, <1>1
  <2>3. CASE timeEntries' = es
      BY <2>1, <2>3
  <2>4. CASE timeEntries' = SwitchedTo(timeEntries, x)
    <3>1. timeEntries' = Append(es, new)
        BY <2>4 DEF SwitchedTo, es
    <3>2. /\ timeEntries' \in Seq(TaskTimeEntry) /\ m = n + 1
          /\ timeEntries'[n + 1] = new /\ \A i \in 1..n : timeEntries'[i] = es[i]
        BY <2>1, <3>1, <1>1, <1>2
    <3> QED BY <2>1, <3>2
  <2> QED BY <2>2, <2>3, <2>4 DEF es
<1>6. DOMAIN timeEntries' = 1..m /\ m \in Nat
    BY <1>3
<1> HIDE DEF n, x, m
<1>4. /\ timerTxn' \in [TimerRequests -> TimerTxn]
      /\ timerTxn'[t].op = "idle" /\ timerTxn'[t].at = 0
      /\ \A u \in TimerRequests \ {t} : timerTxn'[u] = timerTxn[u]
    BY TimerAssumption DEF TimerInv, TimerTypeOK, TimerTxn, TimerIdle
<1>5. TimerTypeOK'
    BY <1>3, <1>4 DEF TimerTypeOK, TimerInv, Busy
<1>7. \A i \in DOMAIN timeEntries' :
         timeEntries'[i].start =< timerClock' /\ timeEntries'[i].end =< timerClock'
  <2> SUFFICES ASSUME NEW i \in DOMAIN timeEntries'
               PROVE  timeEntries'[i].start =< timerClock /\ timeEntries'[i].end =< timerClock
      OBVIOUS
  <2>1. CASE i \in 1..n
      BY <2>1, <1>1, <1>3 DEF TimerInv
  <2>2. CASE Switched /\ i = n + 1
      BY <2>2, <1>1 DEF Open
  <2>3. i \in 1..n \/ (Switched /\ i = n + 1)
      BY <1>1, <1>3, <1>6
  <2> QED BY <2>1, <2>2, <2>3
<1>8. \A u \in TimerRequests : Found(u)'
    BY <1>1, <1>3, <1>4, <1>6 DEF Found, TimerInv, Busy
<1>9. \A u \in TimerRequests : UpToDate(u)'
  <2> SUFFICES ASSUME NEW u \in TimerRequests \ {t}, Busy(u), timerTxn[u].emp \notin raced
               PROVE  UpToDate(u)'
      BY <1>4 DEF UpToDate, Busy
  <2>1. timerTxn[u].emp # x.emp
      BY DEF TimerInv, Alone, x
  <2>2. UpToDate(u) /\ Found(u) /\ timerTxn'[u] = timerTxn[u]
      BY <1>4 DEF TimerInv
  <2>3. \A i \in DOMAIN timeEntries' : timeEntries'[i].emp = timerTxn[u].emp =>
           /\ i \in 1..n /\ timeEntries[i].emp = timerTxn[u].emp
           /\ timeEntries'[i].start = timeEntries[i].start /\ timeEntries'[i].end = timeEntries[i].end
    <3>1. ASSUME NEW i \in DOMAIN timeEntries'
          PROVE  i \in 1..n \/ (Switched /\ i = n + 1)
        BY <1>1, <1>3, <1>6
    <3>2. Switched => timeEntries'[n + 1].emp = x.emp
        OBVIOUS
    <3>3. \A i \in 1..n : i = x.open => timeEntries[i].emp = x.emp
        BY <1>1
    <3>4. ASSUME NEW i \in 1..n, timeEntries'[i].emp = timerTxn[u].emp
          PROVE  /\ timeEntries[i].emp = timerTxn[u].emp
                 /\ timeEntries'[i].start = timeEntries[i].start
                 /\ timeEntries'[i].end = timeEntries[i].end
        BY <2>1, <1>3, <3>3, <3>4
    <3> QED BY <2>1, <3>1, <3>2, <3>4
  <2>4. timerTxn[u].open # 0 => /\ timerTxn[u].open \in 1..n
                                /\ timeEntries'[timerTxn[u].open].end = timeEntries[timerTxn[u].open].end
      BY <2>1, <2>2, <1>1, <1>3 DEF Found
  <2> QED BY <2>2, <2>3, <2>4, <1>1 DEF UpToDate
<1>10. Alone'
    BY <1>4 DEF Alone, TimerInv, Busy
<1>11. NoTimeTwice'
  <2> SUFFICES ASSUME NEW i \in DOMAIN timeEntries', NEW j \in DOMAIN timeEntries', i < j,
                      timeEntries'[i].emp = timeEntries'[j].emp, timeEntries'[i].emp \notin raced
               PROVE  EndOf(timeEntries'[i]) =< timeEntries'[j].start
      BY DEF NoTimeTwice
  <2>1. CASE Kept
      BY <2>1, <1>1, <1>3, <1>6 DEF TimerInv, NoTimeTwice, EndOf
  <2>2. CASE (Stopped \/ Switched) /\ j =< n
    <3>1. /\ i \in 1..n /\ j \in 1..n
          /\ timeEntries[i].emp = timeEntries[j].emp /\ timeEntries[i].emp \notin raced
        BY <2>2, <1>1, <1>3, <1>6
    <3>2. EndOf(timeEntries[i]) =< timeEntries[j].start
        BY <3>1, <1>1 DEF TimerInv, NoTimeTwice
    <3>3. CASE i # x.open
        BY <3>1, <3>2, <3>3, <2>2, <1>3 DEF EndOf
    <3>4. CASE i = x.open
      <4>1. timeEntries[j].start \in 0..TimerHours
          BY <3>1, <1>1, EntryType DEF TimerInv
      <4>2. timeEntries[i].emp = x.emp /\ i # 0
          BY <3>1, <3>4, <1>1
      <4>3. timeEntries[i].end = Open
          BY <3>1, <3>4, <4>2 DEF TimerInv, UpToDate, x
      <4> QED BY <3>2, <4>1, <4>3, TimerAssumption DEF EndOf
    <3> QED BY <3>3, <3>4
  <2>3. CASE Switched /\ j = n + 1
    <3>1. timeEntries'[j] = new /\ i \in 1..n /\ timeEntries[i].emp = x.emp
        BY <2>3, <1>1, <1>3, <1>6
    <3>2. timeEntries[i].end =< x.at /\ (timeEntries[i].end = Open => i = x.open)
        BY <3>1, <1>1, <1>3 DEF TimerInv, UpToDate, x
    <3>3. timeEntries'[i].end =< x.at /\ timeEntries'[i].end # Open
        BY <3>1, <3>2, <2>3, <1>1, <1>3 DEF Open
    <3> QED BY <3>1, <3>3 DEF EndOf
  <2>4. j =< n \/ (Switched /\ j = n + 1)
      BY <1>1, <1>3, <1>6
  <2> QED BY <2>1, <2>2, <2>3, <2>4, <1>3
<1> QED BY <1>1, <1>4, <1>5, <1>7, <1>8, <1>9, <1>10, <1>11, TimerAssumption DEF TimerInv, TimerTypeOK

LEMMA TimerInvNext == TimerInv /\ [TimerNext]_timerVars => TimerInv'
<1> SUFFICES ASSUME TimerInv, [TimerNext]_timerVars PROVE TimerInv'
    OBVIOUS
<1>1. ASSUME UNCHANGED <<timeEntries, timerTxn, timerClock, raced>>
      PROVE  TimerInv'
    BY <1>1 DEF TimerInv, TimerTypeOK, Found, UpToDate, Busy, Alone, NoTimeTwice
<1>2. CASE UNCHANGED timerVars
    BY <1>1, <1>2 DEF timerVars
<1>3. ASSUME NEW p \in Projects, CreateProject(p) \/ \E k \in Tasks : CreateTask(k, p)
      PROVE  TimerInv'
    BY <1>1, <1>3 DEF CreateProject, CreateTask
<1>4. ASSUME NEW t \in TimerRequests, StartTask(t) \/ StopTask(t) \/ TimerAbort(t)
      PROVE  TimerInv'
  <2>1. Busy(t)
      BY <1>4 DEF StartTask, StopTask, TimerAbort, Busy, TimerIdle, TimerInv, TimerTypeOK, TimerTxn
  <2> QED BY <1>4, <2>1, TimerInvEnd DEF StartTask, StopTask, TimerAbort, catalogue
<1>5. CASE TimerTick
  <2>1. timerClock' = timerClock + 1 /\ timerClock' \in 0..TimerHours
        /\ UNCHANGED <<timeEntries, timerTxn, raced>>
      BY <1>5, TimerAssumption DEF TimerTick, TimerInv, TimerTypeOK
  <2>2. /\ \A i \in DOMAIN timeEntries : timeEntries[i].start \in Int /\ timeEntries[i].end \in Int
        /\ \A t \in TimerRequests : timerTxn[t].at \in Int
        /\ timerClock \in Int
      BY EntryType, TimerAssumption DEF TimerInv, TimerTypeOK, TimerTxn
  <2>3. /\ \A i \in DOMAIN timeEntries' :
              timeEntries'[i].start =< timerClock' /\ timeEntries'[i].end =< timerClock'
        /\ \A t \in TimerRequests : timerTxn'[t].at =< timerClock'
      BY <2>1, <2>2 DEF TimerInv
  <2> QED BY <2>1, <2>3 DEF TimerInv, TimerTypeOK, Found, UpToDate, Busy, Alone, NoTimeTwice
<1> QED BY <1>2, <1>3, <1>4, <1>5, TimerInvLoad DEF TimerNext

\* NoTimeTwice: entries of an employee whose requests never overlapped cover
\* no moment twice, for any employees, tasks and number of requests.
THEOREM NoTimeTwiceAlways == TimerSpec => []NoTimeTwice
<1>1. TimerInv => NoTimeTwice
    BY DEF TimerInv
<1> QED BY <1>1, TimerInvInit, TimerInvNext, PTL DEF TimerSpec

-----------------------------------------------------------------------------
(* Timesheets *)

SheetTxn == [op: SheetOpNames \cup {"idle"}, sheet: Periods \cup {{}}, seen: Timesheet,
             rows: SUBSET EntryIds, read: BOOLEAN]

At(t, p) == sheetTxn[t].op # "idle" /\ sheetTxn[t].sheet = p

SheetTypeOK ==
    /\ sheets \in [Periods -> Timesheet]
    /\ entries \in [EntryIds -> TimesheetEntry]
    /\ attendance \in [Days -> Hours \cup {0}]
    /\ sheetTxn \in [SheetRequests -> SheetTxn]
    /\ \A t \in SheetRequests : IF sheetTxn[t].op = "idle" THEN sheetTxn[t] = SheetIdle
                                ELSE sheetTxn[t].sheet \in Periods
    /\ \A t \in SheetRequests : \A i \in sheetTxn[t].rows : i[1] = sheetTxn[t].sheet

\* What a request that overlaps no other has read is still so.
ReadIsCurrent(t, p) ==
    LET x == sheetTxn[t] IN
    /\ x.seen = sheets[p] /\ MayChange(x.op, sheets[p])
    /\ x.op = "generate" /\ x.read => x.rows = Rows(p)

SheetInv ==
    /\ SheetTypeOK
    /\ \A p \in Periods \ overlapped : \A t \in SheetRequests : At(t, p) =>
          /\ ReadIsCurrent(t, p)
          /\ \A u \in SheetRequests : At(u, p) => u = t
    /\ OneRowPerDay

LEMMA SheetInvInit == SheetInit => SheetInv
<1> SUFFICES ASSUME SheetInit PROVE SheetInv
    OBVIOUS
<1>1. SheetIdle \in SheetTxn
    BY DEF SheetIdle, SheetTxn, NoSheet, Timesheet
<1>2. \A t \in SheetRequests : sheetTxn[t] = SheetIdle
    BY DEF SheetInit
<1>3. SheetTypeOK
    BY <1>1, <1>2 DEF SheetInit, SheetTypeOK, NoSheet, Timesheet, TimesheetEntry, SheetIdle
<1>4. \A p \in Periods : Rows(p) = {}
    BY DEF SheetInit, Rows
<1> QED BY <1>2, <1>3, <1>4 DEF SheetInv, At, SheetIdle, OneRowPerDay

LEMMA SheetInvLoad ==
    ASSUME SheetInv, NEW t \in SheetRequests, NEW op \in SheetOpNames, NEW p \in Periods,
           SheetLoad(t, op, p)
    PROVE  SheetInv'
<1> DEFINE x == [SheetIdle EXCEPT !.op = op, !.sheet = p, !.seen = sheets[p]]
<1>1. /\ sheetTxn' = [sheetTxn EXCEPT ![t] = x]
      /\ overlapped' = IF \E u \in SheetRequests : sheetTxn[u].sheet = p
                       THEN overlapped \cup {p} ELSE overlapped
      /\ MayChange(op, sheets[p])
      /\ UNCHANGED <<sheets, entries, attendance>>
    BY DEF SheetLoad
<1>2. /\ x \in SheetTxn /\ x.op = op /\ op # "idle" /\ x.sheet = p /\ x.seen = sheets[p]
      /\ x.rows = {} /\ x.read = FALSE
    BY DEF SheetInv, SheetTypeOK, SheetTxn, SheetIdle, SheetOpNames
<1> HIDE DEF x
<1>3. /\ sheetTxn' \in [SheetRequests -> SheetTxn] /\ sheetTxn'[t] = x
      /\ \A u \in SheetRequests \ {t} : sheetTxn'[u] = sheetTxn[u]
    BY <1>1, <1>2 DEF SheetInv, SheetTypeOK
<1>4. SheetTypeOK'
    BY <1>1, <1>2, <1>3 DEF SheetTypeOK, SheetInv
<1>5. p \notin overlapped' => \A u \in SheetRequests : sheetTxn[u].sheet # p
    BY <1>1
<1>6. ASSUME NEW q \in Periods \ overlapped', NEW u \in SheetRequests, At(u, q)'
      PROVE  ReadIsCurrent(u, q)' /\ \A v \in SheetRequests : At(v, q)' => v = u
  <2>1. CASE q = p
    <3>1. \A v \in SheetRequests : At(v, q)' => v = t
        BY <2>1, <1>3, <1>5 DEF At
    <3>2. u = t
        BY <3>1, <1>6
    <3>3. ReadIsCurrent(t, p)'
        BY <1>1, <1>2, <1>3 DEF ReadIsCurrent, MayChange
    <3> QED BY <2>1, <3>1, <3>2, <3>3
  <2>2. CASE q # p
    <3>1. \A v \in SheetRequests : At(v, q)' => v # t /\ At(v, q)
        BY <2>2, <1>2, <1>3 DEF At
    <3>2. u # t /\ ReadIsCurrent(u, q) /\ \A v \in SheetRequests : At(v, q) => v = u
        BY <3>1, <1>1, <1>6 DEF SheetInv
    <3>3. ReadIsCurrent(u, q)'
        BY <3>2, <1>1, <1>3 DEF ReadIsCurrent, MayChange, Rows
    <3> QED BY <3>1, <3>2, <3>3
  <2> QED BY <2>1, <2>2
<1>7. OneRowPerDay'
    BY <1>1 DEF OneRowPerDay, SheetInv, Rows
<1> QED BY <1>4, <1>6, <1>7 DEF SheetInv

LEMMA SheetInvRead ==
    ASSUME SheetInv, NEW t \in SheetRequests, ReadEntries(t)
    PROVE  SheetInv'
<1> DEFINE x == sheetTxn[t]
<1>1. PICK picked \in SUBSET EntryIds :
         /\ sheetTxn' = [sheetTxn EXCEPT ![t] = [x EXCEPT !.rows = picked, !.read = TRUE]]
         /\ picked \subseteq Rows(x.sheet)
         /\ x.op = "generate" => picked = Rows(x.sheet)
  <2>1. CASE /\ x.op = "generate"
             /\ sheetTxn' = [sheetTxn EXCEPT ![t].rows = Rows(x.sheet), ![t].read = TRUE]
      BY <2>1 DEF Rows, SheetInv, SheetTypeOK
  <2>2. CASE x.op = "edit" /\ \E i \in Rows(x.sheet) :
                sheetTxn' = [sheetTxn EXCEPT ![t].rows = {i}, ![t].read = TRUE]
    <3>1. PICK i \in Rows(x.sheet) :
             sheetTxn' = [sheetTxn EXCEPT ![t].rows = {i}, ![t].read = TRUE]
        BY <2>2
    <3>2. {i} \in SUBSET EntryIds /\ {i} \subseteq Rows(x.sheet) /\ x.op # "generate"
        BY <3>1, <2>2 DEF Rows
    <3>3. sheetTxn' = [sheetTxn EXCEPT ![t] = [x EXCEPT !.rows = {i}, !.read = TRUE]]
        BY <3>1 DEF SheetInv, SheetTypeOK
    <3> QED BY <3>2, <3>3
  <2> QED BY <2>1, <2>2 DEF ReadEntries
<1>2. UNCHANGED <<sheets, entries, attendance, overlapped>>
    BY DEF ReadEntries
<1> DEFINE y == [x EXCEPT !.rows = picked, !.read = TRUE]
<1>3. /\ y \in SheetTxn /\ y.op = x.op /\ y.sheet = x.sheet /\ y.seen = x.seen /\ y.rows = picked
    BY DEF SheetInv, SheetTypeOK, SheetTxn
<1>4. x.op # "idle"
    BY DEF ReadEntries
<1> HIDE DEF x, y
<1>5. /\ sheetTxn' \in [SheetRequests -> SheetTxn] /\ sheetTxn'[t] = y
      /\ \A u \in SheetRequests \ {t} : sheetTxn'[u] = sheetTxn[u]
    BY <1>1, <1>3 DEF SheetInv, SheetTypeOK, y
<1>6. SheetTypeOK'
    BY <1>1, <1>2, <1>3, <1>4, <1>5 DEF SheetTypeOK, SheetInv, Rows, x
<1>7. \A u \in SheetRequests, q \in Periods : At(u, q)' = At(u, q)
    BY <1>3, <1>5 DEF At, x
<1>8. \A u \in SheetRequests, q \in Periods : At(u, q) /\ ReadIsCurrent(u, q) => ReadIsCurrent(u, q)'
    BY <1>1, <1>2, <1>3, <1>5 DEF At, ReadIsCurrent, MayChange, Rows, x
<1>9. OneRowPerDay'
    BY <1>2 DEF OneRowPerDay, SheetInv, Rows
<1> QED BY <1>2, <1>6, <1>7, <1>8, <1>9 DEF SheetInv

\* A request that ends and changes at most its own sheet and its rows.
LEMMA SheetInvEnd ==
    ASSUME SheetInv, NEW t \in SheetRequests, NEW p \in Periods, At(t, p),
           sheetTxn' = [sheetTxn EXCEPT ![t] = SheetIdle],
           UNCHANGED <<attendance, overlapped>>,
           sheets' \in [Periods -> Timesheet], entries' \in [EntryIds -> TimesheetEntry],
           \A q \in Periods \ {p} : sheets'[q] = sheets[q],
           \A i \in EntryIds : i[1] # p => entries'[i] = entries[i],
           p \notin overlapped => \A i, j \in EntryIds :
              i[1] = p /\ j[1] = p /\ i[2] = j[2] /\ entries'[i] # NoRow /\ entries'[j] # NoRow => i = j
    PROVE  SheetInv'
<1>1. SheetIdle \in SheetTxn /\ SheetIdle.op = "idle" /\ SheetIdle.rows = {}
    BY DEF SheetIdle, SheetTxn, NoSheet, Timesheet
<1>2. /\ sheetTxn' \in [SheetRequests -> SheetTxn] /\ sheetTxn'[t] = SheetIdle
      /\ \A u \in SheetRequests \ {t} : sheetTxn'[u] = sheetTxn[u]
    BY <1>1 DEF SheetInv, SheetTypeOK
<1>3. SheetTypeOK'
    BY <1>1, <1>2 DEF SheetTypeOK, SheetInv
<1>4. \A q \in Periods \ {p} : Rows(q)' = Rows(q)
    BY DEF Rows
<1>5. ASSUME NEW q \in Periods \ overlapped, NEW u \in SheetRequests, At(u, q)'
      PROVE  ReadIsCurrent(u, q)' /\ \A v \in SheetRequests : At(v, q)' => v = u
  <2>1. \A v \in SheetRequests : At(v, q)' => v # t /\ At(v, q)
      BY <1>1, <1>2 DEF At
  <2>2. q # p
      BY <1>5, <2>1 DEF SheetInv
  <2>3. u # t /\ ReadIsCurrent(u, q) /\ \A v \in SheetRequests : At(v, q) => v = u
      BY <2>1, <1>5 DEF SheetInv
  <2>4. ReadIsCurrent(u, q)'
      BY <2>2, <2>3, <1>2, <1>4 DEF ReadIsCurrent, MayChange
  <2> QED BY <2>1, <2>3, <2>4
<1>6. OneRowPerDay'
  <2> SUFFICES ASSUME NEW q \in Periods \ overlapped, NEW i \in Rows(q)', NEW j \in Rows(q)', i[2] = j[2]
               PROVE  i = j
      BY DEF OneRowPerDay
  <2>1. CASE q = p
      BY <2>1 DEF Rows
  <2>2. CASE q # p
      BY <2>2, <1>4 DEF SheetInv, OneRowPerDay
  <2> QED BY <2>1, <2>2
<1> QED BY <1>3, <1>5, <1>6 DEF SheetInv

\* An id that is in the ranges of its parts.
LEMMA EntryIdParts ==
    ASSUME NEW i \in EntryIds
    PROVE  i = <<i[1], i[2], i[3]>> /\ i[1] \in Periods /\ i[2] \in Days /\ i[3] \in 1..Copies /\ i[2] \in i[1]
BY DEF EntryIds

\* The next free number of a day is taken, so a day has one new row.
LEMMA OneNewRow ==
    ASSUME NEW p \in Periods, NEW i \in NewRows(p), NEW j \in NewRows(p), i[2] = j[2]
    PROVE  i = j
<1>1. /\ i \in EntryIds /\ j \in EntryIds /\ i[1] = p /\ j[1] = p
      /\ Fresh(i) /\ Fresh(j)
      /\ \A k \in 1..(i[3] - 1) : ~ Fresh(<<p, i[2], k>>)
      /\ \A k \in 1..(j[3] - 1) : ~ Fresh(<<p, j[2], k>>)
    BY DEF NewRows
<1>2. i = <<p, i[2], i[3]>> /\ j = <<p, i[2], j[3]>> /\ i[3] \in 1..Copies /\ j[3] \in 1..Copies
    BY <1>1, EntryIdParts
<1>3. ~ (i[3] < j[3]) /\ ~ (j[3] < i[3])
  <2>1. i[3] < j[3] => i[3] \in 1..(j[3] - 1)
      BY <1>2, SheetAssumption
  <2>2. j[3] < i[3] => j[3] \in 1..(i[3] - 1)
      BY <1>2, SheetAssumption
  <2>3. Fresh(<<p, i[2], i[3]>>) /\ Fresh(<<p, i[2], j[3]>>)
      BY <1>1, <1>2
  <2> QED BY <2>1, <2>2, <2>3, <1>1
<1>4. i[3] = j[3]
    BY <1>2, <1>3, SheetAssumption
<1> QED BY <1>2, <1>4

LEMMA SheetInvGenerate ==
    ASSUME SheetInv, NEW t \in SheetRequests, Generate(t)
    PROVE  SheetInv'
<1> DEFINE x == sheetTxn[t]
           p == x.sheet
<1>1. /\ x.op = "generate" /\ x.read /\ p \in Periods /\ At(t, p)
      /\ sheets' = [sheets EXCEPT ![p].status = IF @ = "none" THEN "draft" ELSE @]
      /\ entries' = Rebuilt(x)
      /\ sheetTxn' = [sheetTxn EXCEPT ![t] = SheetIdle]
      /\ UNCHANGED <<attendance, overlapped>>
      /\ \A i \in x.rows : i[1] = p
    BY DEF Generate, SheetEnd, At, SheetInv, SheetTypeOK
<1> HIDE DEF x
<1>2. \A i \in EntryIds : entries'[i] = IF i \in NewRows(p) THEN attendance[i[2]]
                                        ELSE IF i \in x.rows THEN NoRow ELSE entries[i]
    BY <1>1 DEF Rebuilt
<1>3. entries' \in [EntryIds -> TimesheetEntry]
  <2>1. \A i \in NewRows(p) : attendance[i[2]] \in TimesheetEntry
      BY EntryIdParts DEF NewRows, SheetInv, SheetTypeOK, TimesheetEntry
  <2> QED BY <1>1, <2>1 DEF Rebuilt, SheetInv, SheetTypeOK, TimesheetEntry
<1>4. \A i \in EntryIds : i[1] # p => entries'[i] = entries[i]
    BY <1>1, <1>2 DEF NewRows
<1>5. sheets' \in [Periods -> Timesheet] /\ \A q \in Periods \ {p} : sheets'[q] = sheets[q]
    BY <1>1 DEF SheetInv, SheetTypeOK, Timesheet
<1>6. ASSUME p \notin overlapped, NEW i \in EntryIds, NEW j \in EntryIds, i[1] = p, j[1] = p,
             i[2] = j[2], entries'[i] # NoRow, entries'[j] # NoRow
      PROVE  i = j
  <2>1. x.rows = Rows(p)
      BY <1>1, <1>6 DEF SheetInv, ReadIsCurrent, x
  <2>2. i \in NewRows(p) /\ j \in NewRows(p)
      BY <2>1, <1>2, <1>6 DEF Rows
  <2> QED BY <2>2, <1>1, <1>6, OneNewRow
<1> QED BY <1>1, <1>3, <1>4, <1>5, <1>6, SheetInvEnd

LEMMA SheetInvEdit ==
    ASSUME SheetInv, NEW t \in SheetRequests, NEW w \in Hours, EditEntry(t, w)
    PROVE  SheetInv'
<1> DEFINE x == sheetTxn[t]
           p == x.sheet
<1>1. /\ x.op = "edit" /\ x.rows \subseteq Rows(p) /\ p \in Periods /\ At(t, p)
      /\ entries' = [i \in EntryIds |-> IF i \in x.rows THEN w ELSE entries[i]]
      /\ sheetTxn' = [sheetTxn EXCEPT ![t] = SheetIdle]
      /\ UNCHANGED <<sheets, attendance, overlapped>>
    BY DEF EditEntry, SheetEnd, At, SheetInv, SheetTypeOK
<1> HIDE DEF x
<1>2. \A i \in x.rows : i[1] = p /\ entries[i] # NoRow
    BY <1>1 DEF Rows
<1>3. entries' \in [EntryIds -> TimesheetEntry] /\ sheets' \in [Periods -> Timesheet]
    BY <1>1 DEF SheetInv, SheetTypeOK, TimesheetEntry
<1>4. \A i \in EntryIds : i[1] # p => entries'[i] = entries[i]
    BY <1>1, <1>2
<1>5. p \notin overlapped => \A i, j \in EntryIds :
         i[1] = p /\ j[1] = p /\ i[2] = j[2] /\ entries'[i] # NoRow /\ entries'[j] # NoRow => i = j
  <2>1. \A i \in EntryIds : entries'[i] # NoRow => entries[i] # NoRow
      BY <1>1, <1>2
  <2> QED BY <1>1, <2>1 DEF SheetInv, OneRowPerDay, Rows
<1> QED BY <1>1, <1>3, <1>4, <1>5, SheetInvEnd

LEMMA SheetInvChange ==
    ASSUME SheetInv, NEW t \in SheetRequests, ChangeStatus(t)
    PROVE  SheetInv'
<1> DEFINE x == sheetTxn[t]
           p == x.sheet
<1>1. /\ x.op \in {"submit", "approve", "reject", "lock"} /\ p \in Periods /\ At(t, p)
      /\ sheets' = [sheets EXCEPT ![p] = Decided(@, x.seen, x.op)]
      /\ sheetTxn' = [sheetTxn EXCEPT ![t] = SheetIdle]
      /\ UNCHANGED <<entries, attendance, overlapped>>
    BY DEF ChangeStatus, SheetEnd, At, SheetInv, SheetTypeOK
<1> HIDE DEF x
<1>2. Decided(sheets[p], x.seen, x.op) \in Timesheet
  <2> DEFINE s == sheets[p]
             a == Written(s.status, x.seen.status, NewStatus(x.op))
             b == IF x.op = "approve" THEN TRUE ELSE s.approved
  <2>1. s \in Timesheet
      BY <1>1 DEF SheetInv, SheetTypeOK
  <2>2. NewStatus(x.op) \in {"submitted", "approved", "rejected", "locked"}
      BY <1>1 DEF NewStatus
  <2>3. a \in {"none", "draft", "submitted", "approved", "rejected", "locked"} /\ b \in BOOLEAN
      BY <2>1, <2>2 DEF Written, Timesheet
  <2>4. Decided(s, x.seen, x.op) = [s EXCEPT !.status = a, !.approved = b]
      BY DEF Decided
  <2> HIDE DEF a, b, s
  <2>5. [s EXCEPT !.status = a, !.approved = b] \in Timesheet
      BY <2>1, <2>3 DEF Timesheet
  <2> QED BY <2>4, <2>5 DEF s
<1>3. sheets' \in [Periods -> Timesheet] /\ \A q \in Periods \ {p} : sheets'[q] = sheets[q]
    BY <1>1, <1>2 DEF SheetInv, SheetTypeOK
<1>4. p \notin overlapped => \A i, j \in EntryIds :
         i[1] = p /\ j[1] = p /\ i[2] = j[2] /\ entries'[i] # NoRow /\ entries'[j] # NoRow => i = j
    BY <1>1 DEF SheetInv, OneRowPerDay, Rows
<1> QED BY <1>1, <1>3, <1>4, SheetInvEnd DEF SheetInv, SheetTypeOK

LEMMA SheetInvRollback ==
    ASSUME SheetInv, NEW t \in SheetRequests, SheetRollback(t)
    PROVE  SheetInv'
<1> DEFINE p == sheetTxn[t].sheet
<1>1. /\ p \in Periods /\ At(t, p)
      /\ sheetTxn' = [sheetTxn EXCEPT ![t] = SheetIdle]
      /\ UNCHANGED <<sheets, entries, attendance, overlapped>>
    BY DEF SheetRollback, At, SheetInv, SheetTypeOK
<1>2. p \notin overlapped => \A i, j \in EntryIds :
         i[1] = p /\ j[1] = p /\ i[2] = j[2] /\ entries'[i] # NoRow /\ entries'[j] # NoRow => i = j
    BY <1>1 DEF SheetInv, OneRowPerDay, Rows
<1> HIDE DEF p
<1> QED BY <1>1, <1>2, SheetInvEnd DEF SheetInv, SheetTypeOK

LEMMA SheetInvNext == SheetInv /\ [SheetNext]_sheetVars => SheetInv'
<1> SUFFICES ASSUME SheetInv, [SheetNext]_sheetVars PROVE SheetInv'
    OBVIOUS
<1>1. ASSUME UNCHANGED <<sheets, entries, sheetTxn, overlapped>>,
             attendance' \in [Days -> Hours \cup {0}]
      PROVE  SheetInv'
    BY <1>1 DEF SheetInv, SheetTypeOK, At, ReadIsCurrent, MayChange, OneRowPerDay, Rows
<1>2. CASE UNCHANGED sheetVars
    BY <1>1, <1>2 DEF sheetVars, SheetInv, SheetTypeOK
<1>3. ASSUME NEW d \in Days, NEW w \in Hours, AttendanceDerived(d, w)
      PROVE  SheetInv'
    BY <1>1, <1>3 DEF AttendanceDerived, SheetInv, SheetTypeOK
<1>4. ASSUME NEW c \in Corrections, CreateCorrection(c) \/ \E v \in {"approved", "rejected"} : DecideCorrection(c, v)
      PROVE  SheetInv'
    BY <1>1, <1>4 DEF CreateCorrection, DecideCorrection, SheetInv, SheetTypeOK
<1> QED BY <1>2, <1>3, <1>4, SheetInvLoad, SheetInvRead, SheetInvChange, SheetInvEdit,
           SheetInvGenerate, SheetInvRollback DEF SheetNext

\* OneRowPerDay: a day has one row in a sheet that no two requests were at
\* work on, however often it is generated, edited and decided.
THEOREM OneRowPerDayAlways == SheetSpec => []OneRowPerDay
<1>1. SheetInv => OneRowPerDay
    BY DEF SheetInv
<1> QED BY <1>1, SheetInvInit, SheetInvNext, PTL DEF SheetSpec

\* One step leaves a locked sheet and its rows as they are.
LEMMA LockedStep ==
    ASSUME SheetInv, [SheetNext]_sheetVars, NEW p \in Periods \ overlapped',
           sheets[p].status = "locked"
    PROVE  Frozen(p)
<1>1. ASSUME UNCHANGED <<sheets, entries>>
      PROVE  Frozen(p)
    BY <1>1 DEF Frozen
<1>2. ASSUME NEW t \in SheetRequests, ChangeStatus(t)
      PROVE  Frozen(p)
  <2> DEFINE x == sheetTxn[t]
  <2>1. /\ x.op \in {"submit", "approve", "reject", "lock"} /\ x.sheet \in Periods /\ At(t, x.sheet)
        /\ sheets' = [sheets EXCEPT ![x.sheet] = Decided(@, x.seen, x.op)]
        /\ UNCHANGED <<entries, overlapped>>
      BY <1>2 DEF ChangeStatus, SheetEnd, At, SheetInv, SheetTypeOK
  <2>2. CASE x.sheet # p
      BY <2>1, <2>2 DEF Frozen, SheetInv, SheetTypeOK
  <2>3. CASE x.sheet = p
    <3>1. x.seen = sheets[p] /\ MayChange(x.op, sheets[p])
        BY <2>1, <2>3 DEF SheetInv, ReadIsCurrent
    <3>2. x.op = "lock"
        BY <3>1 DEF MayChange
    <3>3. Decided(sheets[p], x.seen, x.op) = sheets[p]
      <4> DEFINE s == sheets[p]
      <4>1. s \in Timesheet /\ s.status = "locked"
          BY DEF SheetInv, SheetTypeOK
      <4>2. NewStatus("lock") = "locked"
          BY DEF NewStatus
      <4>3. Decided(s, s, "lock") = [s EXCEPT !.status = "locked", !.approved = s.approved]
          BY <4>1, <4>2 DEF Decided, Written
      <4> HIDE DEF s
      <4>4. [s EXCEPT !.status = "locked", !.approved = s.approved] = s
          BY <4>1 DEF Timesheet
      <4> QED BY <3>1, <3>2, <4>3, <4>4 DEF s
    <3> QED BY <2>1, <2>3, <3>3 DEF Frozen, SheetInv, SheetTypeOK
  <2> QED BY <2>2, <2>3
<1>3. ASSUME NEW t \in SheetRequests, NEW w \in Hours, EditEntry(t, w)
      PROVE  Frozen(p)
  <2>1. /\ sheetTxn[t].op = "edit" /\ At(t, sheetTxn[t].sheet)
        /\ \A i \in sheetTxn[t].rows : i[1] = sheetTxn[t].sheet
        /\ entries' = [i \in EntryIds |-> IF i \in sheetTxn[t].rows THEN w ELSE entries[i]]
        /\ UNCHANGED <<sheets, overlapped>>
      BY <1>3 DEF EditEntry, SheetEnd, At, SheetInv, SheetTypeOK
  <2>2. sheetTxn[t].sheet # p
      BY <2>1 DEF SheetInv, ReadIsCurrent, MayChange
  <2> QED BY <2>1, <2>2 DEF Frozen
<1>4. ASSUME NEW t \in SheetRequests, Generate(t)
      PROVE  Frozen(p)
  <2> DEFINE x == sheetTxn[t]
  <2>1. /\ x.op = "generate" /\ x.sheet \in Periods /\ At(t, x.sheet)
        /\ \A i \in x.rows : i[1] = x.sheet
        /\ sheets' = [sheets EXCEPT ![x.sheet].status = IF @ = "none" THEN "draft" ELSE @]
        /\ entries' = Rebuilt(x)
        /\ UNCHANGED overlapped
      BY <1>4 DEF Generate, SheetEnd, At, SheetInv, SheetTypeOK
  <2>2. x.sheet # p
      BY <2>1 DEF SheetInv, ReadIsCurrent, MayChange
  <2> HIDE DEF x
  <2>3. sheets'[p] = sheets[p]
      BY <2>1, <2>2 DEF SheetInv, SheetTypeOK
  <2>4. \A i \in EntryIds : i[1] = p => entries'[i] = entries[i]
      BY <2>1, <2>2 DEF Rebuilt, NewRows
  <2> QED BY <2>3, <2>4 DEF Frozen
<1> QED BY <1>1, <1>2, <1>3, <1>4
        DEF SheetNext, sheetVars, SheetLoad, ReadEntries, SheetRollback, AttendanceDerived,
            CreateCorrection, DecideCorrection

\* LockHoldsWithoutOverlap: a locked sheet and its rows never change again as
\* long as no two requests are at work on it at the same time.
THEOREM LockHoldsAlways == SheetSpec => LockHoldsWithoutOverlap
<1>1. SheetInv /\ [SheetNext]_sheetVars =>
          [\A p \in Periods \ overlapped' : sheets[p].status = "locked" => Frozen(p)]_sheetVars
    BY LockedStep
<1> QED BY <1>1, SheetInvInit, SheetInvNext, PTL DEF SheetSpec, LockHoldsWithoutOverlap

-----------------------------------------------------------------------------
(* Devices *)

Decision == [op: {"idle", "approve", "revoke"},
             status: {"none", "pending", "approved", "revoked"}, secret: Nat,
             revokedAt: BOOLEAN, overlaps: BOOLEAN]

DeviceTypeOK ==
    /\ device \in Device
    /\ decision \in [Deciders -> Decision]
    /\ issued \in Nat /\ secretOfLast \in Nat
    /\ crossed \in BOOLEAN

\* A decision that overlaps no other is the only one, and what it has read
\* of the device is still so.
Current(t) ==
    decision[t] # Undecided /\ ~ decision[t].overlaps =>
        /\ decision[t].status = device.status /\ decision[t].secret = device.secret
        /\ \A u \in Deciders \ {t} : decision[u] = Undecided

DeviceInv ==
    /\ DeviceTypeOK
    /\ device.secret \in {NoSecret, secretOfLast}
    /\ device.status = "none" => last = "none" /\ \A t \in Deciders : decision[t] = Undecided
    /\ \A t \in Deciders : Current(t)
    /\ last = "revoke" /\ ~ crossed => device.status = "revoked" /\ device.secret = NoSecret

LEMMA DeviceInvInit == DeviceInit => DeviceInv
<1> SUFFICES ASSUME DeviceInit PROVE DeviceInv
    OBVIOUS
<1>1. Undecided \in Decision
    BY DEF Undecided, Decision, NoSecret
<1>2. decision = [t \in Deciders |-> Undecided]
    BY DEF DeviceInit
<1>3. DeviceTypeOK
    BY <1>1, <1>2 DEF DeviceInit, DeviceTypeOK, Device, NoSecret
<1> QED BY <1>2, <1>3 DEF DeviceInit, DeviceInv, Current

\* Actions that change neither the decisions nor what they are about.
LEMMA DeviceInvSame ==
    ASSUME DeviceInv, UNCHANGED <<decision, issued, decisionsMade>>,
           device' = device \/ device' = [device EXCEPT !.seen = TRUE]
    PROVE  DeviceInv'
BY DEF DeviceInv, DeviceTypeOK, Device, Current, decisionsMade

LEMMA DeviceInvEnroll ==
    ASSUME DeviceInv, Enroll
    PROVE  DeviceInv'
BY DEF DeviceInv, DeviceTypeOK, Device, Current, Enroll, decisionsMade

LEMMA DeviceInvLoad ==
    ASSUME DeviceInv, NEW t \in Deciders, NEW op \in {"approve", "revoke"}, DecisionLoad(t, op)
    PROVE  DeviceInv'
<1> DEFINE others == {u \in Deciders : decision[u] # Undecided}
           mine == [op |-> op, status |-> device.status, secret |-> device.secret,
                    revokedAt |-> device.revokedAt, overlaps |-> others # {}]
<1>1. /\ decision[t] = Undecided /\ device.status # "none"
      /\ decision' = [u \in Deciders |-> IF u = t THEN mine
                          ELSE IF u \in others THEN [decision[u] EXCEPT !.overlaps = TRUE]
                          ELSE decision[u]]
      /\ UNCHANGED <<device, issued, decisionsMade>>
    BY DEF DecisionLoad
<1>2. mine \in Decision
    BY DEF DeviceInv, DeviceTypeOK, Device, Decision
<1>3. \A u \in Deciders : [decision[u] EXCEPT !.overlaps = TRUE] \in Decision /\ decision[u] \in Decision
    BY DEF DeviceInv, DeviceTypeOK, Decision
<1>4. decision' \in [Deciders -> Decision]
    BY <1>1, <1>2, <1>3
<1>5. \A u \in Deciders \ {t} : decision[u] = Undecided => decision'[u] = Undecided
    BY <1>1
<1>6. \A u \in Deciders \ {t} : decision[u] # Undecided => decision'[u].overlaps
    BY <1>1 DEF DeviceInv, DeviceTypeOK, Decision
<1>7. others # {} \/ \A u \in Deciders : decision[u] = Undecided
    OBVIOUS
<1>8. \A u \in Deciders : Current(u)'
  <2> SUFFICES ASSUME NEW u \in Deciders PROVE Current(u)'
      OBVIOUS
  <2>1. CASE u = t
      BY <2>1, <1>1, <1>5, <1>7 DEF Current
  <2>2. CASE u # t
      BY <2>2, <1>5, <1>6 DEF Current
  <2> QED BY <2>1, <2>2
<1> QED BY <1>1, <1>4, <1>8 DEF DeviceInv, DeviceTypeOK, decisionsMade

\* The commit of a decision: what remains to be shown is what it makes of
\* the device and of the secret of the last approval.
LEMMA DeviceInvEnd ==
    ASSUME DeviceInv, NEW t \in Deciders, decision[t] # Undecided, DecisionEnd(t),
           device' \in Device, issued' \in Nat, secretOfLast' \in Nat,
           device'.status # "none",
           device'.secret \in {NoSecret, secretOfLast'},
           decision[t].op = "revoke" /\ ~ decision[t].overlaps =>
               device'.status = "revoked" /\ device'.secret = NoSecret
    PROVE  DeviceInv'
<1>1. /\ decision' = [decision EXCEPT ![t] = Undecided]
      /\ last' = decision[t].op /\ crossed' = decision[t].overlaps
    BY DEF DecisionEnd
<1>2. decision' \in [Deciders -> Decision] /\ crossed' \in BOOLEAN
    BY <1>1 DEF DeviceInv, DeviceTypeOK, Decision, Undecided, NoSecret
<1>3. \A u \in Deciders : Current(u)'
  <2> SUFFICES ASSUME NEW u \in Deciders PROVE Current(u)'
      OBVIOUS
  <2>1. CASE u = t
      BY <2>1, <1>1 DEF Current, DeviceInv, DeviceTypeOK
  <2>2. CASE u # t
    <3>1. decision[u] # Undecided => decision[u].overlaps
        BY <2>2 DEF Current, DeviceInv
    <3> QED BY <3>1, <2>2, <1>1 DEF Current, DeviceInv, DeviceTypeOK
  <2> QED BY <2>1, <2>2
<1> QED BY <1>1, <1>2, <1>3 DEF DeviceInv, DeviceTypeOK

LEMMA DeviceInvApprove ==
    ASSUME DeviceInv, NEW t \in Deciders, ApproveDevice(t)
    PROVE  DeviceInv'
<1>1. /\ issued' = issued + 1 /\ secretOfLast' = issued'
      /\ device' = Approved(device, decision[t], issued') /\ DecisionEnd(t)
      /\ decision[t].op = "approve"
    BY DEF ApproveDevice
<1>2. decision[t] # Undecided
    BY <1>1 DEF Undecided
<1>3. /\ device' \in Device /\ device'.secret = issued'
      /\ issued' \in Nat
  <2> DEFINE x == decision[t]
             st == Set(device.status, x.status, "approved")
             ra == Set(device.revokedAt, x.revokedAt, FALSE)
  <2>1. /\ device' = [device EXCEPT !.status = st, !.revokedAt = ra, !.secret = issued']
        /\ device \in Device /\ issued' \in Nat
      BY <1>1 DEF Approved, DeviceInv, DeviceTypeOK
  <2>2. st \in {"none", "pending", "approved", "revoked"} /\ ra \in BOOLEAN
      BY <2>1 DEF Set, Device
  <2> HIDE DEF st, ra
  <2> QED BY <2>1, <2>2 DEF Device
<1>4. device'.status \in {device.status, "approved"} /\ device.status # "none"
    BY <1>1, <1>2 DEF Approved, Set, DeviceInv, DeviceTypeOK, Device
<1> QED BY <1>1, <1>2, <1>3, <1>4, DeviceInvEnd

LEMMA DeviceInvRevoke ==
    ASSUME DeviceInv, NEW t \in Deciders, RevokeDevice(t)
    PROVE  DeviceInv'
<1>1. /\ device' = Revoked(device, decision[t]) /\ DecisionEnd(t)
      /\ decision[t].op = "revoke" /\ UNCHANGED <<issued, secretOfLast>>
    BY DEF RevokeDevice
<1>2. decision[t] # Undecided
    BY <1>1 DEF Undecided
<1>3. /\ device' \in Device /\ device'.secret \in {NoSecret, device.secret}
      /\ device'.status \in {device.status, "revoked"}
    BY <1>1 DEF Revoked, Set, DeviceInv, DeviceTypeOK, Device, NoSecret
<1>4. device.status # "none"
    BY <1>2 DEF DeviceInv
<1>5. ~ decision[t].overlaps => device'.status = "revoked" /\ device'.secret = NoSecret
    BY <1>1, <1>2 DEF DeviceInv, DeviceTypeOK, Device, Current, Revoked, Set
<1> QED BY <1>1, <1>2, <1>3, <1>4, <1>5, DeviceInvEnd DEF DeviceInv, DeviceTypeOK

LEMMA DeviceInvAborts ==
    ASSUME DeviceInv, NEW t \in Deciders, DecisionAborts(t)
    PROVE  DeviceInv'
<1>1. decision' = [decision EXCEPT ![t] = Undecided] /\ UNCHANGED <<device, issued, decisionsMade>>
    BY DEF DecisionAborts
<1>2. decision' \in [Deciders -> Decision]
    BY <1>1 DEF DeviceInv, DeviceTypeOK, Decision, Undecided, NoSecret
<1> QED BY <1>1, <1>2 DEF DeviceInv, DeviceTypeOK, Current, decisionsMade

LEMMA DeviceInvNext == DeviceInv /\ [DeviceNext]_deviceVars => DeviceInv'
<1> SUFFICES ASSUME DeviceInv, [DeviceNext]_deviceVars PROVE DeviceInv'
    OBVIOUS
<1>1. CASE UNCHANGED deviceVars
    BY <1>1, DeviceInvSame DEF deviceVars, decisionsMade
<1>2. ASSUME NEW s \in 1..MaxApprovals, StoreSecret(s)
      PROVE  DeviceInv'
    BY <1>2, DeviceInvSame DEF StoreSecret
<1>3. CASE IssueToken \/ StartAgent \/ Authorize \/ HandleHeartbeat \/ TokenDayEnds
    BY <1>3, DeviceInvSame DEF IssueToken, StartAgent, Authorize, HandleHeartbeat, TokenDayEnds
<1> QED BY <1>1, <1>2, <1>3, DeviceInvEnroll, DeviceInvLoad, DeviceInvApprove, DeviceInvRevoke,
           DeviceInvAborts DEF DeviceNext

\* RevocationHolds: after a revocation that no decision overlapped the device
\* is revoked and accepts no secret, until the next decision.
THEOREM RevocationHoldsAlways == DeviceSpec => []RevocationHolds
<1>1. DeviceInv => RevocationHolds
    BY DEF DeviceInv, RevocationHolds, Accepts
<1> QED BY <1>1, DeviceInvInit, DeviceInvNext, PTL DEF DeviceSpec

\* OnlyLastSecretWorks: no secret but that of the last approval is accepted,
\* for any number of approvals and revocations and however they overlap.
THEOREM OnlyLastSecretWorksAlways == DeviceSpec => []OnlyLastSecretWorks
<1>1. DeviceInv => OnlyLastSecretWorks
    BY DEF DeviceInv, OnlyLastSecretWorks, Accepts
<1> QED BY <1>1, DeviceInvInit, DeviceInvNext, PTL DEF DeviceSpec

-----------------------------------------------------------------------------
(* Tenancy *)

\* Within a transaction the setting is the organization of the session.
TenantInv ==
    /\ DOMAIN seen = Sessions
    /\ sessionOrg \in [Sessions -> Orgs \cup {NoOrg}]
    /\ currentOrg \in [Sessions -> Orgs \cup {NoOrg}]
    /\ \A s \in Sessions : currentOrg[s] \in {NoOrg, sessionOrg[s]}

LEMMA TenantInvInit == TenantInit => TenantInv
BY DEF TenantInit, TenantInv

LEMMA StatementOfSession ==
    ASSUME TenantInv, NEW s \in Sessions
    PROVE  OrgOfStatement(s) = sessionOrg[s]
BY DEF TenantInv, OrgOfStatement

LEMMA TenantInvNext == TenantInv /\ [TenantNext]_tenantVars => TenantInv'
<1> SUFFICES ASSUME TenantInv, [TenantNext]_tenantVars PROVE TenantInv'
    OBVIOUS
<1> USE DEF TenantInv
<1>1. CASE UNCHANGED tenantVars
    BY <1>1 DEF tenantVars
<1>2. ASSUME NEW s \in Sessions, NEW o \in Orgs, OpenTenantSession(s, o)
      PROVE  TenantInv'
    BY <1>2 DEF OpenTenantSession
<1>3. ASSUME NEW s \in Sessions, Query(s)
      PROVE  TenantInv'
    BY <1>3, StatementOfSession DEF Query
<1>4. ASSUME NEW s \in Sessions, Commit(s) \/ Close(s)
      PROVE  TenantInv'
    BY <1>4 DEF Commit, Close, Gone
<1>5. ASSUME NEW s \in Sessions, NEW r, Insert(s, r)
      PROVE  TenantInv'
    BY <1>5, StatementOfSession DEF Insert
<1>6. ASSUME NEW o \in Orgs, NEW x \in RowKeys, ProvisionOrganization(o, x)
      PROVE  TenantInv'
    BY <1>6 DEF ProvisionOrganization
<1> QED BY <1>1, <1>2, <1>3, <1>4, <1>5, <1>6
        DEF TenantNext, CreateUser, CreateDepartment, CreateTeam, CreateEmployee

\* SeesItsOrganization: whatever transactions came before, a query returns
\* all rows of the session's organization and none of another, for any
\* organizations, sessions and rows.
THEOREM SeesItsOrganizationAlways == TenantSpec => SeesItsOrganization
<1>1. ASSUME TenantInv, NEW s \in Sessions, Query(s)
      PROVE  seen'[s] = {r \in rows \cup added[s] : r.org = sessionOrg[s]}
    BY <1>1, StatementOfSession DEF Query, Visible, TenantInv
<1>2. TenantInv /\ [TenantNext]_tenantVars =>
          [\A s \in Sessions : Query(s) =>
              seen'[s] = {r \in rows \cup added[s] : r.org = sessionOrg[s]}]_tenantVars
    BY <1>1
<1> QED BY <1>2, TenantInvInit, TenantInvNext, PTL DEF TenantSpec, SeesItsOrganization

=============================================================================
