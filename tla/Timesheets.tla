----------------------------- MODULE Timesheets -----------------------------
(***************************************************************************)
(* timesheets/service.py and router.py, for one employee: timesheets are   *)
(* generated from attendance, submitted, approved, rejected, locked and    *)
(* edited.  A request reads the sheet (SheetLoad), generate also reads the *)
(* sheet's entries (ReadEntries), and everything it writes appears when it *)
(* commits.  There is no row version: UPDATE writes the columns whose      *)
(* value differs from the one that was read.                               *)
(***************************************************************************)
EXTENDS Integers, FiniteSets

CONSTANTS Periods,        \* sets of days: (period_start, period_end)
          SheetRequests,  \* bound: requests at work at the same time
          Copies,         \* bound: rows of one sheet and day (1..Copies)
          Hours,          \* bound: worked seconds of a day
          Corrections,    \* bound: rows of timesheet_corrections
          MaxSheetOps     \* bound: requests that commit

ASSUME SheetAssumption == /\ Hours \subseteq Nat /\ MaxSheetOps \in Nat
                          /\ Copies \in Nat /\ {} \notin Periods

Days == UNION Periods
NoSheet == [status |-> "none", approved |-> FALSE]
NoRow == -1
SheetIdle == [op |-> "idle", sheet |-> {}, seen |-> NoSheet, rows |-> {}, read |-> FALSE]

\* A row id: its sheet, its day and a number that stands for the uuid.
EntryIds == {i \in Periods \X Days \X (1..Copies) : i[2] \in i[1]}

VARIABLES
    sheets,       \* period -> row of timesheets; approved: approved_by is set
    entries,      \* id -> worked_seconds of the row of timesheet_entries
    attendance,   \* day -> worked seconds of its attendance row, 0 without
    corrections,  \* correction -> status, "none" without a row
    sheetTxn,     \* request -> what it has read
    overlapped,   \* history: sheets that two requests were at work on
    sheetOps      \* requests committed

sheetVars == <<sheets, entries, attendance, corrections, sheetTxn, overlapped, sheetOps>>

Timesheet == [status: {"none", "draft", "submitted", "approved", "rejected", "locked"},
              approved: BOOLEAN]
TimesheetEntry == {NoRow} \cup Hours
TimesheetCorrection == {"none", "pending", "approved", "rejected"}

Rows(p) == {i \in EntryIds : i[1] = p /\ entries[i] # NoRow}

\* uuid4: an id that no row has and no request remembers.
Fresh(i) == entries[i] = NoRow /\ \A t \in SheetRequests : i \notin sheetTxn[t].rows

-----------------------------------------------------------------------------
\* derive_for_shift, in a transaction of a shift.
AttendanceDerived(d, w) ==
    /\ attendance[d] # w
    /\ attendance' = [attendance EXCEPT ![d] = w]
    /\ UNCHANGED <<sheets, entries, corrections, sheetTxn, overlapped, sheetOps>>

SheetOpNames == {"generate", "submit", "approve", "reject", "lock", "edit"}

\* Mutant: generate goes on with a locked sheet.
OnlyEditsRefuse(op, sheet) == sheet = NoSheet \/ op = "generate" \/ sheet.status # "locked"

\* 409 on a locked sheet; a locked sheet is not generated again.
MayChange(op, sheet) == op = "lock" \/ sheet.status # "locked"

\* The SELECT of the sheet: _get_ts (404 without one), or by period.
SheetLoad(t, op, p) ==
    /\ sheetTxn[t] = SheetIdle /\ sheetOps < MaxSheetOps
    /\ op = "generate" \/ sheets[p] # NoSheet
    /\ MayChange(op, sheets[p])
    /\ sheetTxn' = [sheetTxn EXCEPT ![t] = [SheetIdle EXCEPT !.op = op, !.sheet = p,
                                                             !.seen = sheets[p]]]
    /\ overlapped' = IF \E u \in SheetRequests : sheetTxn[u].sheet = p
                     THEN overlapped \cup {p} ELSE overlapped
    /\ UNCHANGED <<sheets, entries, attendance, corrections, sheetOps>>

\* The entries generate is going to delete, or the one edit changes (404).
ReadEntries(t) ==
    LET x == sheetTxn[t] IN
    /\ ~ x.read
    /\ \/ x.op = "generate" /\ sheetTxn' = [sheetTxn EXCEPT ![t].rows = Rows(x.sheet),
                                                            ![t].read = TRUE]
       \/ x.op = "edit" /\ \E i \in Rows(x.sheet) :
             sheetTxn' = [sheetTxn EXCEPT ![t].rows = {i}, ![t].read = TRUE]
    /\ UNCHANGED <<sheets, entries, attendance, corrections, overlapped, sheetOps>>

SheetEnd(t) == /\ sheetTxn' = [sheetTxn EXCEPT ![t] = SheetIdle]
               /\ sheetOps' = sheetOps + 1
               /\ UNCHANGED <<attendance, corrections, overlapped>>

\* The status column is written when the new value is not the one read.
Written(now, seen, new) == IF new = seen THEN now ELSE new

NewStatus(op) == CASE op = "submit" -> "submitted" [] op = "approve" -> "approved"
                   [] op = "reject" -> "rejected"  [] op = "lock" -> "locked"

Decided(sheet, seen, op) ==
    [sheet EXCEPT !.status = Written(@, seen.status, NewStatus(op)),
                  !.approved = IF op = "approve" THEN TRUE ELSE @]

\* submit, approve, reject, lock
ChangeStatus(t) ==
    LET x == sheetTxn[t] IN
    /\ x.op \in {"submit", "approve", "reject", "lock"}
    /\ sheets' = [sheets EXCEPT ![x.sheet] = Decided(@, x.seen, x.op)]
    /\ SheetEnd(t) /\ UNCHANGED entries

\* edit_entry: any worked_seconds.  A row that is gone is a StaleDataError.
EditEntry(t, w) ==
    LET x == sheetTxn[t] IN
    /\ x.op = "edit" /\ x.read /\ x.rows \subseteq Rows(x.sheet)
    /\ entries' = [i \in EntryIds |-> IF i \in x.rows THEN w ELSE entries[i]]
    /\ SheetEnd(t) /\ UNCHANGED sheets

\* A row for every attendance row of the period.
NewRows(p) == {i \in EntryIds : /\ i[1] = p /\ attendance[i[2]] # 0 /\ Fresh(i)
                                /\ \A k \in 1..(i[3] - 1) : ~ Fresh(<<p, i[2], k>>)}

\* Mutant: the rows that were there stay.
AddedTo(x) == [i \in EntryIds |-> IF i \in NewRows(x.sheet) THEN attendance[i[2]] ELSE entries[i]]

\* The rows that were read are deleted, also when another request has
\* deleted them since; rows inserted since stay.
Rebuilt(x) == [i \in EntryIds |-> IF i \in NewRows(x.sheet) THEN attendance[i[2]]
                                  ELSE IF i \in x.rows THEN NoRow ELSE entries[i]]

\* generate_timesheet.  Of two requests that insert the sheet one fails
\* (uq_timesheet_period).
Generate(t) ==
    LET x == sheetTxn[t] IN
    /\ x.op = "generate" /\ x.read
    /\ x.seen = NoSheet => sheets[x.sheet] = NoSheet
    /\ sheets' = [sheets EXCEPT ![x.sheet].status = IF @ = "none" THEN "draft" ELSE @]
    /\ entries' = Rebuilt(x)
    /\ SheetEnd(t)

\* A refused commit (unique key, stale row) or a lost connection.
SheetRollback(t) == /\ sheetTxn[t] # SheetIdle
                    /\ sheetTxn' = [sheetTxn EXCEPT ![t] = SheetIdle]
                    /\ UNCHANGED <<sheets, entries, attendance, corrections, overlapped, sheetOps>>

\* create_correction, _decide_correction: the entry it is about stays as it is.
CreateCorrection(c) ==
    /\ corrections[c] = "none"
    /\ corrections' = [corrections EXCEPT ![c] = "pending"]
    /\ UNCHANGED <<sheets, entries, attendance, sheetTxn, overlapped, sheetOps>>

DecideCorrection(c, status) ==
    /\ corrections[c] # "none"
    /\ corrections' = [corrections EXCEPT ![c] = status]
    /\ UNCHANGED <<sheets, entries, attendance, sheetTxn, overlapped, sheetOps>>

SheetInit == /\ sheets = [p \in Periods |-> NoSheet]
             /\ entries = [i \in EntryIds |-> NoRow]
             /\ attendance = [d \in Days |-> 0]
             /\ corrections = [c \in Corrections |-> "none"]
             /\ sheetTxn = [t \in SheetRequests |-> SheetIdle]
             /\ overlapped = {} /\ sheetOps = 0

SheetNext ==
    \/ \E t \in SheetRequests :
          \/ \E op \in SheetOpNames, p \in Periods : SheetLoad(t, op, p)
          \/ ReadEntries(t) \/ ChangeStatus(t) \/ Generate(t) \/ SheetRollback(t)
          \/ \E w \in Hours : EditEntry(t, w)
    \/ \E d \in Days, w \in Hours : AttendanceDerived(d, w)
    \/ \E c \in Corrections : \/ CreateCorrection(c)
                              \/ \E v \in {"approved", "rejected"} : DecideCorrection(c, v)

SheetSpec == SheetInit /\ [][SheetNext]_sheetVars

-----------------------------------------------------------------------------
(* Properties *)

Frozen(p) == /\ sheets[p] = sheets'[p]
             /\ \A i \in EntryIds : i[1] = p => entries'[i] = entries[i]

\* "Locked timesheets are immutable" (service.py): once locked, a sheet stays
\* locked and its rows stay as they are, as long as no two requests are at
\* work on it at the same time; with two, the check is stale.
LockHoldsWithoutOverlap ==
    [][\A p \in Periods \ overlapped' : sheets[p].status = "locked" => Frozen(p)]_sheetVars

\* Generating again replaces the rows: a day has one row in a sheet, unless
\* two requests were at work on the sheet at the same time.
OneRowPerDay ==
    \A p \in Periods \ overlapped : \A i, j \in Rows(p) : i[2] = j[2] => i = j
=============================================================================
