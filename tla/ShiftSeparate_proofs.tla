------------------------- MODULE ShiftSeparate_proofs -------------------------
(***************************************************************************)
(* As long as no two transactions that are open at the same time have read *)
(* the same shift, ShiftLifecycle implements ShiftContract (every commit   *)
(* is a step of the contract), the event log explains the row, a break is  *)
(* open while the shift is on one, attendance and notices are true, the    *)
(* daily job creates one shift per occurrence, and the hours of the row    *)
(* and the breaks are the log's.                                           *)
(*                                                                         *)
(* The inductive invariants say what isolation would give for free: the    *)
(* rows a transaction has loaded are the rows the table still holds, and   *)
(* nothing has happened to a shift since it was decided.  They are false   *)
(* as soon as two transactions work on one shift.                          *)
(***************************************************************************)
EXTENDS ShiftLifecycle_proofs, Sums_proofs

\* No two open transactions have read the same shift: what a row lock taken
\* by get_shift and by the selections of the jobs would guarantee.
Separate == \A v, w \in Workers : v # w => Loaded(txn[v]) \cap Loaded(txn[w]) = {}

\* No two open transactions are going to create a shift for one employee.
OneCreates ==
    \A v, w \in Workers : v # w =>
        \A e \in Employees : txn[v].ins[e] = None \/ txn[w].ins[e] = None

\* One worker: the case the tests of the repository run.
Serial == \A v, w \in Workers : v = w

\* A decided transaction changes a shift along a move of the contract.
LegalMoves(tx) ==
    \A s \in Loaded(tx) :
        \/ tx.new[s] = tx.old[s]
        \/ <<tx.old[s].state, tx.new[s].state>> \in Contract!Moves

FreshInv ==
    \A w \in Workers :
        /\ \A s \in Loaded(txn[w]) : txn[w].old[s] = shifts[s]
        /\ txn[w].pc = "ready" => LegalMoves(txn[w])
        /\ \A e \in Employees :
              txn[w].ins[e] # None => txn[w].ins[e].state = "AVAILABLE"

-----------------------------------------------------------------------------

LEMMA PermittedMoves ==
    ASSUME NEW op \in Ops, NEW row \in Row, NEW brks, NEW t \in Nat,
           Permitted(op, row, brks, t)
    PROVE  <<row.state, After(op, row, t).state>> \in Contract!Moves
<1>1. After(op, row, t).state = Target(op)
  BY DEF After, Row
<1>2. row.state \in From(op)
  BY DEF Permitted
<1>3. CASE op \in Starts
  <2>1. row.state \in {"SCHEDULED", "AVAILABLE"} /\ Target(op) = "WORKING"
    BY <1>2, <1>3 DEF From, Target, Starts, Closings, Ends, WAITING
  <2> QED
    BY <1>1, <2>1 DEF Contract!Moves, Contract!Documented, Contract!Undocumented
<1>4. CASE op \in Closings
  <2>1. row.state \in {"SCHEDULED", "AVAILABLE"}
    BY <1>2, <1>4 DEF From, Starts, Closings, Ends, WAITING
  <2>2. Target(op) \in {"MISSED", "CANCELLED"}
    BY <1>4 DEF Target, Starts, Closings
  <2> QED
    BY <1>1, <2>1, <2>2 DEF Contract!Moves, Contract!Documented,
                            Contract!Undocumented, WAITING
<1>5. CASE op \in {"break", "pause", "resume"}
  BY <1>1, <1>2, <1>5 DEF From, Target, Starts, Closings, Ends, Contract!Moves,
                              Contract!Documented, Contract!Undocumented
<1>6. CASE op \in Ends
  <2>1. row.state \in {"WORKING", "ON_BREAK", "PAUSED"}
    BY <1>2, <1>6 DEF From, Starts, Closings, Ends, RUNNING
  <2>2. Target(op) \in {"COMPLETED", "AUTO_COMPLETED", "FORCE_STOPPED"}
    BY <1>6 DEF Target, Starts, Ends
  <2> QED
    BY <1>1, <2>1, <2>2 DEF Contract!Moves, Contract!Documented,
                            Contract!Undocumented, RUNNING
<1> QED
  BY <1>3, <1>4, <1>5, <1>6 DEF Ops

\* The steps that write no table leave the invariant to the transaction tx
\* that worker w gets.
LEMMA TxnStepFresh ==
    ASSUME TypeInv, FreshInv, NEW w \in Workers, NEW tx,
           txn' = [txn EXCEPT ![w] = tx], UNCHANGED shifts,
           \A s \in Loaded(tx) : tx.old[s] = shifts[s],
           tx.pc = "ready" => LegalMoves(tx),
           \A e \in Employees : tx.ins[e] # None => tx.ins[e].state = "AVAILABLE"
    PROVE  FreshInv'
<1>1. \A v \in Workers : txn'[v] = IF v = w THEN tx ELSE txn[v]
  BY DEF TypeInv, TypeOK
<1> QED
  BY <1>1 DEF FreshInv, Loaded, LegalMoves

LEMMA IdleFresh ==
    /\ \A s \in Loaded(IdleTxn) : IdleTxn.old[s] = shifts[s]
    /\ IdleTxn.pc # "ready"
    /\ \A e \in Employees : IdleTxn.ins[e] = None
BY IdleHoldsNothing DEF IdleTxn

LEMMA LoadFresh ==
    ASSUME TypeInv, FreshInv, NEW w \in Workers, NEW op, NEW key,
           NEW S \in SUBSET ShiftIds, Load(w, op, key, S)
    PROVE  FreshInv'
<1> DEFINE tx == [IdleTxn EXCEPT !.pc = "loaded", !.op = op, !.key = key,
                                 !.old = [s \in ShiftIds |->
                                            IF s \in S THEN shifts[s] ELSE None]]
<1>1. txn' = [txn EXCEPT ![w] = tx] /\ UNCHANGED shifts
  BY DEF Load, tables
<1>2. \A s \in Loaded(tx) : tx.old[s] = shifts[s]
  BY DEF Loaded, IdleTxn
<1>3. tx.pc # "ready" /\ \A e \in Employees : tx.ins[e] = None
  BY DEF IdleTxn
<1> HIDE DEF tx
<1> QED
  BY <1>1, <1>2, <1>3, TxnStepFresh

LEMMA InsertFresh ==
    ASSUME TypeInv, FreshInv, NEW w \in Workers, NEW op, NEW ins, Insert(w, op, ins),
           \A e \in Employees : ins[e] # None => ins[e].state = "AVAILABLE"
    PROVE  FreshInv'
<1> DEFINE tx == [IdleTxn EXCEPT !.pc = "ready", !.op = op, !.at = clock,
                                 !.ins = ins]
<1>1. txn' = [txn EXCEPT ![w] = tx] /\ UNCHANGED shifts
  BY DEF Insert, tables
<1>2. Loaded(tx) = {}
  BY DEF Loaded, IdleTxn, NoRows
<1>3. tx.ins = ins
  BY DEF IdleTxn
<1> HIDE DEF tx
<1>4. LegalMoves(tx)
  BY <1>2 DEF LegalMoves
<1> QED
  BY <1>1, <1>2, <1>3, <1>4, TxnStepFresh

LEMMA CreateFresh ==
    ASSUME TypeInv, FreshInv, NEW w \in ApiWorkers, LoadCreate(w)
    PROVE  FreshInv'
<1>1. PICK e \in Employees, d \in ManualDays, p \in Policies :
         Insert(w, "create", [IdleTxn.ins EXCEPT ![e] = NewRow(Schedule[<<e, d>>], p)])
  BY DEF LoadCreate
<1>2. \A u \in Employees :
         LET ins == [IdleTxn.ins EXCEPT ![e] = NewRow(Schedule[<<e, d>>], p)]
         IN  ins[u] # None => ins[u].state = "AVAILABLE"
  BY DEF IdleTxn, NewRow
<1> QED
  BY <1>1, <1>2, InsertFresh DEF Workers

LEMMA EnsureFresh ==
    ASSUME TypeInv, FreshInv, NEW w \in JobWorkers, LoadEnsure(w)
    PROVE  FreshInv'
<1> DEFINE today == Date(clock)
           due == {e \in Employees : NeedsShift(e, today)}
           ins(p) == [e \in Employees |->
                        IF e \in due THEN NewRow(Schedule[<<e, today>>], p) ELSE None]
<1>1. PICK p \in Policies : Insert(w, "ensure", ins(p))
  BY DEF LoadEnsure
<1>2. \A e \in Employees : ins(p)[e] # None => ins(p)[e].state = "AVAILABLE"
  BY DEF NewRow
<1> HIDE DEF ins
<1> QED
  BY <1>1, <1>2, InsertFresh DEF Workers

LEMMA DecideFresh ==
    ASSUME TypeInv, FreshInv, NEW w \in Workers, Decide(w)
    PROVE  FreshInv'
<1> DEFINE new == [s \in ShiftIds |->
                     IF s \in Loaded(txn[w])
                     THEN After(OpOn(txn[w], s), txn[w].old[s], clock) ELSE None]
           tx(close) == [txn[w] EXCEPT !.pc = "ready", !.at = clock,
                                       !.close = close, !.new = new]
<1>1. PICK close : txn' = [txn EXCEPT ![w] = tx(close)]
  BY DEF Decide
<1>2. UNCHANGED shifts
  BY DEF Decide, tables
<1>3. /\ tx(close).old = txn[w].old /\ tx(close).ins = txn[w].ins
      /\ tx(close).new = new
  <2> HIDE DEF new
  <2> QED
    BY DEF TypeInv, TypeOK, Txn
<1>4. \A s \in Loaded(txn[w]) :
         Permitted(OpOn(txn[w], s), txn[w].old[s], breaks[s], clock)
  BY DEF Decide
<1>5. \A s \in Loaded(txn[w]) : <<txn[w].old[s].state, new[s].state>> \in Contract!Moves
  BY <1>4, OpsOfTransaction, PermittedMoves, ClockIsNat
<1> HIDE DEF tx, new
<1>6. LegalMoves(tx(close))
  BY <1>3, <1>5 DEF LegalMoves, Loaded
<1> QED
  BY <1>1, <1>2, <1>3, <1>6, TxnStepFresh DEF FreshInv, Loaded

LEMMA ReplayFresh ==
    ASSUME TypeInv, FreshInv, NEW w \in Workers, Replay(w)
    PROVE  FreshInv'
<1> DEFINE tx == [txn[w] EXCEPT !.pc = "ready", !.new = txn[w].old, !.at = clock]
<1>1. txn' = [txn EXCEPT ![w] = tx] /\ UNCHANGED shifts
  BY DEF Replay, tables, TypeInv, TypeOK, Txn
<1>2. tx.old = txn[w].old /\ tx.ins = txn[w].ins /\ tx.new = txn[w].old
  BY DEF TypeInv, TypeOK, Txn
<1> HIDE DEF tx
<1>3. LegalMoves(tx)
  BY <1>2 DEF LegalMoves
<1> QED
  BY <1>1, <1>2, <1>3, TxnStepFresh DEF FreshInv, Loaded

\* A commit changes no row that another transaction has read.
LEMMA UnreadIsKept ==
    ASSUME Separate, FreshInv, NEW w \in Workers, Commit(w),
           NEW v \in Workers, v # w, NEW s \in Loaded(txn[v])
    PROVE  shifts'[s] = shifts[s] /\ s \notin Loaded(txn[w])
<1>1. shifts' = ShiftsAfter(txn[w])
  BY DEF Commit
<1>2. s \in ShiftIds /\ s \notin Loaded(txn[w])
  BY DEF Separate, Loaded
<1>3. shifts[s] # None
  BY DEF FreshInv, Loaded
<1>4. ~ Inserts(txn[w], s)
  BY <1>2, <1>3, InsertedIsFree
<1> QED
  BY <1>1, <1>2, <1>4 DEF ShiftsAfter

LEMMA StepFresh ==
    ASSUME Separate, TypeInv, FreshInv, [Next]_vars
    PROVE  FreshInv'
<1>1. CASE UNCHANGED <<shifts, txn>>
  BY <1>1 DEF FreshInv, Loaded, LegalMoves
<1>2. ASSUME NEW w \in ApiWorkers, LoadRequest(w) PROVE FreshInv'
  <2>1. PICK r \in Requests : Load(w, r.op, r.key, {r.shift})
    BY <1>2 DEF LoadRequest
  <2>2. {r.shift} \in SUBSET ShiftIds
    BY RequestsAssumption
  <2> QED
    BY <2>1, <2>2, LoadFresh DEF Workers
<1>3. ASSUME NEW w \in ApiWorkers, LoadCreate(w) PROVE FreshInv'
  BY <1>3, CreateFresh
<1>4. ASSUME NEW w \in JobWorkers, LoadEnsure(w) PROVE FreshInv'
  BY <1>4, EnsureFresh
<1>5. ASSUME NEW w \in JobWorkers, NEW op \in JobOps, LoadJob(w, op) PROVE FreshInv'
  BY <1>5, LoadFresh DEF LoadJob, DueShifts, Workers
<1>6. ASSUME NEW w \in Workers, Decide(w) PROVE FreshInv'
  BY <1>6, DecideFresh
<1>7. ASSUME NEW w \in Workers, Replay(w) PROVE FreshInv'
  BY <1>7, ReplayFresh
<1>8. ASSUME NEW w \in Workers, Reject(w) \/ Rollback(w) \/ Crash(w)
      PROVE  FreshInv'
  BY <1>8, IdleFresh, TxnStepFresh DEF Reject, Rollback, Crash, Deny, tables
<1>9. ASSUME NEW w \in Workers, Commit(w) PROVE FreshInv'
  \* The worker becomes idle and has changed no row that another one has read.
  <2>1. \A v \in Workers : txn'[v] = IF v = w THEN IdleTxn ELSE txn[v]
    BY <1>9 DEF Commit, Deny, TypeInv, TypeOK
  <2>2. Loaded(IdleTxn) = {} /\ IdleTxn.pc # "ready"
        /\ \A e \in Employees : IdleTxn.ins[e] = None
    BY IdleFresh, IdleHoldsNothing
  <2>3. \A v \in Workers : v # w => \A s \in Loaded(txn[v]) : shifts'[s] = shifts[s]
    BY <1>9, UnreadIsKept
  <2>4. \A v \in Workers : \A s \in Loaded(txn'[v]) : txn'[v].old[s] = shifts'[s]
    BY <2>1, <2>2, <2>3 DEF FreshInv
  <2>5. \A v \in Workers : txn'[v].pc = "ready" => LegalMoves(txn'[v])
    BY <2>1, <2>2 DEF FreshInv
  <2>6. \A v \in Workers, e \in Employees :
           txn'[v].ins[e] # None => txn'[v].ins[e].state = "AVAILABLE"
    BY <2>1, <2>2 DEF FreshInv
  <2> QED
    BY <2>4, <2>5, <2>6 DEF FreshInv, Loaded, LegalMoves
<1> QED
  BY <1>1, <1>2, <1>3, <1>4, <1>5, <1>6, <1>7, <1>8, <1>9
  DEF Next, Step, Tick, DecideLeave, vars, tables

LEMMA FreshAlways == Spec /\ []Separate => []FreshInv
<1>1. Init => FreshInv
  BY IdleFresh, IdleHoldsNothing DEF Init, FreshInv
<1>2. FreshInv /\ TypeInv /\ Separate /\ [Next]_vars => FreshInv'
  BY StepFresh
<1> QED
  BY <1>1, <1>2, TypeInvCorrect, PTL DEF Spec

-----------------------------------------------------------------------------
(* Every commit is a step of the contract. *)

LEMMA CommitMoves ==
    ASSUME TypeInv, FreshInv, NEW w \in Workers, Commit(w), NEW s \in ShiftIds
    PROVE  /\ ShiftState'[s] \in {None} \cup States
           /\ \/ ShiftState'[s] = ShiftState[s]
              \/ <<ShiftState[s], ShiftState'[s]>> \in Contract!Moves
<1> DEFINE tx == txn[w]
<1>1. /\ shifts' = ShiftsAfter(tx) /\ tx.pc = "ready"
      /\ tx \in Txn /\ shifts \in [ShiftIds -> OptRow]
      /\ shifts' \in [ShiftIds -> OptRow]
  BY CommitType DEF Commit, TypeInv, TypeOK
<1>2. ShiftState[s] = IF shifts[s] = None THEN None ELSE shifts[s].state
  BY DEF ShiftState, Exists
<1>3. ShiftState'[s] = IF shifts'[s] = None THEN None ELSE shifts'[s].state
  BY DEF ShiftState, Exists
<1>4. ShiftState'[s] \in {None} \cup States
  BY <1>1, <1>3 DEF OptRow, Row
<1>5. CASE Inserts(tx, s)
  <2>1. ShiftState[s] = None
    BY <1>2, <1>5, InsertedIsFree
  <2>2. shifts'[s] = tx.ins[s[1]] /\ tx.ins[s[1]] # None /\ s[1] \in Employees
    BY <1>1, <1>5 DEF ShiftsAfter, Inserts, ShiftIds
  <2>3. ShiftState'[s] = "AVAILABLE"
    BY <1>3, <2>2 DEF FreshInv
  <2> QED
    BY <1>4, <2>1, <2>3 DEF Contract!Moves, Contract!Documented, Contract!Undocumented
<1>6. CASE ~ Inserts(tx, s) /\ s \in Loaded(tx)
  <2>1. /\ shifts[s] = tx.old[s] /\ shifts[s] \in Row /\ tx.new[s] \in Row
        /\ \/ tx.new[s] = tx.old[s]
           \/ <<tx.old[s].state, tx.new[s].state>> \in Contract!Moves
    BY <1>1, <1>6, OpsOfTransaction DEF FreshInv, LegalMoves
  <2>2. shifts'[s] = Flush(shifts[s], tx.old[s], tx.new[s])
    BY <1>1, <1>6 DEF ShiftsAfter
  <2>3. shifts'[s] \in Row /\ shifts'[s].state = tx.new[s].state
    <3>1. Flush(shifts[s], tx.old[s], tx.new[s]) \in Row
      BY <2>1, FlushType
    <3>2. Flush(shifts[s], tx.old[s], tx.new[s]).state
            = Column(shifts[s].state, tx.old[s].state, tx.new[s].state)
      BY <2>1 DEF Flush, Row
    <3> QED
      BY <2>1, <2>2, <3>1, <3>2 DEF Column
  <2> QED
    BY <1>2, <1>3, <1>4, <2>1, <2>3, NoRowAssumption
<1>7. CASE ~ Inserts(tx, s) /\ s \notin Loaded(tx)
  BY <1>1, <1>2, <1>3, <1>4, <1>7 DEF ShiftsAfter
<1> QED
  BY <1>5, <1>6, <1>7

LEMMA StepRefines ==
    ASSUME TypeInv, FreshInv, [Next]_vars
    PROVE  [Contract!Next]_ShiftState
<1>1. CASE UNCHANGED tables
  BY <1>1 DEF tables, ShiftState, Exists
<1>2. ASSUME NEW w \in Workers, Commit(w) PROVE Contract!Next
  <2>1. \A s \in ShiftIds :
           /\ ShiftState'[s] \in {None} \cup States
           /\ \/ ShiftState'[s] = ShiftState[s]
              \/ <<ShiftState[s], ShiftState'[s]>> \in Contract!Moves
    BY <1>2, CommitMoves
  <2>2. ShiftState' \in [ShiftIds -> {None} \cup WAITING \cup RUNNING \cup TERMINAL_STATES]
    BY <2>1 DEF ShiftState, States
  <2>3. Contract!OneActive(ShiftState')
    <3>1. ActiveIndexOK(shifts')
      BY <1>2 DEF Commit, Committable
    <3>2. Contract!Active = ACTIVE_STATES
      BY DEF Contract!Active, ACTIVE_STATES, WAITING, RUNNING
    <3>3. \A s \in ShiftIds :
             ShiftState'[s] \in ACTIVE_STATES => ActiveIn(shifts', s)
      BY NoRowAssumption
      DEF ShiftState, Exists, ActiveIn, ACTIVE_STATES, States, WAITING, RUNNING
    <3> QED
      BY <3>1, <3>2, <3>3 DEF Contract!OneActive, ActiveIndexOK
  <2> QED
    BY <2>1, <2>2, <2>3 DEF Contract!Next
<1> QED
  BY <1>1, <1>2, OnlyCommitsWrite

\* With one worker nothing overlaps: the theorems below hold of it.
LEMMA OneWorkerIsSeparate == Serial => (Spec => [](Separate /\ OneCreates))
<1> SUFFICES ASSUME Serial PROVE Spec => [](Separate /\ OneCreates)
  OBVIOUS
<1>1. Separate /\ OneCreates
  BY DEF Serial, Separate, OneCreates
<1> QED
  BY <1>1, PTL

\* Transactions that read no shift another one has open keep the contract: a
\* shift only makes the moves of the state machine, a terminal shift makes
\* none, and an employee has one active shift, whatever requests, resent
\* requests, jobs, leave decisions and crashes come in whatever order.
THEOREM SeparateImplementsContract == Spec /\ []Separate => ContractSpec
<1>1. Spec /\ []Separate => []FreshInv
  BY FreshAlways
<1>2. Init => Contract!Init
  BY DEF Init, Contract!Init, ShiftState, Exists, NoRows
<1>3. TypeInv /\ FreshInv /\ [Next]_vars => [Contract!Next]_ShiftState
  BY StepRefines
<1> QED
  BY <1>1, <1>2, <1>3, TypeInvCorrect, PTL DEF Spec, ContractSpec, Contract!Spec

-----------------------------------------------------------------------------
(* The rows, the event log and the breaks *)

Dated(row) == row.scheduled_start # None \/ row.actual_start # None

\* What a row knows of its own history, besides LogExplainsState.
RowOK(s) ==
    LET row == shifts[s] IN
    /\ row.state # "SCHEDULED"
    /\ row.version = 0 <=> row.state = "AVAILABLE"
    /\ row.version = 0 => log[s] = <<>> /\ row.actual_start = None
    /\ row.version # 0 => Dated(row)
    /\ row.state \in RUNNING => row.actual_start # None
    /\ row.scheduled_start \in 0..MaxTime \cup {None}
    /\ row.actual_start \in 0..MaxTime \cup {None}

NoEventAfter(s, t) == \A i \in DOMAIN log[s] : log[s][i].at =< t

HistoryOK ==
    /\ \A s \in ShiftIds : Exists(s) => RowOK(s)
    /\ \A s \in ShiftIds : NoEventAfter(s, clock)
    /\ LogExplainsState
    /\ OpenBreakIffOnBreak

\* What a transaction knows: it has one shift of an employee, and nothing
\* has happened to that shift since the transaction decided.
TxOK(tx) ==
    /\ tx.at =< clock
    /\ \A s, u \in Loaded(tx) : s[1] = u[1] => s = u
    /\ tx.op = "mark_missed" => \A s \in Loaded(tx) : tx.old[s].scheduled_start # None
    /\ tx.pc = "ready" => \A s \in Touched(tx) :
          NoEventAfter(s, tx.at) /\ tx.close[s] \in BreakFound(tx, s)
    /\ \A e \in Employees : tx.ins[e] # None =>
          /\ tx.ins[e].actual_start = None
          /\ tx.ins[e].scheduled_start \in 0..MaxTime \cup {None}

HistoryInv == HistoryOK /\ \A w \in Workers : TxOK(txn[w])

\* What is known of every state already.
Base == TypeInv /\ DecidedInv /\ FreshInv /\ OneActiveShift

-----------------------------------------------------------------------------
(* Steps that write no table *)

LEMMA EventOfLog ==
    ASSUME TypeInv, NEW s \in ShiftIds
    PROVE  /\ log[s] \in Seq(Event) /\ Len(log[s]) \in Nat
           /\ DOMAIN log[s] = 1..Len(log[s])
           /\ \A i \in DOMAIN log[s] : log[s][i] \in Event
<1>1. log[s] \in Seq(Event)
  BY DEF TypeInv, TypeOK
<1> QED
  BY <1>1, LenProperties, ElementOfSeq

LEMMA IdleOK == ASSUME TypeInv PROVE TxOK(IdleTxn)
<1>1. 0 =< clock /\ IdleTxn.at = 0 /\ IdleTxn.op = "none"
  BY ClockIsNat DEF IdleTxn
<1>2. \A e \in Employees : IdleTxn.ins[e] = None
  BY DEF IdleTxn
<1>3. IdleTxn.pc = "idle"
  BY DEF IdleTxn
<1> QED
  BY <1>1, <1>2, <1>3, IdleHoldsNothing DEF TxOK

\* A worker gets the transaction tx, or no transaction changes at all.
LEMMA TxnStepHistory ==
    ASSUME TypeInv, HistoryInv, NEW w \in Workers, NEW tx, TxOK(tx),
           txn' = [txn EXCEPT ![w] = tx], UNCHANGED <<clock, tables>>
    PROVE  HistoryInv'
<1>1. \A v \in Workers : txn'[v] = IF v = w THEN tx ELSE txn[v]
  BY DEF TypeInv, TypeOK
<1>2. \A v \in Workers : TxOK(txn'[v])
  BY <1>1 DEF HistoryInv
<1>3. HistoryOK'
  BY DEF HistoryInv, HistoryOK, RowOK, NoEventAfter, LogExplainsState, StateAfter,
         OpenBreakIffOnBreak, Exists, tables
<1>4. \A v \in Workers : TxOK(txn[v])'
  BY <1>2 DEF TxOK, NoEventAfter, BreakFound, Loaded, Touched, tables
<1> QED
  BY <1>3, <1>4 DEF HistoryInv

LEMMA QuietStepHistory ==
    ASSUME TypeInv, HistoryInv, UNCHANGED <<tables, txn>>, clock' \in Nat, clock =< clock'
    PROVE  HistoryInv'
<1>1. clock \in Nat /\ \A w \in Workers : txn[w].at \in Nat
  BY ClockIsNat DEF TypeInv, TypeOK, Txn
<1>2. \A s \in ShiftIds : \A i \in DOMAIN log[s] : log[s][i].at \in Nat
  BY EventOfLog DEF Event
<1>3. \A s \in ShiftIds : NoEventAfter(s, clock')
  BY <1>1, <1>2 DEF HistoryInv, HistoryOK, NoEventAfter
<1>4. HistoryOK'
  BY <1>3 DEF HistoryInv, HistoryOK, RowOK, NoEventAfter, LogExplainsState, StateAfter,
         OpenBreakIffOnBreak, Exists, tables
<1>5. \A w \in Workers : TxOK(txn[w])'
  <2> SUFFICES ASSUME NEW w \in Workers PROVE TxOK(txn[w])'
    OBVIOUS
  <2>1. TxOK(txn[w])
    BY DEF HistoryInv
  <2>2. txn[w].at =< clock'
    BY <1>1, <2>1 DEF TxOK
  <2> QED
    BY <2>1, <2>2 DEF TxOK, NoEventAfter, BreakFound, Loaded, Touched, tables
<1> QED
  BY <1>4, <1>5 DEF HistoryInv

LEMMA LoadHistory ==
    ASSUME TypeInv, HistoryInv, NEW w \in Workers, NEW op, NEW key,
           NEW S \in SUBSET ShiftIds, Load(w, op, key, S),
           \A s, u \in S : s[1] = u[1] => s = u,
           op = "mark_missed" => \A s \in S : shifts[s].scheduled_start # None
    PROVE  HistoryInv'
<1> DEFINE tx == [IdleTxn EXCEPT !.pc = "loaded", !.op = op, !.key = key,
                                 !.old = [s \in ShiftIds |->
                                            IF s \in S THEN shifts[s] ELSE None]]
<1>1. txn' = [txn EXCEPT ![w] = tx] /\ UNCHANGED <<clock, tables>>
  BY DEF Load
<1>2. /\ tx.pc = "loaded" /\ tx.op = op /\ tx.at = 0 /\ 0 =< clock
      /\ \A s \in Loaded(tx) : s \in S /\ tx.old[s] = shifts[s]
      /\ \A e \in Employees : tx.ins[e] = None
  BY ClockIsNat DEF IdleTxn, Loaded
<1> HIDE DEF tx
<1>3. TxOK(tx)
  BY <1>2 DEF TxOK
<1> QED
  BY <1>1, <1>3, TxnStepHistory

LEMMA RequestHistory ==
    ASSUME TypeInv, HistoryInv, NEW w \in ApiWorkers, LoadRequest(w)
    PROVE  HistoryInv'
<1>1. PICK r \in Requests : Load(w, r.op, r.key, {r.shift})
  BY DEF LoadRequest
<1>2. {r.shift} \in SUBSET ShiftIds /\ r.op # "mark_missed"
  BY RequestsAssumption DEF RequestOps
<1> QED
  BY <1>1, <1>2, LoadHistory DEF Workers

LEMMA JobHistory ==
    ASSUME TypeInv, OneActiveShift, HistoryInv, NEW w \in JobWorkers, NEW op \in JobOps,
           LoadJob(w, op)
    PROVE  HistoryInv'
<1> DEFINE S == DueShifts(op)
<1>1. Load(w, op, None, S) /\ S \in SUBSET ShiftIds
  BY DEF LoadJob, DueShifts
<1>2. \A s \in S : /\ Exists(s) /\ Due(op, shifts[s])
                   /\ RowOK(s)
  BY DEF DueShifts, HistoryInv, HistoryOK
<1>3. \A s \in S : ActiveIn(shifts, s)
  <2> SUFFICES ASSUME NEW s \in S PROVE ActiveIn(shifts, s)
    OBVIOUS
  <2>1. Exists(s) /\ Due(op, shifts[s]) /\ RowOK(s)
    BY <1>2
  <2>2. shifts[s].state \in WAITING \cup RUNNING
    BY <2>1 DEF Due, JobOps, WAITING
  <2> QED
    BY <2>1, <2>2 DEF ActiveIn, Exists, RowOK, WAITING, RUNNING, ACTIVE_STATES
<1>4. \A s, u \in S : s[1] = u[1] => s = u
  BY <1>1, <1>3 DEF OneActiveShift, ActiveIndexOK
<1>5. op = "mark_missed" => \A s \in S : shifts[s].scheduled_start # None
  BY <1>2 DEF Due
<1> HIDE DEF S
<1> QED
  BY <1>1, <1>4, <1>5, LoadHistory DEF Workers

LEMMA InsertHistory ==
    ASSUME TypeInv, HistoryInv, NEW w \in Workers, NEW op \in {"create", "ensure"},
           NEW ins, Insert(w, op, ins),
           \A e \in Employees : ins[e] # None =>
              \E d \in Days, p \in Policies : ins[e] = NewRow(Schedule[<<e, d>>], p)
    PROVE  HistoryInv'
<1> DEFINE tx == [IdleTxn EXCEPT !.pc = "ready", !.op = op, !.at = clock,
                                 !.ins = ins]
<1>1. txn' = [txn EXCEPT ![w] = tx] /\ UNCHANGED <<clock, tables>>
  BY DEF Insert
<1>2. Loaded(tx) = {} /\ tx.ins = ins /\ tx.at = clock /\ tx.op # "mark_missed"
  BY DEF Loaded, IdleTxn, NoRows
<1>3. Touched(tx) = {}
  BY <1>2 DEF Touched
<1> HIDE DEF tx
<1>4. ASSUME NEW e \in Employees, ins[e] # None
      PROVE  ins[e].actual_start = None /\ ins[e].scheduled_start \in 0..MaxTime \cup {None}
  <2>1. PICK d \in Days, p \in Policies : ins[e] = NewRow(Schedule[<<e, d>>], p)
    BY <1>4
  <2>2. Schedule[<<e, d>>] \in [start: 0..MaxTime, end: Nat] \cup {None}
    BY ScheduleAssumption
  <2> QED
    BY <2>1, <2>2 DEF NewRow
<1>5. TxOK(tx)
  BY <1>2, <1>3, <1>4, ClockIsNat DEF TxOK
<1> QED
  BY <1>1, <1>5, TxnStepHistory

LEMMA ReplayHistory ==
    ASSUME TypeInv, HistoryInv, NEW w \in Workers, Replay(w)
    PROVE  HistoryInv'
<1> DEFINE tx == [txn[w] EXCEPT !.pc = "ready", !.new = txn[w].old, !.at = clock]
<1>1. txn' = [txn EXCEPT ![w] = tx] /\ UNCHANGED <<clock, tables>>
  BY DEF Replay, TypeInv, TypeOK, Txn
<1>2. /\ tx.old = txn[w].old /\ tx.ins = txn[w].ins /\ tx.new = txn[w].old
      /\ tx.op = txn[w].op /\ tx.at = clock
  BY DEF TypeInv, TypeOK, Txn
<1> HIDE DEF tx
<1>3. Touched(tx) = {} /\ Loaded(tx) = Loaded(txn[w])
  BY <1>2 DEF Touched, Loaded
<1>4. TxOK(txn[w])
  BY DEF HistoryInv
<1>5. TxOK(tx)
  BY <1>2, <1>3, <1>4, ClockIsNat DEF TxOK
<1> QED
  BY <1>1, <1>5, TxnStepHistory

LEMMA DecideHistory ==
    ASSUME TypeInv, HistoryInv, NEW w \in Workers, Decide(w)
    PROVE  HistoryInv'
<1> DEFINE new == [s \in ShiftIds |->
                     IF s \in Loaded(txn[w])
                     THEN After(OpOn(txn[w], s), txn[w].old[s], clock) ELSE None]
           tx(close) == [txn[w] EXCEPT !.pc = "ready", !.at = clock,
                                       !.close = close, !.new = new]
<1>1. PICK close \in [ShiftIds -> UNION {BreakFound(txn[w], s) : s \in ShiftIds}] :
         /\ \A s \in ShiftIds : close[s] \in BreakFound(txn[w], s)
         /\ txn' = [txn EXCEPT ![w] = tx(close)]
  BY DEF Decide
<1>2. UNCHANGED <<clock, tables>>
  BY DEF Decide
<1>3. /\ tx(close).old = txn[w].old /\ tx(close).ins = txn[w].ins
      /\ tx(close).op = txn[w].op /\ tx(close).at = clock
      /\ tx(close).close = close
  <2> HIDE DEF new
  <2> QED
    BY DEF TypeInv, TypeOK, Txn
<1> HIDE DEF tx, new
<1>4. Loaded(tx(close)) = Loaded(txn[w])
  BY <1>3 DEF Loaded
<1>5. \A s \in Touched(tx(close)) :
         NoEventAfter(s, clock) /\ close[s] \in BreakFound(tx(close), s)
  <2>1. Touched(tx(close)) \subseteq ShiftIds
    BY DEF Touched, Loaded
  <2>2. \A s \in ShiftIds : BreakFound(tx(close), s) = BreakFound(txn[w], s)
    BY <1>3, <1>4 DEF BreakFound
  <2> QED
    BY <1>1, <2>1, <2>2 DEF HistoryInv, HistoryOK
<1>6. TxOK(txn[w])
  BY DEF HistoryInv
<1>7. TxOK(tx(close))
  BY <1>3, <1>4, <1>5, <1>6, ClockIsNat DEF TxOK
<1> QED
  BY <1>1, <1>2, <1>7, TxnStepHistory

-----------------------------------------------------------------------------
(* Commits *)

\* LogExplainsState and OpenBreakIffOnBreak of one shift.
Explained(s) ==
    /\ \A i \in DOMAIN log[s] :
          /\ StateAfter(s, i - 1) \in Sources(log[s][i].type)
          /\ i > 1 => log[s][i - 1].at =< log[s][i].at
    /\ IF shifts[s].state \in {"MISSED", "CANCELLED"}
       THEN log[s] = <<>> /\ shifts[s].version = 1
       ELSE /\ shifts[s].state = StateAfter(s, Len(log[s]))
            /\ shifts[s].version = Count(EventTypes \ {"BREAK_END"}, log[s])

BreakOK(s) ==
    Cardinality(OpenBreaks(breaks[s])) =
        IF Exists(s) /\ shifts[s].state = "ON_BREAK" THEN 1 ELSE 0

LEMMA CountMain ==
    ASSUME NEW l, l \in Seq(Event)
    PROVE  Cardinality({i \in DOMAIN l : l[i].type # "BREAK_END"})
             = Count(EventTypes \ {"BREAK_END"}, l)
<1>1. DOMAIN l = 1..Len(l)
  BY LenProperties
<1>2. \A i \in DOMAIN l : l[i] \in Event
  BY <1>1, ElementOfSeq
<1>3. \A i \in DOMAIN l : l[i].type \in EventTypes
  BY <1>2 DEF Event
<1> QED
  BY <1>3 DEF Count

LEMMA HistoryOfShifts ==
    ASSUME TypeInv
    PROVE  HistoryOK <=> \A s \in ShiftIds : /\ Exists(s) => RowOK(s) /\ Explained(s)
                                             /\ NoEventAfter(s, clock) /\ BreakOK(s)
<1>1. \A s \in ShiftIds : Cardinality({i \in DOMAIN log[s] : log[s][i].type # "BREAK_END"})
                            = Count(EventTypes \ {"BREAK_END"}, log[s])
  BY CountMain DEF TypeInv, TypeOK
<1> QED
  BY <1>1 DEF HistoryOK, Explained, BreakOK, LogExplainsState, OpenBreakIffOnBreak

LEMMA AfterFields ==
    ASSUME NEW op, NEW row, NEW t, row \in Row
    PROVE  /\ After(op, row, t).state = Target(op)
           /\ After(op, row, t).version = row.version + 1
           /\ After(op, row, t).scheduled_start = row.scheduled_start
           /\ After(op, row, t).actual_start = IF op \in Starts THEN t ELSE row.actual_start
           /\ After(op, row, t).actual_end = IF op \in Ends THEN t ELSE row.actual_end
BY DEF After, Row

\* A flush over the row that was read leaves the object as it was decided.
LEMMA FlushDecided ==
    ASSUME NEW op, NEW row, NEW t, row \in Row, op \in Ops, t \in Nat
    PROVE  Flush(row, row, After(op, row, t)) = After(op, row, t)
<1> DEFINE new == After(op, row, t)
<1>1. new = [row EXCEPT !.state = new.state, !.version = new.version,
                        !.actual_start = new.actual_start, !.actual_end = new.actual_end]
  BY DEF After, Row
<1> HIDE DEF new
<1>2. Flush(row, row, new) =
        [row EXCEPT !.state = new.state, !.version = new.version,
                    !.actual_start = new.actual_start, !.actual_end = new.actual_end]
  BY DEF Flush, Column, Row
<1> QED
  BY <1>1, <1>2 DEF new

\* The transaction's shift is the one in the table, so that the flush writes
\* the decided row.
LEMMA OperatedRow ==
    ASSUME TypeInv, FreshInv, NEW w \in Workers, NEW s \in ShiftIds,
           Operated(txn[w], s)
    PROVE  LET op == AppliedOp(txn[w], s) IN
           /\ txn[w].old[s] = shifts[s] /\ shifts[s] \in Row /\ Exists(s)
           /\ op \in Ops /\ shifts[s].state \in From(op) /\ txn[w].at \in Nat
           /\ shifts'[s] \in Row
           /\ shifts'[s].state = Target(op)
           /\ shifts'[s].version = shifts[s].version + 1
           /\ shifts'[s].scheduled_start = shifts[s].scheduled_start
           /\ shifts'[s].actual_start =
                 IF op \in Starts THEN txn[w].at ELSE shifts[s].actual_start
           /\ shifts'[s].actual_end =
                 IF op \in Ends THEN txn[w].at ELSE shifts[s].actual_end
           /\ s \in Touched(txn[w])
           /\ shifts'[s] = txn[w].new[s]
<1> DEFINE tx == txn[w]
           op == AppliedOp(tx, s)
<1>1. /\ s \in Loaded(tx) /\ op \in Ops /\ tx.old[s].state \in From(op)
      /\ tx.new[s] = After(op, tx.old[s], tx.at)
      /\ shifts'[s] = Flush(shifts[s], tx.old[s], tx.new[s])
      /\ tx.new[s] # tx.old[s] /\ shifts'[s] \in Row
  BY DEF Operated
<1>2. tx.old[s] = shifts[s] /\ tx.old[s] \in Row /\ tx.at \in Nat
  BY <1>1, OpsOfTransaction DEF FreshInv, TypeInv, TypeOK, Txn
<1>3. /\ tx.new[s].state = Target(op) /\ tx.new[s].version = tx.old[s].version + 1
      /\ tx.new[s].scheduled_start = tx.old[s].scheduled_start
      /\ tx.new[s].actual_start = IF op \in Starts THEN tx.at ELSE tx.old[s].actual_start
      /\ tx.new[s].actual_end = IF op \in Ends THEN tx.at ELSE tx.old[s].actual_end
  <2> HIDE DEF op, tx
  <2> QED
    BY <1>1, <1>2, AfterFields
<1>4. shifts'[s] = tx.new[s]
  <2> HIDE DEF op, tx
  <2> QED
    BY <1>1, <1>2, FlushDecided
<1>5. s \in Touched(tx) /\ Exists(s)
  BY <1>1 DEF Touched, Operated
<1> HIDE DEF op, tx
<1> QED
  BY <1>1, <1>2, <1>3, <1>4, <1>5 DEF op, tx

LEMMA OperatedRowOK ==
    ASSUME TypeInv, FreshInv, HistoryInv, NEW w \in Workers, NEW s \in ShiftIds,
           Operated(txn[w], s)
    PROVE  RowOK(s)'
<1> DEFINE tx == txn[w]
           op == AppliedOp(tx, s)
<1>1. /\ tx.old[s] = shifts[s] /\ shifts[s] \in Row /\ Exists(s) /\ op \in Ops
      /\ shifts[s].state \in From(op) /\ tx.at \in Nat
      /\ shifts'[s].state = Target(op)
      /\ shifts'[s].version = shifts[s].version + 1
      /\ shifts'[s].scheduled_start = shifts[s].scheduled_start
      /\ shifts'[s].actual_start = IF op \in Starts THEN tx.at ELSE shifts[s].actual_start
  BY OperatedRow
<1>2. s \in Loaded(tx) /\ tx.op \in RequestOps \cup JobOps
  BY DEF Operated, TypeInv, TxnOK
<1>3. op \in Closings => tx.op = "mark_missed"
  BY <1>2 DEF AppliedOp, RequestOps, JobOps, Closings
<1>4. TxOK(tx) /\ RowOK(s)
  BY <1>1 DEF HistoryInv, HistoryOK
<1>5. clock \in 0..MaxTime /\ tx.at \in 0..MaxTime
  BY <1>1, <1>4, BoundsAssumption DEF TypeInv, TypeOK, TxOK
<1>6. tx.at # None
  BY <1>1, PoliciesAssumption
<1>7. op \in Closings => shifts[s].scheduled_start # None
  BY <1>1, <1>2, <1>3, <1>4 DEF TxOK
<1> HIDE DEF tx, op
<1>8. op \in Starts \/ op \in Closings \/ shifts[s].state \in RUNNING
  BY <1>1 DEF From, Ops, Starts, Closings, Ends, RUNNING
<1>9. Target(op) \notin {"SCHEDULED", "AVAILABLE"}
  BY <1>1 DEF Target, Ops, Starts, Closings, Ends
<1>10. op \in Closings => Target(op) \notin RUNNING
  BY DEF Target, Starts, Closings, RUNNING
<1>11. shifts'[s].version \in Nat \ {0}
  BY <1>1 DEF Row
<1>12. /\ shifts'[s].actual_start \in 0..MaxTime \cup {None}
       /\ op \in Starts => shifts'[s].actual_start # None
       /\ op \notin Starts => shifts'[s].actual_start = shifts[s].actual_start
  BY <1>1, <1>4, <1>5, <1>6 DEF RowOK
<1>13. shifts[s].state \in RUNNING => shifts[s].actual_start # None
  BY <1>4 DEF RowOK
<1>14. Dated(shifts'[s])
  BY <1>1, <1>7, <1>8, <1>12, <1>13 DEF Dated, Starts, Closings
<1>15. shifts'[s].state \in RUNNING => shifts'[s].actual_start # None
  BY <1>1, <1>8, <1>10, <1>12, <1>13
<1>16. shifts'[s].scheduled_start \in 0..MaxTime \cup {None}
  BY <1>1, <1>4 DEF RowOK
<1> QED
  BY <1>1, <1>9, <1>11, <1>12, <1>14, <1>15, <1>16 DEF RowOK

\* The sources of an event are the states its operation starts from.
LEMMA SourcesOfMain ==
    ASSUME NEW op \in Ops \ Closings
    PROVE  Sources(EventType(op)) = From(op)
BY DEF Ops, Starts, Ends, Closings, EventType, Sources, From

LEMMA OutcomeIsRunningOrOver ==
    ASSUME NEW type \in EventTypes
    PROVE  Outcome(type) \in RUNNING \cup {"COMPLETED", "AUTO_COMPLETED", "FORCE_STOPPED"}
BY DEF EventTypes, Outcome, RUNNING

LEMMA OperatedNoEventAfter ==
    ASSUME TypeInv, HistoryInv, NEW w \in Workers, NEW s \in ShiftIds,
           Operated(txn[w], s), clock' = clock
    PROVE  NoEventAfter(s, clock)'
<1> DEFINE tx == txn[w]
           op == AppliedOp(tx, s)
<1>1. /\ op \in Ops /\ log'[s] = Logged(log[s], op, tx.old[s], tx.key, tx.at)
      /\ tx.key \in Keys \cup {None} /\ tx.at \in Nat
      /\ log[s] \in Seq(Event)
  BY DEF Operated, TypeInv, TypeOK, Txn
<1>2. NoEventAfter(s, clock) /\ tx.at =< clock
  BY DEF HistoryInv, HistoryOK, TxOK
<1> HIDE DEF tx, op
<1>3. CASE op \in Closings
  <2>1. log'[s] = log[s]
    BY <1>1, <1>3, LoggedClosing
  <2> QED
    BY <1>2, <2>1 DEF NoEventAfter
<1>4. CASE op \notin Closings
  <2>1. /\ DOMAIN log[s] = 1..Len(log[s]) /\ DOMAIN log'[s] = 1..Len(log'[s])
        /\ Len(log[s]) \in Nat
        /\ ResumesBreak(op, tx.old[s]) => Len(log'[s]) = Len(log[s]) + 2
        /\ ~ ResumesBreak(op, tx.old[s]) => Len(log'[s]) = Len(log[s]) + 1
        /\ \A i \in 1..Len(log[s]) : log'[s][i] = log[s][i]
        /\ ResumesBreak(op, tx.old[s]) =>
              log'[s][Len(log[s]) + 1] = BreakEnd(tx.key, tx.at)
        /\ log'[s][Len(log'[s])] = MainEvent(op, tx.key, tx.at)
    BY <1>1, <1>4, LoggedMain
  <2>2. ASSUME NEW i \in DOMAIN log'[s] PROVE log'[s][i].at =< clock
    <3>1. CASE i \in 1..Len(log[s])
      BY <1>2, <2>1, <3>1 DEF NoEventAfter
    <3>2. CASE i = Len(log'[s])
      BY <1>2, <2>1, <3>2 DEF MainEvent
    <3>3. CASE i = Len(log[s]) + 1 /\ i # Len(log'[s])
      BY <1>2, <2>1, <3>3 DEF BreakEnd
    <3> QED
      BY <2>1, <3>1, <3>2, <3>3
  <2> QED
    BY <2>2 DEF NoEventAfter
<1> QED
  BY <1>3, <1>4

LEMMA OperatedExplained ==
    ASSUME TypeInv, FreshInv, HistoryInv, NEW w \in Workers, NEW s \in ShiftIds,
           txn[w].pc = "ready", Operated(txn[w], s)
    PROVE  Explained(s)'
<1> DEFINE tx == txn[w]
           op == AppliedOp(tx, s)
           T == EventTypes \ {"BREAK_END"}
<1>1. /\ op \in Ops /\ log'[s] = Logged(log[s], op, tx.old[s], tx.key, tx.at)
      /\ tx.key \in Keys \cup {None} /\ tx.at \in Nat
      /\ log[s] \in Seq(Event)
  BY DEF Operated, TypeInv, TypeOK, Txn
<1>2. /\ tx.old[s] = shifts[s] /\ Exists(s) /\ shifts[s] \in Row
      /\ shifts[s].state \in From(op) /\ s \in Touched(tx)
      /\ shifts'[s].state = Target(op)
      /\ shifts'[s].version = shifts[s].version + 1
  BY OperatedRow
<1>3. /\ Explained(s) /\ RowOK(s)
      /\ NoEventAfter(s, tx.at)
  BY <1>2, HistoryOfShifts DEF HistoryInv, TxOK
<1> HIDE DEF tx, op
<1>4. shifts[s].state \notin {"MISSED", "CANCELLED"}
  BY <1>1, <1>2 DEF From, Ops, Starts, Closings, Ends, WAITING, RUNNING
<1>5. /\ shifts[s].state = StateAfter(s, Len(log[s]))
      /\ shifts[s].version = Count(T, log[s])
  BY <1>3, <1>4 DEF Explained
<1>6. CASE op \in Closings
  <2>1. log'[s] = log[s]
    BY <1>1, <1>6, LoggedClosing
  <2>2. shifts[s].state \in WAITING /\ Target(op) \in {"MISSED", "CANCELLED"}
    <3>1. From(op) = WAITING
      BY <1>6 DEF From, Starts, Closings, Ends
    <3>2. Target(op) \in {"MISSED", "CANCELLED"}
      BY <1>6 DEF Target, Closings, Starts
    <3> QED
      BY <1>2, <3>1, <3>2
  <2>3. shifts[s].state = "AVAILABLE" /\ shifts[s].version = 0 /\ log[s] = <<>>
    BY <1>3, <2>2 DEF RowOK, WAITING
  <2> QED
    BY <1>2, <2>1, <2>2, <2>3 DEF Explained
<1>7. CASE op \notin Closings
  <2> DEFINE n == Len(log[s])
             m == Len(log'[s])
  <2>1. /\ DOMAIN log[s] = 1..n /\ DOMAIN log'[s] = 1..m /\ n \in Nat
        /\ ResumesBreak(op, shifts[s]) => m = n + 2
        /\ ~ ResumesBreak(op, shifts[s]) => m = n + 1
        /\ \A i \in 1..n : log'[s][i] = log[s][i]
        /\ ResumesBreak(op, shifts[s]) => log'[s][n + 1] = BreakEnd(tx.key, tx.at)
        /\ log'[s][m] = MainEvent(op, tx.key, tx.at)
        /\ CountedOnce(T, op, log[s], log'[s])
    BY <1>1, <1>2, <1>7, LoggedMain
  <2>2. EventType(op) \in T
    BY <1>1, <1>7 DEF Ops, Starts, Ends, Closings, EventType, EventTypes
  <2>3. shifts'[s].version = Count(T, log'[s])
    <3>1. Count(T, log'[s]) = Count(T, log[s]) + 1
      BY <2>1, <2>2 DEF CountedOnce
    <3> QED
      BY <1>2, <1>5, <3>1
  <2> HIDE DEF T, n, m
  <2>4. /\ log'[s][m].type = EventType(op) /\ log'[s][m].at = tx.at
        /\ ResumesBreak(op, shifts[s]) =>
              log'[s][n + 1].type = "BREAK_END" /\ log'[s][n + 1].at = tx.at
    BY <2>1 DEF MainEvent, BreakEnd
  <2>5. Target(op) = Outcome(EventType(op)) /\ Sources(EventType(op)) = From(op)
    BY <1>1, <1>7, OutcomeOfMain, SourcesOfMain
  <2>6. StateAfter(s, Len(log[s]))' = Target(op)
    BY <2>1, <2>4, <2>5 DEF StateAfter, m
  <2>7. Target(op) \notin {"MISSED", "CANCELLED"}
    BY <1>1, <1>7 DEF Target, Ops, Starts, Ends, Closings
  <2>8. \A i \in 0..n : StateAfter(s, i)' = StateAfter(s, i)
    BY <2>1 DEF StateAfter
  <2>9. StateAfter(s, n) = shifts[s].state
    BY <1>5 DEF n
  <2>10. ASSUME NEW i \in 1..m
         PROVE  /\ StateAfter(s, i - 1)' \in Sources(log'[s][i].type)
                /\ i > 1 => log'[s][i - 1].at =< log'[s][i].at
    <3>1. CASE i \in 1..n
      <4>1. /\ StateAfter(s, i - 1) \in Sources(log[s][i].type)
            /\ i > 1 => log[s][i - 1].at =< log[s][i].at
        BY <1>3, <2>1, <3>1 DEF Explained
      <4>2. i - 1 \in 0..n /\ (i > 1 => i - 1 \in 1..n)
        BY <2>1, <3>1
      <4> QED
        BY <2>1, <2>8, <3>1, <4>1, <4>2
    <3>2. CASE i = n + 1 /\ i = m
      <4>1. StateAfter(s, i - 1)' = shifts[s].state
        BY <2>1, <2>8, <2>9, <3>2
      <4>2. i > 1 => log'[s][i - 1].at =< tx.at
        BY <1>3, <2>1, <3>2 DEF NoEventAfter
      <4> QED
        BY <1>2, <2>4, <2>5, <3>2, <4>1, <4>2
    <3>3. CASE i = n + 1 /\ i # m
      <4>1. StateAfter(s, i - 1)' = shifts[s].state
        BY <2>1, <2>8, <2>9, <3>3
      <4>2. i > 1 => log'[s][i - 1].at =< tx.at
        BY <1>3, <2>1, <3>3 DEF NoEventAfter
      <4>3. ResumesBreak(op, shifts[s])
        BY <2>1, <3>3
      <4>4. shifts[s].state = "ON_BREAK" /\ Sources("BREAK_END") = {"ON_BREAK"}
        BY <4>3 DEF ResumesBreak, Sources
      <4> QED
        BY <2>4, <3>3, <4>1, <4>2, <4>3, <4>4
    <3>4. CASE i = n + 2
      <4>1. ResumesBreak(op, shifts[s]) /\ i = m /\ i - 1 = n + 1 /\ i # 1
        BY <2>1, <3>4
      <4>2. StateAfter(s, i - 1)' = "ON_BREAK"
        BY <2>1, <2>4, <4>1 DEF StateAfter, Outcome
      <4>3. "ON_BREAK" \in Sources(EventType(op))
        BY <4>1 DEF ResumesBreak, EventType, Sources
      <4>4. log'[s][i - 1].at = tx.at /\ log'[s][i].at = tx.at
        BY <2>4, <4>1
      <4> QED
        BY <1>1, <2>4, <4>1, <4>2, <4>3, <4>4
    <3> QED
      BY <2>1, <3>1, <3>2, <3>3, <3>4
  <2> QED
    BY <1>2, <2>1, <2>3, <2>6, <2>7, <2>10 DEF Explained, T
<1> QED
  BY <1>6, <1>7

LEMMA CountOpen ==
    ASSUME NEW brks, brks \in Seq(Break)
    PROVE  /\ Cardinality(OpenBreaks(brks)) = 0 <=> OpenBreaks(brks) = {}
           /\ Cardinality(OpenBreaks(brks)) = 1 <=> \E i : OpenBreaks(brks) = {i}
<1>1. DOMAIN brks = 1..Len(brks) /\ Len(brks) \in Nat
  BY LenProperties
<1>2. IsFiniteSet(OpenBreaks(brks))
  <2>1. IsFiniteSet(1..Len(brks)) /\ OpenBreaks(brks) \in SUBSET (1..Len(brks))
    BY <1>1, FS_Interval DEF OpenBreaks
  <2> QED
    BY <2>1, FS_Subset
<1> HIDE DEF OpenBreaks
<1> QED
  BY <1>2, FS_EmptySet, FS_Singleton

\* The breaks that are over.
Over(brks) == DOMAIN brks \ OpenBreaks(brks)

\* What an operation at time t does to the breaks b of a shift in a state: a
\* break is opened where none is open, and the break that a resume or an end
\* finds is the one that is open.
BreaksStep(op, state, b, c, t) ==
    /\ op = "break" =>
          /\ state # "ON_BREAK" /\ OpenBreaks(b) = {} /\ OpenBreaks(c) = {Len(b) + 1}
          /\ Over(c) = Over(b) /\ \A j \in Over(b) : c[j] = b[j]
          /\ c[Len(b) + 1].started_at = t
    /\ state = "ON_BREAK" =>
          \E i : /\ OpenBreaks(b) = {i} /\ OpenBreaks(c) = {}
                 /\ Over(c) = Over(b) \cup {i} /\ \A j \in Over(b) : c[j] = b[j]
                 /\ c[i].started_at = b[i].started_at /\ c[i].ended_at = t
    /\ op # "break" /\ state # "ON_BREAK" => OpenBreaks(b) = {} /\ c = b

LEMMA OperatedBreaks ==
    ASSUME TypeInv, FreshInv, HistoryInv, NEW w \in Workers, NEW s \in ShiftIds,
           txn[w].pc = "ready", Operated(txn[w], s)
    PROVE  /\ breaks[s] \in Seq(Break) /\ breaks'[s] \in Seq(Break)
           /\ BreaksStep(AppliedOp(txn[w], s), shifts[s].state, breaks[s], breaks'[s], txn[w].at)
<1> DEFINE tx == txn[w]
           op == AppliedOp(tx, s)
           B == breaks[s]
           i == tx.close[s]
<1>1. /\ op \in Ops /\ tx.at \in Nat /\ s \in Loaded(tx)
      /\ breaks'[s] = BreaksAfter(op, tx.old[s], B, i, tx.at)
      /\ B \in Seq(Break) /\ i \in Nat
  BY DEF Operated, TypeInv, TypeOK, Txn
<1>2. /\ tx.old[s] = shifts[s] /\ Exists(s)
      /\ shifts[s].state \in From(op) /\ s \in Touched(tx)
  BY OperatedRow
<1>3. BreakOK(s) /\ i \in BreakFound(tx, s)
  BY <1>2, HistoryOfShifts DEF HistoryInv, TxOK
<1>4. tx.op = op \/ (tx.op = "mark_missed" /\ op \in Closings)
  BY DEF AppliedOp, Closings
<1>5. breaks'[s] \in Seq(Break)
  <2>1. tx.old[s] \in Row
    BY OperatedRow
  <2> HIDE DEF tx, op, B, i
  <2> QED
    BY <1>1, <2>1, BreaksType
<1>6. DOMAIN B = 1..Len(B) /\ Len(B) \in Nat /\ tx.at # None
  BY <1>1, LenProperties, PoliciesAssumption
<1> HIDE DEF tx, op, B, i
<1>8. Cardinality(OpenBreaks(B)) = IF shifts[s].state = "ON_BREAK" THEN 1 ELSE 0
  BY <1>2, <1>3 DEF BreakOK, B
<1>9. CASE op = "break"
  <2> DEFINE b == [started_at |-> tx.at, ended_at |-> None,
                   max |-> tx.old[s].policy.max_break, exceeded |-> FALSE]
  <2>1. shifts[s].state = "WORKING"
    BY <1>2, <1>9 DEF From, Starts, Closings, Ends
  <2>2. OpenBreaks(B) = {}
    BY <1>1, <1>8, <2>1, CountOpen
  <2>3. breaks'[s] = Append(B, b) /\ b.ended_at = None /\ b.started_at = tx.at
    BY <1>1, <1>9 DEF BreaksAfter
  <2> HIDE DEF b
  <2>4. /\ DOMAIN breaks'[s] = 1..(Len(B) + 1)
        /\ \A j \in 1..Len(B) : breaks'[s][j] = B[j]
        /\ breaks'[s][Len(B) + 1] = b
    BY <1>1, <2>3, LenProperties
  <2>5. OpenBreaks(breaks'[s]) = {Len(B) + 1}
    BY <1>6, <2>2, <2>3, <2>4 DEF OpenBreaks
  <2>6. Over(B) = 1..Len(B) /\ Over(breaks'[s]) = 1..Len(B)
    BY <1>6, <2>2, <2>4, <2>5 DEF Over
  <2> QED
    BY <1>1, <1>5, <1>9, <2>1, <2>2, <2>3, <2>4, <2>5, <2>6 DEF BreaksStep, tx, op, B
<1>10. CASE shifts[s].state = "ON_BREAK"
  <2>1. op = "resume" \/ op \in Ends
    BY <1>1, <1>2, <1>10 DEF From, Ops, Starts, Ends, Closings, WAITING
  <2>2. ClosesBreak(tx.op, tx.old[s]) /\ op # "break"
    BY <1>2, <1>4, <1>10, <2>1 DEF ClosesBreak, Ends, Closings
  <2>3. PICK j : OpenBreaks(B) = {j}
    BY <1>1, <1>8, <1>10, CountOpen
  <2>4. i = j
    BY <1>1, <1>3, <2>2, <2>3 DEF BreakFound, B
  <2>5. i \in DOMAIN B
    BY <2>3, <2>4 DEF OpenBreaks
  <2>6. breaks'[s] = [B EXCEPT ![i] = Closed(op, B[i], tx.at)]
    BY <1>1, <2>2, <2>5 DEF BreaksAfter
  <2>7. /\ Closed(op, B[i], tx.at).ended_at = tx.at
        /\ Closed(op, B[i], tx.at).started_at = B[i].started_at
    BY <1>1, <2>5 DEF Closed, Break
  <2>8. /\ DOMAIN breaks'[s] = DOMAIN B
        /\ \A n \in DOMAIN B \ {i} : breaks'[s][n] = B[n]
        /\ breaks'[s][i].ended_at = tx.at /\ breaks'[s][i].started_at = B[i].started_at
    <3> HIDE DEF Closed
    <3> QED
      BY <1>1, <1>6, <2>5, <2>6, <2>7
  <2>9. OpenBreaks(breaks'[s]) = {}
    BY <1>6, <2>3, <2>4, <2>8 DEF OpenBreaks
  <2>10. OpenBreaks(B) = {i}
    BY <2>3, <2>4
  <2>11. Over(breaks'[s]) = Over(B) \cup {i} /\ \A n \in Over(B) : breaks'[s][n] = B[n]
    BY <2>5, <2>8, <2>9, <2>10 DEF Over
  <2>12. BreaksStep(op, shifts[s].state, B, breaks'[s], tx.at)
    BY <1>10, <2>2, <2>8, <2>9, <2>10, <2>11 DEF BreaksStep
  <2> QED
    BY <1>1, <1>5, <2>12 DEF tx, op, B
<1>11. CASE op # "break" /\ shifts[s].state # "ON_BREAK"
  <2>1. OpenBreaks(B) = {}
    BY <1>1, <1>8, <1>11, CountOpen
  <2>2. i = 0
    BY <1>3, <2>1 DEF BreakFound, B
  <2>3. breaks'[s] = B
    BY <1>1, <1>6, <1>11, <2>2 DEF BreaksAfter
  <2> QED
    BY <1>1, <1>5, <1>11, <2>1, <2>3 DEF BreaksStep, tx, op, B
<1> QED
  BY <1>9, <1>10, <1>11

LEMMA OperatedBreakOK ==
    ASSUME TypeInv, FreshInv, HistoryInv, NEW w \in Workers, NEW s \in ShiftIds,
           txn[w].pc = "ready", Operated(txn[w], s)
    PROVE  BreakOK(s)'
<1> DEFINE op == AppliedOp(txn[w], s)
           c == breaks'[s]
<1>1. /\ op \in Ops /\ shifts[s].state \in From(op)
      /\ shifts'[s] \in Row /\ shifts'[s].state = Target(op)
  BY OperatedRow
<1>2. c \in Seq(Break) /\ BreaksStep(op, shifts[s].state, breaks[s], c, txn[w].at)
  BY OperatedBreaks
<1> HIDE DEF op
<1>3. BreakOK(s)' <=> Cardinality(OpenBreaks(c)) = IF Target(op) = "ON_BREAK" THEN 1 ELSE 0
  BY <1>1, NoRowAssumption DEF BreakOK, Exists
<1>4. Target(op) = "ON_BREAK" <=> op = "break"
  BY <1>1 DEF Target, Ops, Starts, Ends, Closings
<1>5. IF op = "break" THEN \E i : OpenBreaks(c) = {i} ELSE OpenBreaks(c) = {}
  BY <1>2 DEF BreaksStep
<1> HIDE DEF c
<1> QED
  BY <1>2, <1>3, <1>4, <1>5, CountOpen

\* A commit leaves the events and breaks of what others have read as they are.
LEMMA ReadIsKept ==
    ASSUME Separate, TypeInv, DecidedInv, FreshInv, NEW w \in Workers, Commit(w),
           NEW v \in Workers, v # w, NEW s \in Loaded(txn[v])
    PROVE  log'[s] = log[s] /\ breaks'[s] = breaks[s]
<1>1. s \in ShiftIds /\ s \notin Loaded(txn[w])
  BY UnreadIsKept DEF Loaded
<1>2. Created(txn[w], s) \/ Kept(txn[w], s)
  BY <1>1, CommitOnShift DEF DecidedInv, Operated
<1> QED
  BY <1>2 DEF Created, Kept

LEMMA CommitHistory ==
    ASSUME Separate, Base, HistoryInv, NEW w \in Workers, Commit(w)
    PROVE  HistoryInv'
<1> DEFINE tx == txn[w]
<1>1. TypeInv /\ DecidedInv /\ FreshInv /\ TypeInv'
  BY StepType DEF Base, Next, Step
<1>2. /\ tx.pc = "ready" /\ clock' = clock
      /\ \A v \in Workers : txn'[v] = IF v = w THEN IdleTxn ELSE txn[v]
  BY <1>1 DEF Commit, Deny, TypeInv, TypeOK
<1>3. ASSUME NEW s \in ShiftIds
      PROVE  /\ Exists(s)' => RowOK(s)' /\ Explained(s)'
             /\ NoEventAfter(s, clock)' /\ BreakOK(s)'
  <2>1. Created(tx, s) \/ Operated(tx, s) \/ Kept(tx, s)
    BY <1>1, CommitOnShift DEF DecidedInv
  <2>2. /\ Exists(s) => RowOK(s) /\ Explained(s)
        /\ NoEventAfter(s, clock) /\ BreakOK(s)
    BY <1>1, HistoryOfShifts DEF HistoryInv
  <2>3. CASE Created(tx, s)
    <3>1. /\ shifts'[s] = tx.ins[s[1]] /\ s[1] \in Employees /\ tx.ins[s[1]] # None
          /\ log'[s] = <<>> /\ log[s] = <<>> /\ breaks'[s] = breaks[s] /\ ~ Exists(s)
      BY <1>1, <2>3 DEF Created, DecidedInv, NothingBeforeCreation, ShiftIds
    <3>2. /\ shifts'[s].state = "AVAILABLE" /\ shifts'[s].version = 0
          /\ shifts'[s].actual_start = None
          /\ shifts'[s].scheduled_start \in 0..MaxTime \cup {None}
      BY <1>1, <3>1 DEF DecidedInv, TxnDecided, HistoryInv, TxOK
    <3>3. RowOK(s)'
      BY <3>1, <3>2 DEF RowOK, RUNNING
    <3>4. Count(EventTypes \ {"BREAK_END"}, log'[s]) = 0
      <4>1. {n \in DOMAIN <<>> : <<>>[n].type \in EventTypes \ {"BREAK_END"}} = {}
        OBVIOUS
      <4> QED
        BY <3>1, <4>1, FS_EmptySet DEF Count
    <3>5. Explained(s)'
      BY <3>1, <3>2, <3>4 DEF Explained, StateAfter
    <3>6. NoEventAfter(s, clock)'
      BY <3>1 DEF NoEventAfter
    <3>7. BreakOK(s)'
      BY <2>2, <3>1, <3>2 DEF BreakOK
    <3> QED
      BY <3>3, <3>5, <3>6, <3>7
  <2>4. CASE Operated(tx, s)
    BY <1>1, <1>2, <2>4, OperatedRowOK, OperatedExplained, OperatedNoEventAfter,
       OperatedBreakOK
  <2>5. CASE Kept(tx, s)
    BY <1>2, <2>2, <2>5
    DEF Kept, Exists, RowOK, Explained, StateAfter, NoEventAfter, BreakOK
  <2> QED
    BY <2>1, <2>3, <2>4, <2>5
<1>4. HistoryOK'
  <2>1. \A s \in ShiftIds :
           Cardinality({i \in DOMAIN log'[s] : log'[s][i].type # "BREAK_END"})
             = Count(EventTypes \ {"BREAK_END"}, log'[s])
    BY <1>1, CountMain DEF TypeInv, TypeOK
  <2> QED
    BY <1>3, <2>1
    DEF HistoryOK, Explained, BreakOK, LogExplainsState, OpenBreakIffOnBreak
<1>5. \A v \in Workers : TxOK(txn[v])'
  <2>1. Loaded(IdleTxn) = {} /\ TxOK(IdleTxn)
    BY <1>1, IdleOK, IdleHoldsNothing
  <2>2. IdleTxn.pc # "ready"
    BY DEF IdleTxn
  <2> HIDE DEF IdleTxn
  <2>3. Loaded(IdleTxn)' = {}
    BY <2>1 DEF Loaded
  <2>4. TxOK(txn[w])'
    BY <1>2, <2>1, <2>2, <2>3 DEF TxOK
  <2>5. ASSUME NEW v \in Workers, v # w PROVE TxOK(txn[v])'
    <3>1. txn'[v] = txn[v] /\ TxOK(txn[v])
      BY <1>2, <2>5 DEF HistoryInv
    <3>2. \A s \in Loaded(txn[v]) : log'[s] = log[s] /\ breaks'[s] = breaks[s]
      BY <1>1, <2>5, ReadIsKept
    <3>3. \A s \in Loaded(txn[v]) : NoEventAfter(s, txn[v].at) => NoEventAfter(s, txn[v].at)'
      BY <3>1, <3>2 DEF NoEventAfter
    <3>4. \A s \in Loaded(txn[v]) : BreakFound(txn[v], s)' = BreakFound(txn[v], s)
      BY <3>1, <3>2 DEF BreakFound, Loaded
    <3>5. Loaded(txn[v])' = Loaded(txn[v]) /\ Touched(txn[v])' = Touched(txn[v])
      BY <3>1 DEF Loaded, Touched
    <3>6. Touched(txn[v]) \subseteq Loaded(txn[v])
      BY DEF Touched
    <3> QED
      BY <1>2, <3>1, <3>3, <3>4, <3>5, <3>6 DEF TxOK
  <2> QED
    BY <2>4, <2>5
<1> QED
  BY <1>4, <1>5 DEF HistoryInv

LEMMA StepHistory ==
    ASSUME Separate, Base, HistoryInv, [Next]_vars
    PROVE  HistoryInv'
<1>0. TypeInv /\ OneActiveShift /\ clock \in Nat
  BY ClockIsNat DEF Base
<1>1. CASE Tick
  BY <1>0, <1>1, QuietStepHistory DEF Tick
<1>2. ASSUME NEW l \in LeaveRequests, DecideLeave(l) PROVE HistoryInv'
  BY <1>0, <1>2, QuietStepHistory DEF DecideLeave
<1>3. ASSUME NEW w \in ApiWorkers, LoadRequest(w) PROVE HistoryInv'
  BY <1>0, <1>3, RequestHistory
<1>4. ASSUME NEW w \in ApiWorkers, LoadCreate(w) PROVE HistoryInv'
  <2>1. PICK ins : /\ Insert(w, "create", ins)
                   /\ \A e \in Employees : ins[e] # None =>
                         \E d \in ManualDays, p \in Policies :
                            ins[e] = NewRow(Schedule[<<e, d>>], p)
    BY <1>4, CreateInserts
  <2>2. \A e \in Employees : ins[e] # None =>
           \E d \in Days, p \in Policies : ins[e] = NewRow(Schedule[<<e, d>>], p)
    BY <2>1, BoundsAssumption
  <2> QED
    BY <1>0, <2>1, <2>2, InsertHistory DEF Workers
<1>5. ASSUME NEW w \in JobWorkers, LoadEnsure(w) PROVE HistoryInv'
  <2>1. PICK ins : /\ Insert(w, "ensure", ins)
                   /\ \A e \in Employees : ins[e] # None =>
                         /\ NeedsShift(e, Date(clock))
                         /\ \E p \in Policies :
                               ins[e] = NewRow(Schedule[<<e, Date(clock)>>], p)
    BY <1>5, EnsureInserts
  <2>2. Date(clock) \in Days
    BY <1>0, ClockIsInDays DEF TypeInv, TypeOK
  <2>3. \A e \in Employees : ins[e] # None =>
           \E d \in Days, p \in Policies : ins[e] = NewRow(Schedule[<<e, d>>], p)
    BY <2>1, <2>2
  <2> QED
    BY <1>0, <2>1, <2>3, InsertHistory DEF Workers
<1>6. ASSUME NEW w \in JobWorkers, NEW op \in JobOps, LoadJob(w, op) PROVE HistoryInv'
  BY <1>0, <1>6, JobHistory
<1>7. ASSUME NEW w \in Workers, Decide(w) PROVE HistoryInv'
  BY <1>0, <1>7, DecideHistory
<1>8. ASSUME NEW w \in Workers, Replay(w) PROVE HistoryInv'
  BY <1>0, <1>8, ReplayHistory
<1>9. ASSUME NEW w \in Workers, Reject(w) \/ Rollback(w) \/ Crash(w)
      PROVE  HistoryInv'
  BY <1>0, <1>9, IdleOK, TxnStepHistory DEF Reject, Rollback, Crash, Deny
<1>10. ASSUME NEW w \in Workers, Commit(w) PROVE HistoryInv'
  BY <1>10, CommitHistory
<1>11. CASE UNCHANGED vars
  BY <1>0, <1>11, QuietStepHistory DEF vars, tables
<1> QED
  BY <1>1, <1>2, <1>3, <1>4, <1>5, <1>6, <1>7, <1>8, <1>9, <1>10, <1>11
  DEF Next, Step

LEMMA BaseAlways == Spec /\ []Separate => []Base
<1>1. TypeInv /\ DecidedInv /\ FreshInv /\ OneActiveShift => Base
  BY DEF Base
<1>2. Spec /\ []Separate => []FreshInv
  BY FreshAlways
<1> QED
  BY <1>1, <1>2, TypeInvCorrect, DecidedAlways, OneActiveShiftAlways, PTL

LEMMA InitHistory == Init => HistoryInv
<1> SUFFICES ASSUME Init PROVE HistoryInv
  OBVIOUS
<1>1. TypeInv
  BY InitType
<1>2. \A s \in ShiftIds : ~ Exists(s) /\ log[s] = <<>> /\ breaks[s] = <<>>
  BY DEF Init, NoRows, Exists
<1>3. \A s \in ShiftIds : NoEventAfter(s, clock)
  BY <1>2 DEF NoEventAfter
<1>4. \A s \in ShiftIds : Cardinality(OpenBreaks(breaks[s])) = 0
  <2>1. {i \in DOMAIN <<>> : <<>>[i].ended_at = None} = {}
    OBVIOUS
  <2> QED
    BY <1>2, <2>1, FS_EmptySet DEF OpenBreaks
<1>5. HistoryOK
  BY <1>2, <1>3, <1>4 DEF HistoryOK, LogExplainsState, OpenBreakIffOnBreak
<1>6. \A w \in Workers : txn[w] = IdleTxn
  BY DEF Init
<1> QED
  BY <1>1, <1>5, <1>6, IdleOK DEF HistoryInv

LEMMA HistoryAlways == Spec /\ []Separate => []HistoryInv
<1>1. HistoryInv /\ Base /\ Separate /\ [Next]_vars => HistoryInv'
  BY StepHistory
<1>2. Spec /\ []Separate => []Base
  BY BaseAlways
<1> QED
  BY <1>1, <1>2, InitHistory, PTL DEF Spec

\* While no two transactions work on one shift, the other columns of it can be
\* rebuilt from its events: every event was legal where its predecessors left
\* the shift, times never go back, and the last event and the number of
\* events are the row's state and version, whatever was resent or crashed.
THEOREM LogExplainsStateAlways == Spec /\ []Separate => []LogExplainsState
<1>1. HistoryInv => LogExplainsState
  BY DEF HistoryInv, HistoryOK
<1>2. Spec /\ []Separate => []HistoryInv
  BY HistoryAlways
<1> QED
  BY <1>1, <1>2, PTL

\* While no two transactions work on one shift, one that is on a break has exactly
\* one open break, and no other shift has any: the query without ORDER BY
\* that a resume, an end, a forced stop or the automatic end makes finds it.
THEOREM OpenBreakIffOnBreakAlways == Spec /\ []Separate => []OpenBreakIffOnBreak
<1>1. HistoryInv => OpenBreakIffOnBreak
  BY DEF HistoryInv, HistoryOK
<1>2. Spec /\ []Separate => []HistoryInv
  BY HistoryAlways
<1> QED
  BY <1>1, <1>2, PTL

-----------------------------------------------------------------------------
(* What the rest of the system is told: attendance rows and webhooks.      *)
(*                                                                         *)
(* A transaction finds a key recorded only when the same request has been  *)
(* applied before if clients never use one key for two actions; the tray   *)
(* makes a fresh GUID for each.  A key that named another shift would      *)
(* have its attendance derived without any event, and one that named       *)
(* another operation would announce what has not happened.                 *)

KeysOfOneAction == \A r, q \in Requests : r.key # None /\ r.key = q.key => r = q

\* The UTC day of a row that has a start: WorkDate without the clock.
DayOf(row) == IF row.scheduled_start # None THEN Date(row.scheduled_start)
              ELSE Date(row.actual_start)

\* An attendance row is of its day and its employee and is up to date.
UpToDate(k, a) ==
    /\ Exists(a.shift) /\ a.row = shifts[a.shift] /\ a.breaks = breaks[a.shift]
    /\ a.shift[1] = k[1] /\ Dated(a.row) /\ DayOf(a.row) = k[2]

AttendanceOK ==
    /\ \A k \in Employees \X Days : attendance[k] # None => UpToDate(k, attendance[k])
    /\ \A s \in ShiftIds : Exists(s) /\ shifts[s].version # 0 =>
          attendance[<<s[1], DayOf(shifts[s])>>] # None

NoticeOK(s) ==
    notified[s] # None =>
        /\ Exists(s)
        /\ notified[s].event = "shift.ended" =>
              notified[s].state \in TERMINAL_STATES /\ shifts[s].state = notified[s].state

\* A client's key in the log was written by that client's request.
KeysExplained(s) ==
    \A r \in Requests : r.key # None => \A i \in DOMAIN log[s] :
        log[s][i].key = r.key => r.shift = s /\ log[s][i].type = EventType(r.op)

\* A key comes from a request, and a transaction that changes nothing found
\* its key recorded.
TxKeyOK(tx) ==
    /\ tx.key # None =>
          \E r \in Requests : r.key = tx.key /\ r.op = tx.op /\ Loaded(tx) \subseteq {r.shift}
    /\ tx.pc = "ready" =>
          \A s \in Loaded(tx) : tx.new[s] = tx.old[s] => tx.key \in UsedKeys

ReportsInv ==
    /\ AttendanceOK
    /\ \A s \in ShiftIds : NoticeOK(s) /\ KeysExplained(s)
    /\ \A w \in Workers : TxKeyOK(txn[w])

LEMMA DateInDays == ASSUME NEW t \in 0..MaxTime PROVE Date(t) \in Days
BY BoundsAssumption DEF Date, Days

LEMMA DayOfDated ==
    ASSUME NEW row, Dated(row)
    PROVE  WorkDate(row) = DayOf(row)
BY DEF Dated, WorkDate, DayOf

LEMMA TxnStepReports ==
    ASSUME TypeInv, ReportsInv, NEW w \in Workers, NEW tx, TxKeyOK(tx),
           txn' = [txn EXCEPT ![w] = tx], UNCHANGED tables
    PROVE  ReportsInv'
<1>1. \A v \in Workers : txn'[v] = IF v = w THEN tx ELSE txn[v]
  BY DEF TypeInv, TypeOK
<1>2. \A v \in Workers : TxKeyOK(txn'[v])
  BY <1>1 DEF ReportsInv
<1>3. UsedKeys' = UsedKeys
  BY DEF UsedKeys, tables
<1>4. \A v \in Workers : TxKeyOK(txn[v])'
  BY <1>2, <1>3 DEF TxKeyOK, Loaded
<1>5. AttendanceOK'
  BY DEF ReportsInv, AttendanceOK, UpToDate, Exists, tables
<1>6. \A s \in ShiftIds : NoticeOK(s)' /\ KeysExplained(s)'
  BY DEF ReportsInv, NoticeOK, KeysExplained, Exists, tables
<1> QED
  BY <1>4, <1>5, <1>6 DEF ReportsInv

LEMMA QuietStepReports ==
    ASSUME ReportsInv, UNCHANGED <<tables, txn>>
    PROVE  ReportsInv'
<1>1. UsedKeys' = UsedKeys
  BY DEF UsedKeys, tables
<1>2. \A v \in Workers : TxKeyOK(txn[v])'
  BY <1>1 DEF ReportsInv, TxKeyOK, Loaded
<1>3. AttendanceOK'
  BY DEF ReportsInv, AttendanceOK, UpToDate, Exists, tables
<1>4. \A s \in ShiftIds : NoticeOK(s)' /\ KeysExplained(s)'
  BY DEF ReportsInv, NoticeOK, KeysExplained, Exists, tables
<1> QED
  BY <1>2, <1>3, <1>4 DEF ReportsInv

LEMMA IdleKeyOK == TxKeyOK(IdleTxn)
BY IdleHoldsNothing DEF TxKeyOK, IdleTxn

LEMMA RequestReports ==
    ASSUME TypeInv, ReportsInv, NEW w \in ApiWorkers, LoadRequest(w)
    PROVE  ReportsInv'
<1>1. PICK r \in Requests : Load(w, r.op, r.key, {r.shift})
  BY DEF LoadRequest
<1> DEFINE tx == [IdleTxn EXCEPT !.pc = "loaded", !.op = r.op, !.key = r.key,
                                 !.old = [s \in ShiftIds |->
                                            IF s \in {r.shift} THEN shifts[s] ELSE None]]
<1>2. txn' = [txn EXCEPT ![w] = tx] /\ UNCHANGED tables
  BY <1>1 DEF Load
<1>3. /\ tx.pc = "loaded" /\ tx.op = r.op /\ tx.key = r.key
      /\ Loaded(tx) \subseteq {r.shift}
  BY DEF IdleTxn, Loaded
<1> HIDE DEF tx
<1>4. TxKeyOK(tx)
  BY <1>3 DEF TxKeyOK
<1> QED
  BY <1>2, <1>4, TxnStepReports DEF Workers

\* Jobs and creations have no key and change what they load.
LEMMA LoadNoKeyReports ==
    ASSUME TypeInv, ReportsInv, NEW w \in Workers, NEW op, NEW S, Load(w, op, None, S)
    PROVE  ReportsInv'
<1> DEFINE tx == [IdleTxn EXCEPT !.pc = "loaded", !.op = op, !.key = None,
                                 !.old = [s \in ShiftIds |->
                                            IF s \in S THEN shifts[s] ELSE None]]
<1>1. txn' = [txn EXCEPT ![w] = tx] /\ UNCHANGED tables
  BY DEF Load
<1>2. tx.pc = "loaded" /\ tx.key = None
  BY DEF IdleTxn
<1> HIDE DEF tx
<1>3. TxKeyOK(tx)
  BY <1>2 DEF TxKeyOK
<1> QED
  BY <1>1, <1>3, TxnStepReports

LEMMA InsertReports ==
    ASSUME TypeInv, ReportsInv, NEW w \in Workers, NEW op, NEW ins, Insert(w, op, ins)
    PROVE  ReportsInv'
<1> DEFINE tx == [IdleTxn EXCEPT !.pc = "ready", !.op = op, !.at = clock,
                                 !.ins = ins]
<1>1. txn' = [txn EXCEPT ![w] = tx] /\ UNCHANGED tables
  BY DEF Insert
<1>2. Loaded(tx) = {} /\ tx.key = None
  BY DEF Loaded, IdleTxn, NoRows
<1> HIDE DEF tx
<1>3. TxKeyOK(tx)
  BY <1>2 DEF TxKeyOK
<1> QED
  BY <1>1, <1>3, TxnStepReports

LEMMA ReplayReports ==
    ASSUME TypeInv, ReportsInv, NEW w \in Workers, Replay(w)
    PROVE  ReportsInv'
<1> DEFINE tx == [txn[w] EXCEPT !.pc = "ready", !.new = txn[w].old, !.at = clock]
<1>1. txn' = [txn EXCEPT ![w] = tx] /\ UNCHANGED tables /\ txn[w].key \in UsedKeys
  BY DEF Replay, TypeInv, TypeOK, Txn
<1>2. tx.old = txn[w].old /\ tx.op = txn[w].op /\ tx.key = txn[w].key
  BY DEF TypeInv, TypeOK, Txn
<1> HIDE DEF tx
<1>3. TxKeyOK(tx)
  BY <1>1, <1>2 DEF TxKeyOK, ReportsInv, Loaded
<1> QED
  BY <1>1, <1>3, TxnStepReports

LEMMA DecideReports ==
    ASSUME TypeInv, ReportsInv, NEW w \in Workers, Decide(w)
    PROVE  ReportsInv'
<1> DEFINE new == [s \in ShiftIds |->
                     IF s \in Loaded(txn[w])
                     THEN After(OpOn(txn[w], s), txn[w].old[s], clock) ELSE None]
           tx(close) == [txn[w] EXCEPT !.pc = "ready", !.at = clock,
                                       !.close = close, !.new = new]
<1>1. PICK close : txn' = [txn EXCEPT ![w] = tx(close)]
  BY DEF Decide
<1>2. UNCHANGED tables
  BY DEF Decide
<1>3. /\ tx(close).old = txn[w].old /\ tx(close).op = txn[w].op
      /\ tx(close).key = txn[w].key /\ tx(close).new = new
  <2> HIDE DEF new
  <2> QED
    BY DEF TypeInv, TypeOK, Txn
<1>4. \A s \in Loaded(txn[w]) : new[s] # txn[w].old[s]
  <2> SUFFICES ASSUME NEW s \in Loaded(txn[w]) PROVE new[s] # txn[w].old[s]
    OBVIOUS
  <2>1. txn[w].old[s] \in Row /\ s \in ShiftIds
    BY OpsOfTransaction
  <2>2. new[s].version = txn[w].old[s].version + 1 /\ txn[w].old[s].version \in Nat
    BY <2>1 DEF After, Row
  <2> HIDE DEF new
  <2> QED
    BY <2>2
<1> HIDE DEF tx, new
<1>5. TxKeyOK(tx(close))
  BY <1>3, <1>4 DEF TxKeyOK, ReportsInv, Loaded
<1> QED
  BY <1>1, <1>2, <1>5, TxnStepReports

\* Nothing follows the event that ends a shift.
LEMMA EndingEventIsLast ==
    ASSUME TypeInv, NEW s \in ShiftIds, Exists(s), Explained(s),
           NEW i \in DOMAIN log[s], log[s][i].type \in {"SHIFT_END", "FORCE_STOP"}
    PROVE  shifts[s].state \in TERMINAL_STATES
<1>1. DOMAIN log[s] = 1..Len(log[s]) /\ Len(log[s]) \in Nat /\ i # 0
  BY EventOfLog
<1>2. StateAfter(s, i) \in {"COMPLETED", "FORCE_STOPPED"}
  BY <1>1 DEF StateAfter, Outcome
<1>3. i = Len(log[s])
  <2> SUFFICES ASSUME i # Len(log[s]) PROVE FALSE
    OBVIOUS
  <2>1. i + 1 \in DOMAIN log[s] /\ (i + 1) - 1 = i
    BY <1>1
  <2>2. StateAfter(s, i) \in Sources(log[s][i + 1].type)
    BY <2>1 DEF Explained
  <2> QED
    BY <1>2, <2>2 DEF Sources, WAITING, RUNNING
<1>4. shifts[s].state = StateAfter(s, Len(log[s]))
  BY <1>1 DEF Explained
<1> QED
  BY <1>2, <1>3, <1>4 DEF TERMINAL_STATES

\* What a transaction that commits has loaded: its row is the row that the
\* table now holds, and it has a day.
LEMMA CommittedRow ==
    ASSUME Base, HistoryInv, ReportsInv, NEW w \in Workers, Commit(w),
           NEW s \in Loaded(txn[w])
    PROVE  /\ txn[w].new[s] = shifts'[s] /\ Exists(s) /\ Exists(s)'
           /\ Dated(shifts'[s])
<1> DEFINE tx == txn[w]
<1>1. /\ TypeInv /\ DecidedInv /\ FreshInv /\ tx.pc = "ready"
      /\ s \in ShiftIds /\ Exists(s)
  BY DEF Base, Commit, Loaded, TypeInv, TxnOK
<1>2. Operated(tx, s) \/ Kept(tx, s)
  BY <1>1, CommitOnShift DEF DecidedInv, Created
<1>3. CASE Operated(tx, s)
  <2>1. RowOK(s)'
    BY <1>1, <1>3, OperatedRowOK
  <2>2. /\ shifts'[s] = tx.new[s] /\ shifts'[s] \in Row /\ shifts[s] \in Row
        /\ shifts'[s].version = shifts[s].version + 1
    BY <1>1, <1>3, OperatedRow
  <2>3. shifts'[s].version # 0
    BY <2>2 DEF Row
  <2> QED
    BY <1>1, <2>1, <2>2, <2>3, NoRowAssumption DEF RowOK, Exists
<1>4. CASE Kept(tx, s)
  <2>1. tx.new[s] = tx.old[s] /\ tx.old[s] = shifts[s] /\ shifts'[s] = shifts[s]
    BY <1>1, <1>4 DEF Kept, FreshInv
  <2>2. tx.key \in UsedKeys /\ tx.key # None
    BY <1>1, <2>1 DEF ReportsInv, TxKeyOK, UsedKeys
  <2>3. PICK u \in ShiftIds : tx.key \in {ev.key : ev \in Range(log[u])}
    BY <2>2 DEF UsedKeys
  <2>4. PICK i \in DOMAIN log[u] : log[u][i].key = tx.key
    BY <2>3 DEF Range
  <2>5. u = s
    BY <2>2, <2>4 DEF ReportsInv, TxKeyOK, KeysExplained
  <2>6. log[s] # <<>>
    BY <1>1, <2>4, <2>5, EventOfLog
  <2>7. Dated(shifts[s])
    BY <1>1, <2>6 DEF HistoryInv, HistoryOK, RowOK
  <2> QED
    BY <1>1, <2>1, <2>7 DEF Exists
<1> QED
  BY <1>2, <1>3, <1>4

\* A request that changes nothing repeats one that is in the log.
LEMMA ReplayedEvent ==
    ASSUME TypeInv, KeysOfOneAction, ReportsInv, NEW w \in Workers, txn[w].pc = "ready",
           NEW s \in Loaded(txn[w]), txn[w].new[s] = txn[w].old[s]
    PROVE  \E i \in DOMAIN log[s] : log[s][i].type = EventType(txn[w].op)
<1> DEFINE tx == txn[w]
<1>1. tx.key \in UsedKeys /\ tx.key # None
  BY DEF ReportsInv, TxKeyOK, UsedKeys
<1>2. PICK r \in Requests : r.key = tx.key /\ r.op = tx.op /\ Loaded(tx) \subseteq {r.shift}
  BY <1>1 DEF ReportsInv, TxKeyOK
<1>3. PICK u \in ShiftIds : tx.key \in {ev.key : ev \in Range(log[u])}
  BY <1>1 DEF UsedKeys
<1>4. PICK i \in DOMAIN log[u] : log[u][i].key = tx.key
  BY <1>3 DEF Range
<1>5. r.shift = u /\ log[u][i].type = EventType(r.op)
  BY <1>1, <1>2, <1>4 DEF ReportsInv, KeysExplained
<1> QED
  BY <1>2, <1>4, <1>5

LEMMA CommitAttendance ==
    ASSUME Separate, Base, HistoryInv, ReportsInv, NEW w \in Workers, Commit(w)
    PROVE  AttendanceOK'
<1> DEFINE tx == txn[w]
<1>1. /\ TypeInv /\ DecidedInv /\ FreshInv /\ tx.pc = "ready" /\ HistoryInv'
      /\ attendance' = AttendanceAfter(tx) /\ breaks' = BreaksNext(tx)
      /\ \A s \in ShiftIds : shifts[s] \in OptRow
  BY CommitHistory DEF Base, Commit, TypeInv, TypeOK
<1>2. \A s \in Loaded(tx) : /\ tx.new[s] = shifts'[s] /\ Exists(s)'
                            /\ Dated(shifts'[s]) /\ s \in ShiftIds
                            /\ WorkDate(tx.new[s]) = DayOf(shifts'[s])
  BY CommittedRow, DayOfDated DEF Loaded
<1>3. \A s \in ShiftIds : Created(tx, s) \/ Operated(tx, s) \/ Kept(tx, s)
  BY <1>1, CommitOnShift DEF DecidedInv
\* An operation does not move a shift to another day.
<1>4. \A s \in ShiftIds : Operated(tx, s) /\ Dated(shifts[s]) =>
         DayOf(shifts'[s]) = DayOf(shifts[s])
  <2> SUFFICES ASSUME NEW s \in ShiftIds, Operated(tx, s), Dated(shifts[s])
               PROVE  DayOf(shifts'[s]) = DayOf(shifts[s])
    OBVIOUS
  <2> DEFINE op == AppliedOp(tx, s)
  <2>1. /\ shifts'[s].scheduled_start = shifts[s].scheduled_start
        /\ shifts'[s].actual_start = IF op \in Starts THEN tx.at ELSE shifts[s].actual_start
        /\ shifts[s].state \in From(op) /\ Exists(s)
    BY <1>1, OperatedRow
  <2> HIDE DEF op, tx
  <2>2. op \in Starts => shifts[s].actual_start = None
    <3>1. op \in Starts => shifts[s].state \in WAITING
      BY <2>1 DEF From, Starts, Closings, Ends
    <3> QED
      BY <1>1, <2>1, <3>1 DEF HistoryInv, HistoryOK, RowOK, WAITING
  <2> QED
    BY <2>1, <2>2 DEF Dated, DayOf
<1>5. \A k \in Employees \X Days :
         \/ Derived(tx, k) = {} /\ attendance'[k] = attendance[k]
         \/ \E s \in Derived(tx, k) :
              attendance'[k] = [shift |-> s, row |-> tx.new[s], breaks |-> breaks'[s]]
  <2> SUFFICES ASSUME NEW k \in Employees \X Days, Derived(tx, k) # {}
               PROVE  \E s \in Derived(tx, k) :
                        attendance'[k] = [shift |-> s, row |-> tx.new[s],
                                          breaks |-> breaks'[s]]
    BY <1>1 DEF AttendanceAfter
  <2> DEFINE s == CHOOSE s \in Derived(tx, k) : TRUE
  <2>1. s \in Derived(tx, k)
    OBVIOUS
  <2>2. attendance'[k] = [shift |-> s, row |-> tx.new[s], breaks |-> breaks'[s]]
    BY <1>1 DEF AttendanceAfter
  <2> QED
    BY <2>1, <2>2
<1>6. \A k \in Employees \X Days : \A s \in Derived(tx, k) :
         s \in Loaded(tx) /\ s[1] = k[1] /\ DayOf(shifts'[s]) = k[2]
  BY <1>2 DEF Derived
<1>7. ASSUME NEW k \in Employees \X Days, attendance'[k] # None
      PROVE  UpToDate(k, attendance[k])'
  <2>1. CASE \E s \in Derived(tx, k) :
               attendance'[k] = [shift |-> s, row |-> tx.new[s], breaks |-> breaks'[s]]
    BY <1>2, <1>6, <2>1 DEF UpToDate
  <2>2. CASE Derived(tx, k) = {} /\ attendance'[k] = attendance[k]
    <3> DEFINE a == attendance[k]
    <3>1. a \in AttendanceRow /\ UpToDate(k, a)
      BY <1>1, <1>7, <2>2 DEF TypeInv, TypeOK, ReportsInv, AttendanceOK
    <3>2. a.shift \in ShiftIds /\ Exists(a.shift)
      BY <3>1 DEF AttendanceRow, UpToDate
    <3>3. ~ Operated(tx, a.shift)
      <4> SUFFICES ASSUME Operated(tx, a.shift) PROVE FALSE
        OBVIOUS
      <4>1. a.shift \in Loaded(tx) /\ DayOf(shifts'[a.shift]) = k[2] /\ a.shift[1] = k[1]
        BY <1>4, <3>1, <3>2 DEF Operated, UpToDate
      <4>2. a.shift \in Derived(tx, k)
        BY <1>2, <4>1 DEF Derived
      <4> QED
        BY <2>2, <4>2
    <3>4. Kept(tx, a.shift)
      BY <1>3, <3>2, <3>3 DEF Created
    <3> QED
      BY <2>2, <3>1, <3>4 DEF UpToDate, Kept, Exists
  <2> QED
    BY <1>5, <2>1, <2>2
<1>8. \A k \in Employees \X Days : Derived(tx, k) # {} => attendance'[k] # None
  <2> SUFFICES ASSUME NEW k \in Employees \X Days, Derived(tx, k) # {}
               PROVE  attendance'[k] # None
    OBVIOUS
  <2>1. PICK s \in Derived(tx, k) :
           attendance'[k] = [shift |-> s, row |-> tx.new[s], breaks |-> breaks'[s]]
    BY <1>5
  <2>2. s \in ShiftIds /\ tx.new[s] \in Row /\ breaks'[s] \in Seq(Break)
    BY <1>1, <1>2, <1>6, OpsOfTransaction, CommitType DEF TypeInv, TypeOK
  <2> QED
    BY <2>1, <2>2, NoAttendanceAssumption DEF AttendanceRow
<1>9. ASSUME NEW s \in ShiftIds, Exists(s)', shifts'[s].version # 0
      PROVE  attendance'[<<s[1], DayOf(shifts'[s])>>] # None
  <2> DEFINE k == <<s[1], DayOf(shifts'[s])>>
  <2>1. Dated(shifts'[s]) /\ RowOK(s)'
    BY <1>1, <1>9 DEF HistoryInv, HistoryOK, RowOK
  <2>2. k \in Employees \X Days
    <3>1. DayOf(shifts'[s]) \in Days
      BY <2>1, DateInDays DEF RowOK, DayOf, Dated
    <3> QED
      BY <3>1 DEF ShiftIds
  <2>3. CASE s \in Loaded(tx)
    <3>1. s \in Derived(tx, k)
      BY <1>2, <2>3 DEF Derived
    <3> QED
      BY <1>8, <2>2, <3>1
  <2>4. CASE s \notin Loaded(tx)
    <3>1. Kept(tx, s) \/ Created(tx, s)
      BY <1>3, <2>4 DEF Operated
    <3>2. ~ Created(tx, s)
      BY <1>1, <1>9 DEF Created, DecidedInv, TxnDecided, ShiftIds
    <3>3. shifts'[s] = shifts[s]
      BY <3>1, <3>2 DEF Kept
    <3>4. attendance[k] # None
      BY <1>9, <3>3 DEF ReportsInv, AttendanceOK, Exists
    <3> QED
      BY <1>5, <1>8, <2>2, <3>4
  <2> QED
    BY <2>3, <2>4
<1> QED
  BY <1>7, <1>9 DEF AttendanceOK

LEMMA CommitNotices ==
    ASSUME KeysOfOneAction, Base, HistoryInv, ReportsInv,
           NEW w \in Workers, Commit(w), NEW s \in ShiftIds
    PROVE  NoticeOK(s)'
<1> DEFINE tx == txn[w]
<1>1. /\ TypeInv /\ DecidedInv /\ FreshInv /\ tx.pc = "ready"
      /\ notified' = NotifiedAfter(tx) /\ NoticeOK(s)
  BY DEF Base, Commit, ReportsInv
<1>2. Created(tx, s) \/ Operated(tx, s) \/ Kept(tx, s)
  BY <1>1, CommitOnShift DEF DecidedInv
<1>3. CASE s \in Loaded(tx) /\ tx.op \in RequestOps
  <2>1. notified'[s] = [event |-> WebhookOf(tx.op), state |-> tx.new[s].state]
    BY <1>1, <1>3 DEF NotifiedAfter
  <2>2. tx.new[s] = shifts'[s] /\ Exists(s)'
    BY <1>3, CommittedRow
  <2>3. notified'[s].event = "shift.ended" => tx.op \in {"end", "force_stop"}
    BY <1>3, <2>1 DEF WebhookOf, RequestOps
  <2>4. ASSUME tx.op \in {"end", "force_stop"}
        PROVE  shifts'[s].state \in TERMINAL_STATES
    <3>1. CASE Operated(tx, s)
      <4>1. shifts'[s].state = Target(tx.op)
        BY <2>4, <3>1 DEF Operated, AppliedOp
      <4> QED
        BY <2>4, <4>1 DEF Target, Starts, TERMINAL_STATES
    <3>2. CASE Kept(tx, s)
      <4>1. tx.new[s] = tx.old[s] /\ shifts'[s] = shifts[s] /\ Exists(s)
        BY <1>3, <3>2 DEF Kept
      <4>2. PICK i \in DOMAIN log[s] : log[s][i].type = EventType(tx.op)
        BY <1>1, <1>3, <4>1, ReplayedEvent
      <4>3. EventType(tx.op) \in {"SHIFT_END", "FORCE_STOP"}
        BY <2>4 DEF EventType
      <4>4. Explained(s)
        BY <1>1, <4>1, HistoryOfShifts DEF HistoryInv
      <4> QED
        BY <1>1, <4>1, <4>2, <4>3, <4>4, EndingEventIsLast
    <3> QED
      BY <1>2, <1>3, <3>1, <3>2 DEF Created
  <2> QED
    BY <2>1, <2>2, <2>3, <2>4 DEF NoticeOK
<1>4. CASE ~ (s \in Loaded(tx) /\ tx.op \in RequestOps)
  <2>1. notified'[s] = notified[s]
    BY <1>1, <1>4 DEF NotifiedAfter
  <2>2. CASE Created(tx, s)
    BY <1>1, <2>1, <2>2 DEF NoticeOK, Created
  <2>3. CASE Kept(tx, s)
    BY <1>1, <2>1, <2>3 DEF NoticeOK, Kept, Exists
  <2>4. CASE Operated(tx, s)
    <3>1. /\ shifts[s].state \in From(AppliedOp(tx, s)) /\ AppliedOp(tx, s) \in Ops
          /\ Exists(s) /\ shifts'[s] \in Row
      BY <1>1, <2>4, OperatedRow
    <3>2. shifts[s].state \notin TERMINAL_STATES
      <4> DEFINE op == AppliedOp(tx, s)
      <4>1. shifts[s].state \in From(op) /\ op \in Ops
        BY <3>1
      <4> HIDE DEF op
      <4> QED
        BY <4>1 DEF From, Ops, Starts, Ends, Closings, WAITING, RUNNING, TERMINAL_STATES
    <3> QED
      BY <1>1, <2>1, <3>1, <3>2, NoRowAssumption DEF NoticeOK, Exists
  <2> QED
    BY <1>2, <2>2, <2>3, <2>4
<1> QED
  BY <1>3, <1>4

LEMMA CommitKeysExplained ==
    ASSUME KeysOfOneAction, Base, ReportsInv, NEW w \in Workers, Commit(w),
           NEW s \in ShiftIds
    PROVE  KeysExplained(s)'
<1> DEFINE tx == txn[w]
           op == AppliedOp(tx, s)
<1>1. /\ TypeInv /\ DecidedInv /\ tx.key \in Keys \cup {None} /\ tx.at \in Nat
      /\ log[s] \in Seq(Event)
  BY DEF Base, TypeInv, TypeOK, Txn
<1>2. Created(tx, s) \/ Operated(tx, s) \/ Kept(tx, s)
  BY <1>1, CommitOnShift DEF DecidedInv
<1>3. KeysExplained(s)
  BY DEF ReportsInv
<1>4. CASE log'[s] = log[s]
  BY <1>3, <1>4 DEF KeysExplained
<1>5. CASE Operated(tx, s) /\ op \notin Closings
  <2>1. /\ op \in Ops /\ log'[s] = Logged(log[s], op, tx.old[s], tx.key, tx.at)
        /\ s \in Loaded(tx)
    BY <1>5 DEF Operated
  <2>2. tx.op = op
    BY <1>5 DEF AppliedOp, Closings
  <2> HIDE DEF tx, op
  <2>3. /\ DOMAIN log[s] = 1..Len(log[s]) /\ DOMAIN log'[s] = 1..Len(log'[s])
        /\ Len(log[s]) \in Nat
        /\ ResumesBreak(op, tx.old[s]) => Len(log'[s]) = Len(log[s]) + 2
        /\ ~ ResumesBreak(op, tx.old[s]) => Len(log'[s]) = Len(log[s]) + 1
        /\ \A i \in 1..Len(log[s]) : log'[s][i] = log[s][i]
        /\ ResumesBreak(op, tx.old[s]) =>
              log'[s][Len(log[s]) + 1] = BreakEnd(tx.key, tx.at)
        /\ log'[s][Len(log'[s])] = MainEvent(op, tx.key, tx.at)
    BY <1>1, <1>5, <2>1, LoggedMain
  <2> SUFFICES ASSUME NEW r \in Requests, r.key # None,
                      NEW i \in DOMAIN log'[s], log'[s][i].key = r.key
               PROVE  r.shift = s /\ log'[s][i].type = EventType(r.op)
    BY DEF KeysExplained
  <2>4. CASE i \in 1..Len(log[s])
    BY <1>3, <2>3, <2>4 DEF KeysExplained
  <2>5. CASE i = Len(log'[s])
    <3>1. log'[s][i].key = tx.key /\ log'[s][i].type = EventType(op)
      BY <2>3, <2>5 DEF MainEvent
    <3>2. PICK q \in Requests : q.key = tx.key /\ q.op = tx.op /\ Loaded(tx) \subseteq {q.shift}
      BY <3>1 DEF ReportsInv, TxKeyOK, tx
    <3>3. q = r
      BY <3>1, <3>2 DEF KeysOfOneAction
    <3> QED
      BY <2>1, <2>2, <3>1, <3>2, <3>3
  <2>6. CASE i = Len(log[s]) + 1 /\ i # Len(log'[s])
    <3>1. log'[s][i].key = BreakEndKey(tx.key)
      BY <2>3, <2>6 DEF BreakEnd
    <3>2. tx.key # None
      BY <3>1 DEF BreakEndKey
    <3>3. PICK q \in Requests : q.key = tx.key
      BY <3>2 DEF ReportsInv, TxKeyOK, tx
    <3> QED
      BY <3>1, <3>3, RequestsAssumption
  <2> QED
    BY <2>3, <2>4, <2>5, <2>6
<1>6. CASE Operated(tx, s) /\ op \in Closings
  <2>1. log'[s] = Logged(log[s], op, tx.old[s], tx.key, tx.at)
    BY <1>6 DEF Operated
  <2>2. log'[s] = log[s]
    <3> HIDE DEF tx, op
    <3> QED
      BY <1>1, <1>6, <2>1, LoggedClosing
  <2> QED
    BY <1>4, <2>2
<1> QED
  BY <1>2, <1>4, <1>5, <1>6 DEF Created, Kept

\* shift_events only grows.
LEMMA KeysStay ==
    ASSUME TypeInv, DecidedInv, NEW w \in Workers, Commit(w)
    PROVE  UsedKeys \subseteq UsedKeys'
<1> SUFFICES ASSUME NEW key \in UsedKeys PROVE key \in UsedKeys'
  OBVIOUS
<1>1. PICK s \in ShiftIds : key \in {ev.key : ev \in Range(log[s])} /\ key # None
  BY DEF UsedKeys
<1>2. PICK i \in DOMAIN log[s] : log[s][i].key = key
  BY <1>1 DEF Range
<1>3. i \in DOMAIN log'[s] /\ log'[s][i] = log[s][i]
  <2> DEFINE tx == txn[w]
             op == AppliedOp(tx, s)
  <2>1. log[s] \in Seq(Event) /\ tx.key \in Keys \cup {None} /\ tx.at \in Nat
    BY DEF TypeInv, TypeOK, Txn
  <2>2. Created(tx, s) \/ Operated(tx, s) \/ Kept(tx, s)
    BY CommitOnShift DEF DecidedInv
  <2>3. CASE log'[s] = log[s]
    BY <1>2, <2>3
  <2>4. CASE Operated(tx, s)
    <3>1. op \in Ops /\ log'[s] = Logged(log[s], op, tx.old[s], tx.key, tx.at)
      BY <2>4 DEF Operated
    <3> HIDE DEF tx, op
    <3>2. CASE op \in Closings
      BY <2>1, <2>3, <3>1, <3>2, LoggedClosing
    <3>3. CASE op \notin Closings
      <4>1. /\ DOMAIN log[s] = 1..Len(log[s]) /\ DOMAIN log'[s] = 1..Len(log'[s])
            /\ Len(log[s]) \in Nat
            /\ ResumesBreak(op, tx.old[s]) => Len(log'[s]) = Len(log[s]) + 2
            /\ ~ ResumesBreak(op, tx.old[s]) => Len(log'[s]) = Len(log[s]) + 1
            /\ \A n \in 1..Len(log[s]) : log'[s][n] = log[s][n]
        BY <2>1, <3>1, <3>3, LoggedMain
      <4> QED
        BY <1>2, <4>1
    <3> QED
      BY <3>2, <3>3
  <2> QED
    BY <2>2, <2>3, <2>4 DEF Created, Kept
<1>4. log'[s][i] \in Range(log'[s])
  BY <1>3 DEF Range
<1> QED
  BY <1>1, <1>2, <1>3, <1>4 DEF UsedKeys

LEMMA StepReports ==
    ASSUME Separate, KeysOfOneAction, Base, HistoryInv, ReportsInv, [Next]_vars
    PROVE  ReportsInv'
<1>0. TypeInv
  BY DEF Base
<1>1. CASE UNCHANGED <<tables, txn>>
  BY <1>1, QuietStepReports
<1>2. ASSUME NEW w \in ApiWorkers, LoadRequest(w) PROVE ReportsInv'
  BY <1>0, <1>2, RequestReports
<1>3. ASSUME NEW w \in ApiWorkers, LoadCreate(w) PROVE ReportsInv'
  BY <1>0, <1>3, CreateInserts, InsertReports DEF Workers
<1>4. ASSUME NEW w \in JobWorkers, LoadEnsure(w) PROVE ReportsInv'
  BY <1>0, <1>4, EnsureInserts, InsertReports DEF Workers
<1>5. ASSUME NEW w \in JobWorkers, NEW op \in JobOps, LoadJob(w, op) PROVE ReportsInv'
  BY <1>0, <1>5, LoadNoKeyReports DEF LoadJob, Workers
<1>6. ASSUME NEW w \in Workers, Decide(w) PROVE ReportsInv'
  BY <1>0, <1>6, DecideReports
<1>7. ASSUME NEW w \in Workers, Replay(w) PROVE ReportsInv'
  BY <1>0, <1>7, ReplayReports
<1>8. ASSUME NEW w \in Workers, Reject(w) \/ Rollback(w) \/ Crash(w)
      PROVE  ReportsInv'
  BY <1>0, <1>8, IdleKeyOK, TxnStepReports DEF Reject, Rollback, Crash, Deny
<1>9. ASSUME NEW w \in Workers, Commit(w) PROVE ReportsInv'
  <2>1. \A v \in Workers : txn'[v] = IF v = w THEN IdleTxn ELSE txn[v]
    BY <1>0, <1>9 DEF Commit, Deny, TypeInv, TypeOK
  <2>2. TxKeyOK(txn[w])'
    <3>1. /\ Loaded(IdleTxn)' = {} /\ IdleTxn.key = None /\ IdleTxn.pc # "ready"
      BY DEF Loaded, IdleTxn, NoRows
    <3> QED
      BY <2>1, <3>1 DEF TxKeyOK
  <2>3. ASSUME NEW v \in Workers, v # w PROVE TxKeyOK(txn[v])'
    <3>1. txn'[v] = txn[v] /\ TxKeyOK(txn[v])
      BY <2>1, <2>3 DEF ReportsInv
    <3>2. UsedKeys \subseteq UsedKeys'
      BY <1>0, <1>9, KeysStay DEF Base
    <3>3. Loaded(txn[v])' = Loaded(txn[v])
      BY <3>1 DEF Loaded
    <3> QED
      BY <3>1, <3>2, <3>3 DEF TxKeyOK
  <2>4. AttendanceOK'
    BY <1>9, CommitAttendance
  <2>5. \A s \in ShiftIds : NoticeOK(s)' /\ KeysExplained(s)'
    BY <1>9, CommitNotices, CommitKeysExplained
  <2> QED
    BY <2>2, <2>3, <2>4, <2>5 DEF ReportsInv
<1> QED
  BY <1>1, <1>2, <1>3, <1>4, <1>5, <1>6, <1>7, <1>8, <1>9
  DEF Next, Step, Tick, DecideLeave, vars, tables

LEMMA InitReports == Init => ReportsInv
<1> SUFFICES ASSUME Init PROVE ReportsInv
  OBVIOUS
<1>1. \A s \in ShiftIds : ~ Exists(s) /\ log[s] = <<>> /\ notified[s] = None
  BY DEF Init, NoRows, Exists
<1>2. AttendanceOK
  BY <1>1 DEF Init, AttendanceOK
<1>3. \A s \in ShiftIds : NoticeOK(s) /\ KeysExplained(s)
  BY <1>1 DEF NoticeOK, KeysExplained
<1> QED
  BY <1>2, <1>3, IdleKeyOK DEF Init, ReportsInv

LEMMA ReportsAlways ==
    KeysOfOneAction => (Spec /\ []Separate => [](HistoryInv /\ ReportsInv))
<1> SUFFICES ASSUME KeysOfOneAction
             PROVE  Spec /\ []Separate => [](HistoryInv /\ ReportsInv)
  OBVIOUS
<1>1. ReportsInv /\ HistoryInv /\ Base /\ Separate /\ [Next]_vars => ReportsInv'
  BY StepReports
<1>2. Spec /\ []Separate => []HistoryInv
  BY HistoryAlways
<1>3. Spec /\ []Separate => []Base
  BY BaseAlways
<1> QED
  BY <1>1, <1>2, <1>3, InitReports, PTL DEF Spec

\* While no two transactions work on one shift and a key names one action, every
\* attendance row holds what derive_for_shift would compute now, and every
\* shift that left AVAILABLE has its day's row: no transition, replay or job
\* leaves a stale one behind.
THEOREM AttendanceCurrentAlways ==
    KeysOfOneAction => (Spec /\ []Separate => []AttendanceCurrent)
<1> SUFFICES ASSUME KeysOfOneAction PROVE Spec /\ []Separate => []AttendanceCurrent
  OBVIOUS
<1>1. HistoryInv /\ ReportsInv => AttendanceCurrent
  <2> SUFFICES ASSUME HistoryInv, ReportsInv PROVE AttendanceCurrent
    OBVIOUS
  <2>1. \A s \in ShiftIds : Exists(s) /\ shifts[s].version # 0 =>
           WorkDate(shifts[s]) = DayOf(shifts[s])
    BY DayOfDated DEF HistoryInv, HistoryOK, RowOK
  <2> QED
    BY <2>1 DEF ReportsInv, AttendanceOK, UpToDate, AttendanceCurrent
<1>2. Spec /\ []Separate => [](HistoryInv /\ ReportsInv)
  BY ReportsAlways
<1> QED
  BY <1>1, <1>2, PTL

\* While no two transactions work on one shift and a key names one action, who is
\* told that a shift has ended finds it ended, in the state the payload names,
\* also when the request was resent after other ones.
THEOREM EndedNoticeIsTrueAlways ==
    KeysOfOneAction => (Spec /\ []Separate => []EndedNoticeIsTrue)
<1> SUFFICES ASSUME KeysOfOneAction PROVE Spec /\ []Separate => []EndedNoticeIsTrue
  OBVIOUS
<1>1. ReportsInv => EndedNoticeIsTrue
  BY DEF ReportsInv, NoticeOK, EndedNoticeIsTrue
<1>2. Spec /\ []Separate => [](HistoryInv /\ ReportsInv)
  BY ReportsAlways
<1> QED
  BY <1>1, <1>2, PTL

-----------------------------------------------------------------------------
(* One shift per occurrence.  ensure_daily_shifts looks for a shift by the *)
(* UTC date of its start, so the windows must lie on the UTC date of their *)
(* local day; and a manager who creates a shift for a scheduled day after  *)
(* the employee has finished makes a second one.                           *)

WindowsOnTheirDate ==
    \A e \in Employees, d \in Days :
        Schedule[<<e, d>>] # None => Date(Schedule[<<e, d>>].start) = d

OnlyTheJobSchedules ==
    \A e \in Employees, d \in ManualDays : Schedule[<<e, d>>] = None

\* What a transaction will insert is not there yet.
InsertsNew(tx) ==
    \A e \in Employees : tx.ins[e] # None /\ tx.ins[e].scheduled_start # None =>
        \A s \in ShiftIds : s[1] = e /\ Exists(s) =>
            shifts[s].scheduled_start # tx.ins[e].scheduled_start

OccurrenceInv == OneShiftPerOccurrence /\ \A w \in Workers : InsertsNew(txn[w])

LEMMA TxnStepOccurrence ==
    ASSUME TypeInv, OccurrenceInv, NEW w \in Workers, NEW tx, InsertsNew(tx),
           txn' = [txn EXCEPT ![w] = tx], UNCHANGED tables
    PROVE  OccurrenceInv'
<1>1. \A v \in Workers : txn'[v] = IF v = w THEN tx ELSE txn[v]
  BY DEF TypeInv, TypeOK
<1>2. \A v \in Workers : InsertsNew(txn'[v])
  BY <1>1 DEF OccurrenceInv
<1>3. \A v \in Workers : InsertsNew(txn[v])'
  BY <1>2 DEF InsertsNew, Exists, tables
<1> QED
  BY <1>3 DEF OccurrenceInv, OneShiftPerOccurrence, Exists, tables

\* A transaction that inserts nothing, or what another would have inserted.
LEMMA SameInserts ==
    ASSUME TypeInv, OccurrenceInv, NEW w \in Workers, NEW tx,
           \/ \A e \in Employees : tx.ins[e] = None
           \/ tx.ins = txn[w].ins,
           txn' = [txn EXCEPT ![w] = tx], UNCHANGED tables
    PROVE  OccurrenceInv'
<1>1. InsertsNew(tx)
  BY DEF OccurrenceInv, InsertsNew
<1> QED
  BY <1>1, TxnStepOccurrence

LEMMA InsertOccurrence ==
    ASSUME TypeInv, OccurrenceInv, NEW w \in Workers, NEW op, NEW ins,
           Insert(w, op, ins),
           \A e \in Employees : ins[e] # None /\ ins[e].scheduled_start # None =>
              \A s \in ShiftIds : s[1] = e /\ Exists(s) =>
                 shifts[s].scheduled_start # ins[e].scheduled_start
    PROVE  OccurrenceInv'
<1> DEFINE tx == [IdleTxn EXCEPT !.pc = "ready", !.op = op, !.at = clock,
                                 !.ins = ins]
<1>1. txn' = [txn EXCEPT ![w] = tx] /\ UNCHANGED tables
  BY DEF Insert
<1>2. tx.ins = ins
  BY DEF IdleTxn
<1> HIDE DEF tx
<1>3. InsertsNew(tx)
  BY <1>2 DEF InsertsNew
<1> QED
  BY <1>1, <1>3, TxnStepOccurrence

LEMMA NewRowStart ==
    ASSUME NEW window, NEW p
    PROVE  NewRow(window, p).scheduled_start = IF window = None THEN None ELSE window.start
BY DEF NewRow

LEMMA EnsureOccurrence ==
    ASSUME WindowsOnTheirDate, TypeInv, OccurrenceInv, NEW w \in JobWorkers, LoadEnsure(w)
    PROVE  OccurrenceInv'
<1> DEFINE today == Date(clock)
<1>1. PICK ins : /\ Insert(w, "ensure", ins)
                 /\ \A e \in Employees : ins[e] # None =>
                       /\ NeedsShift(e, today)
                       /\ \E p \in Policies : ins[e] = NewRow(Schedule[<<e, today>>], p)
  BY EnsureInserts
<1>2. today \in Days
  BY ClockIsInDays DEF TypeInv, TypeOK
<1> HIDE DEF today
<1>3. ASSUME NEW e \in Employees, ins[e] # None, NEW s \in ShiftIds, s[1] = e, Exists(s),
             ins[e].scheduled_start # None,
             shifts[s].scheduled_start = ins[e].scheduled_start
      PROVE  FALSE
  <2>1. NeedsShift(e, today) /\ Schedule[<<e, today>>] # None
    BY <1>1, <1>3 DEF NeedsShift
  <2>2. ins[e].scheduled_start = Schedule[<<e, today>>].start
    BY <1>1, <1>3, <2>1, NewRowStart
  <2>3. Date(ins[e].scheduled_start) = today
    BY <1>2, <2>1, <2>2 DEF WindowsOnTheirDate
  <2>4. HasShiftOn(e, today)
    BY <1>3, <2>3 DEF HasShiftOn
  <2> QED
    BY <2>1, <2>4 DEF NeedsShift
<1> QED
  BY <1>1, <1>3, InsertOccurrence DEF Workers

\* A commit inserts one shift per employee and moves no shift.
LEMMA CommitOccurrence ==
    ASSUME OneCreates, TypeInv, OccurrenceInv, NEW w \in Workers, Commit(w)
    PROVE  OccurrenceInv'
<1> DEFINE tx == txn[w]
<1>1. shifts' = ShiftsAfter(tx) /\ InsertsNew(tx)
  BY DEF Commit, OccurrenceInv
<1>2. \A v \in Workers : txn'[v] = IF v = w THEN IdleTxn ELSE txn[v]
  BY DEF Commit, Deny, TypeInv, TypeOK
<1>3. \A s \in ShiftIds : Inserts(tx, s) =>
         shifts[s] = None /\ shifts'[s] = tx.ins[s[1]] /\ tx.ins[s[1]] # None
         /\ s = InsertedId(s[1])
  BY <1>1, InsertedIsFree DEF ShiftsAfter, Inserts
<1>4. \A s \in ShiftIds : ~ Inserts(tx, s) /\ Exists(s)' =>
         Exists(s) /\ shifts'[s].scheduled_start = shifts[s].scheduled_start
  <2> SUFFICES ASSUME NEW s \in ShiftIds, ~ Inserts(tx, s), Exists(s)'
               PROVE  /\ Exists(s)
                      /\ shifts'[s].scheduled_start = shifts[s].scheduled_start
    OBVIOUS
  <2>1. CASE s \in Loaded(tx)
    <3>1. shifts[s] \in Row /\ Exists(s)
      BY <2>1, OpsOfTransaction, NoRowAssumption DEF Exists
    <3>2. shifts'[s] = Flush(shifts[s], tx.old[s], tx.new[s])
      BY <1>1, <2>1 DEF ShiftsAfter
    <3> QED
      BY <3>1, <3>2 DEF Flush, Row
  <2>2. CASE s \notin Loaded(tx)
    BY <1>1, <2>2 DEF ShiftsAfter, Exists
  <2> QED
    BY <2>1, <2>2
<1>5. OneShiftPerOccurrence'
  <2> SUFFICES ASSUME NEW s \in ShiftIds, NEW u \in ShiftIds, s[1] = u[1],
                      Exists(s)', Exists(u)', shifts'[s].scheduled_start # None,
                      shifts'[s].scheduled_start = shifts'[u].scheduled_start
               PROVE  s = u
    BY DEF OneShiftPerOccurrence
  <2>0. s[1] \in Employees
    BY DEF ShiftIds
  <2>1. CASE Inserts(tx, s) /\ Inserts(tx, u)
    BY <1>3, <2>1
  <2>2. CASE Inserts(tx, s) /\ ~ Inserts(tx, u)
    BY <1>1, <1>3, <1>4, <2>0, <2>2 DEF InsertsNew
  <2>3. CASE ~ Inserts(tx, s) /\ Inserts(tx, u)
    BY <1>1, <1>3, <1>4, <2>0, <2>3 DEF InsertsNew
  <2>4. CASE ~ Inserts(tx, s) /\ ~ Inserts(tx, u)
    BY <1>4, <2>4 DEF OccurrenceInv, OneShiftPerOccurrence
  <2> QED
    BY <2>1, <2>2, <2>3, <2>4
<1>6. \A v \in Workers : InsertsNew(txn[v])'
  <2>1. InsertsNew(txn[w])'
    BY <1>2, IdleFresh DEF InsertsNew
  <2>2. ASSUME NEW v \in Workers, v # w PROVE InsertsNew(txn[v])'
    <3>1. txn'[v] = txn[v] /\ InsertsNew(txn[v])
      BY <1>2, <2>2 DEF OccurrenceInv
    <3> SUFFICES ASSUME NEW e \in Employees, txn[v].ins[e] # None,
                        txn[v].ins[e].scheduled_start # None,
                        NEW s \in ShiftIds, s[1] = e, Exists(s)'
                 PROVE  shifts'[s].scheduled_start # txn[v].ins[e].scheduled_start
      BY <3>1 DEF InsertsNew
    <3>2. tx.ins[e] = None
      BY <2>2 DEF OneCreates
    <3>3. ~ Inserts(tx, s)
      BY <3>2 DEF Inserts
    <3> QED
      BY <1>4, <3>1, <3>3 DEF InsertsNew
  <2> QED
    BY <2>1, <2>2
<1> QED
  BY <1>5, <1>6 DEF OccurrenceInv

LEMMA StepOccurrence ==
    ASSUME OneCreates, WindowsOnTheirDate, OnlyTheJobSchedules, TypeInv, OccurrenceInv,
           [Next]_vars
    PROVE  OccurrenceInv'
<1>1. CASE UNCHANGED <<tables, txn>>
  BY <1>1 DEF OccurrenceInv, OneShiftPerOccurrence, InsertsNew, Exists, tables
<1>2. ASSUME NEW w \in Workers, NEW op, NEW key, NEW S, Load(w, op, key, S)
      PROVE  OccurrenceInv'
  <2> DEFINE tx == [IdleTxn EXCEPT !.pc = "loaded", !.op = op, !.key = key,
                                   !.old = [s \in ShiftIds |->
                                              IF s \in S THEN shifts[s] ELSE None]]
  <2>1. txn' = [txn EXCEPT ![w] = tx] /\ UNCHANGED tables
    BY <1>2 DEF Load
  <2>2. \A e \in Employees : tx.ins[e] = None
    BY DEF IdleTxn
  <2> HIDE DEF tx
  <2> QED
    BY <2>1, <2>2, SameInserts
<1>3. ASSUME NEW w \in ApiWorkers, LoadCreate(w) PROVE OccurrenceInv'
  <2>1. PICK ins : /\ Insert(w, "create", ins)
                   /\ \A e \in Employees : ins[e] # None =>
                         \E d \in ManualDays, p \in Policies :
                            ins[e] = NewRow(Schedule[<<e, d>>], p)
    BY <1>3, CreateInserts
  <2>2. \A e \in Employees : ins[e] # None => ins[e].scheduled_start = None
    <3> SUFFICES ASSUME NEW e \in Employees, ins[e] # None
                 PROVE  ins[e].scheduled_start = None
      OBVIOUS
    <3>1. PICK d \in ManualDays, p \in Policies : ins[e] = NewRow(Schedule[<<e, d>>], p)
      BY <2>1
    <3>2. Schedule[<<e, d>>] = None
      BY DEF OnlyTheJobSchedules
    <3> QED
      BY <3>1, <3>2, NewRowStart
  <2> QED
    BY <2>1, <2>2, InsertOccurrence DEF Workers
<1>4. ASSUME NEW w \in JobWorkers, LoadEnsure(w) PROVE OccurrenceInv'
  BY <1>4, EnsureOccurrence
<1>5. ASSUME NEW w \in Workers, Decide(w) PROVE OccurrenceInv'
  <2> DEFINE new == [s \in ShiftIds |->
                       IF s \in Loaded(txn[w])
                       THEN After(OpOn(txn[w], s), txn[w].old[s], clock) ELSE None]
             tx(close) == [txn[w] EXCEPT !.pc = "ready", !.at = clock,
                                         !.close = close, !.new = new]
  <2>1. PICK close : txn' = [txn EXCEPT ![w] = tx(close)]
    BY <1>5 DEF Decide
  <2>2. UNCHANGED tables
    BY <1>5 DEF Decide
  <2>3. tx(close).ins = txn[w].ins
    <3> HIDE DEF new
    <3> QED
      BY DEF TypeInv, TypeOK, Txn
  <2> HIDE DEF tx
  <2> QED
    BY <2>1, <2>2, <2>3, SameInserts
<1>6. ASSUME NEW w \in Workers, Replay(w) PROVE OccurrenceInv'
  <2> DEFINE tx == [txn[w] EXCEPT !.pc = "ready", !.new = txn[w].old, !.at = clock]
  <2>1. txn' = [txn EXCEPT ![w] = tx] /\ UNCHANGED tables
    BY <1>6 DEF Replay, TypeInv, TypeOK, Txn
  <2>2. tx.ins = txn[w].ins
    BY DEF TypeInv, TypeOK, Txn
  <2> HIDE DEF tx
  <2> QED
    BY <2>1, <2>2, SameInserts
<1>7. ASSUME NEW w \in Workers, Reject(w) \/ Rollback(w) \/ Crash(w)
      PROVE  OccurrenceInv'
  BY <1>7, IdleFresh, SameInserts DEF Reject, Rollback, Crash, Deny
<1>8. ASSUME NEW w \in Workers, Commit(w) PROVE OccurrenceInv'
  BY <1>8, CommitOccurrence
<1> QED
  BY <1>1, <1>2, <1>3, <1>4, <1>5, <1>6, <1>7, <1>8
  DEF Next, Step, Tick, DecideLeave, LoadRequest, LoadJob, Workers, vars, tables

\* Where windows lie on the UTC date of their day and no two transactions are
\* about to create a shift for one employee, the daily job, however often it
\* runs, crashes or finds leave given and withdrawn, creates no second shift
\* for an occurrence of the schedule.
THEOREM OneShiftPerOccurrenceAlways ==
    WindowsOnTheirDate /\ OnlyTheJobSchedules =>
        (Spec /\ []OneCreates => []OneShiftPerOccurrence)
<1> SUFFICES ASSUME WindowsOnTheirDate, OnlyTheJobSchedules
             PROVE  Spec /\ []OneCreates => []OneShiftPerOccurrence
  OBVIOUS
<1>1. Init => OccurrenceInv
  BY IdleFresh
  DEF Init, OccurrenceInv, OneShiftPerOccurrence, InsertsNew, Exists, NoRows
<1>2. OccurrenceInv /\ TypeInv /\ OneCreates /\ [Next]_vars => OccurrenceInv'
  BY StepOccurrence
<1>3. OccurrenceInv => OneShiftPerOccurrence
  BY DEF OccurrenceInv
<1> QED
  BY <1>1, <1>2, <1>3, TypeInvCorrect, PTL DEF Spec

-----------------------------------------------------------------------------
(* The hours of a shift.  The log shows them as the intervals between its  *)
(* events; the row has the first event's time and the last one's, and the  *)
(* breaks table its own sum.                                               *)

\* The lengths of the intervals between the events of a log, those of them
\* that begin in a state of S, and their sum.
Gaps(l) == [i \in 1..(Len(l) - 1) |-> l[i + 1].at - l[i].at]
Spots(l, S) == {i \in 1..(Len(l) - 1) : Outcome(l[i].type) \in S}
TimeOf(l, S) == SumFunctionOnSet(Gaps(l), Spots(l, S))

LEMMA LogParts ==
    ASSUME NEW l, l \in Seq(Event)
    PROVE  /\ Len(l) \in Nat /\ DOMAIN l = 1..Len(l)
           /\ \A i \in 1..Len(l) : l[i] \in Event /\ l[i].at \in Nat
<1>1. Len(l) \in Nat /\ DOMAIN l = 1..Len(l) /\ \A i \in 1..Len(l) : l[i] \in Event
  BY LenProperties, ElementOfSeq
<1> QED
  BY <1>1 DEF Event

LEMMA GapsAreNumbers ==
    ASSUME NEW l, l \in Seq(Event), NEW S
    PROVE  Numbers(Gaps(l), Spots(l, S))
<1>1. /\ Len(l) \in Nat /\ \A i \in 1..Len(l) : l[i].at \in Nat
  BY LogParts
<1>2. \A i \in 1..(Len(l) - 1) : i \in 1..Len(l) /\ i + 1 \in 1..Len(l)
  BY <1>1
<1>3. \A i \in 1..(Len(l) - 1) : Gaps(l)[i] = l[i + 1].at - l[i].at
  BY DEF Gaps
<1>4. \A i \in 1..(Len(l) - 1) : Gaps(l)[i] \in Int
  BY <1>1, <1>2, <1>3
<1>5. IsFiniteSet(1..(Len(l) - 1)) /\ Spots(l, S) \in SUBSET (1..(Len(l) - 1))
  BY <1>1, FS_Interval DEF Spots
<1> QED
  BY <1>4, <1>5, FS_Subset DEF Numbers, Spots

LEMMA TimeInIsTimeOf ==
    ASSUME TypeInv, NEW s \in ShiftIds, NEW S
    PROVE  TimeIn(s, S) = TimeOf(log[s], S)
<1> DEFINE l == log[s]
           h == [i \in {j \in 1..(Len(l) - 1) : StateAfter(s, j) \in S} |-> l[i + 1].at - l[i].at]
<1>1. l \in Seq(Event) /\ Len(l) \in Nat
  BY EventOfLog
<1>2. {j \in 1..(Len(l) - 1) : StateAfter(s, j) \in S} = Spots(l, S)
  <2>1. \A j \in 1..(Len(l) - 1) : StateAfter(s, j) = Outcome(l[j].type)
    BY <1>1 DEF StateAfter
  <2> QED
    BY <2>1 DEF Spots
<1>3. DOMAIN h = Spots(l, S) /\ TimeIn(s, S) = SumFunctionOnSet(h, Spots(l, S))
  BY <1>2 DEF TimeIn, SumFunction
<1>4. \A i \in Spots(l, S) : h[i] = Gaps(l)[i]
  BY <1>2 DEF Gaps, Spots
<1>5. Numbers(Gaps(l), Spots(l, S))
  BY <1>1, GapsAreNumbers
<1> HIDE DEF h, l
<1>6. SumFunctionOnSet(h, Spots(l, S)) = SumFunctionOnSet(Gaps(l), Spots(l, S))
  BY <1>4, <1>5, SumAgrees
<1> QED
  BY <1>3, <1>6 DEF TimeOf, l

\* The log m has one event more than the n of l.
OneMore(l, n, m) ==
    /\ l \in Seq(Event) /\ m \in Seq(Event) /\ n = Len(l) /\ n > 0
    /\ Len(m) = n + 1 /\ \A i \in 1..n : m[i] = l[i]

\* To the time in the states of S the log m adds the interval from the last
\* of the n events of l to time t.
Adds(l, n, m, t, S) ==
    /\ TimeOf(l, S) \in Int
    /\ Outcome(l[n].type) \in S => TimeOf(m, S) = TimeOf(l, S) + (t - l[n].at)
    /\ Outcome(l[n].type) \notin S => TimeOf(m, S) = TimeOf(l, S)

\* One more event ends the interval that the last one began.
LEMMA TimeOfOneMore ==
    ASSUME NEW l, NEW n, NEW m, NEW t, NEW S, OneMore(l, n, m), t = m[n + 1].at
    PROVE  Adds(l, n, m, t, S)
<1>0. /\ l \in Seq(Event) /\ m \in Seq(Event) /\ n = Len(l) /\ n > 0
      /\ Len(m) = n + 1 /\ \A i \in 1..n : m[i] = l[i]
  BY DEF OneMore
<1> DEFINE A == Spots(l, S)
           B == Spots(m, S)
           g == Gaps(l)
           h == Gaps(m)
<1>1. n \in Nat
  BY <1>0, LogParts
<1>2. Numbers(g, A) /\ Numbers(h, B)
  BY <1>0, GapsAreNumbers
<1>3. A = {i \in 1..(n - 1) : Outcome(l[i].type) \in S} /\ B = {i \in 1..n : Outcome(m[i].type) \in S}
  BY <1>0, <1>1 DEF Spots
<1>4. \A i \in 1..(n - 1) : g[i] = l[i + 1].at - l[i].at
  BY <1>0, <1>1 DEF Gaps
<1>5. \A i \in 1..n : h[i] = m[i + 1].at - m[i].at
  BY <1>0, <1>1 DEF Gaps
<1>6. \A i \in A : h[i] = g[i]
  <2>1. \A i \in A : i \in 1..(n - 1) /\ i \in 1..n /\ i + 1 \in 1..n
    BY <1>1, <1>3
  <2> QED
    BY <1>0, <1>1, <1>4, <1>5, <2>1
<1>7. TimeOf(l, S) = SumFunctionOnSet(g, A) /\ TimeOf(m, S) = SumFunctionOnSet(h, B)
  BY DEF TimeOf
<1> HIDE DEF g, h, A, B
<1>8. SumFunctionOnSet(h, A) = SumFunctionOnSet(g, A) /\ SumFunctionOnSet(g, A) \in Int
  BY <1>2, <1>6, SumAgrees, SumType
<1>9. ASSUME Outcome(l[n].type) \in S
      PROVE  TimeOf(m, S) = TimeOf(l, S) + (t - l[n].at)
  <2>1. n \in 1..n /\ n \notin 1..(n - 1) /\ m[n] = l[n]
    BY <1>0, <1>1
  <2>2. n \in B /\ B \ {n} = A
    <3>1. \A i \in 1..n : i \in 1..(n - 1) \/ i = n
      BY <1>1
    <3>2. \A i \in 1..(n - 1) : i \in 1..n
      BY <1>1
    <3> QED
      BY <1>0, <1>3, <1>9, <2>1, <3>1, <3>2
  <2>3. SumFunctionOnSet(h, B) = h[n] + SumFunctionOnSet(h, B \ {n})
    BY <1>2, <2>2, SumRemove
  <2>4. h[n] = t - l[n].at /\ h[n] \in Int
    BY <1>2, <1>5, <2>1, <2>2 DEF Numbers
  <2>5. SumFunctionOnSet(h, B) = h[n] + SumFunctionOnSet(g, A)
    BY <1>8, <2>2, <2>3
  <2>6. SumFunctionOnSet(h, B) = SumFunctionOnSet(g, A) + h[n]
    BY <1>8, <2>4, <2>5
  <2> QED
    BY <1>7, <2>4, <2>6
<1>10. ASSUME Outcome(l[n].type) \notin S
       PROVE  TimeOf(m, S) = TimeOf(l, S)
  <2>1. B = A
    <3>1. \A i \in 1..n : i \in 1..(n - 1) \/ i = n
      BY <1>1
    <3>2. \A i \in 1..(n - 1) : i \in 1..n
      BY <1>1
    <3> QED
      BY <1>0, <1>3, <1>10, <3>1, <3>2
  <2> QED
    BY <1>7, <1>8, <2>1
<1> QED
  BY <1>7, <1>8, <1>9, <1>10 DEF Adds

LEMMA TimeOfFirst ==
    ASSUME NEW l, NEW S, l \in Seq(Event), Len(l) \in {0, 1}
    PROVE  TimeOf(l, S) = 0
<1>1. 1..(Len(l) - 1) = {}
  OBVIOUS
<1>2. Spots(l, S) = {}
  BY <1>1 DEF Spots
<1> QED
  BY <1>2, SumOfNone DEF TimeOf

Lasted(brks) == [i \in DOMAIN brks \ OpenBreaks(brks) |-> brks[i].ended_at - brks[i].started_at]

LEMMA BreaksAreNumbers ==
    ASSUME NEW brks, brks \in Seq(Break)
    PROVE  /\ Numbers(Lasted(brks), Over(brks))
           /\ BreakSeconds(brks) = SumFunctionOnSet(Lasted(brks), Over(brks))
           /\ DOMAIN brks = 1..Len(brks) /\ Len(brks) \in Nat
           /\ \A i \in Over(brks) : Lasted(brks)[i] = brks[i].ended_at - brks[i].started_at
<1>1. DOMAIN brks = 1..Len(brks) /\ Len(brks) \in Nat /\ \A i \in 1..Len(brks) : brks[i] \in Break
  BY LenProperties, ElementOfSeq
<1>2. \A i \in Over(brks) : brks[i].ended_at \in Nat /\ brks[i].started_at \in Nat
  BY <1>1 DEF Over, OpenBreaks, Break, OptTime
<1>3. \A i \in Over(brks) : Lasted(brks)[i] = brks[i].ended_at - brks[i].started_at
  BY DEF Over, Lasted
<1>4. IsFiniteSet(1..Len(brks)) /\ Over(brks) \in SUBSET (1..Len(brks))
  BY <1>1, FS_Interval DEF Over
<1>5. BreakSeconds(brks) = SumFunctionOnSet(Lasted(brks), Over(brks))
  BY DEF BreakSeconds, SumFunction, Lasted, Over
<1> QED
  BY <1>1, <1>2, <1>3, <1>4, <1>5, FS_Subset DEF Numbers

\* The same breaks are over and last as long.
LEMMA SameBreaks ==
    ASSUME NEW b, NEW c, b \in Seq(Break), c \in Seq(Break), Over(c) = Over(b),
           \A i \in Over(b) : c[i] = b[i]
    PROVE  BreakSeconds(c) = BreakSeconds(b)
<1>1. /\ Numbers(Lasted(b), Over(b))
      /\ BreakSeconds(b) = SumFunctionOnSet(Lasted(b), Over(b))
      /\ BreakSeconds(c) = SumFunctionOnSet(Lasted(c), Over(b))
      /\ \A i \in Over(b) : Lasted(c)[i] = Lasted(b)[i]
  BY BreaksAreNumbers
<1> QED
  BY <1>1, SumAgrees

LEMMA BreakSecondsType ==
    ASSUME NEW b, b \in Seq(Break) PROVE BreakSeconds(b) \in Int
BY BreaksAreNumbers, SumType

\* One more break is over.
LEMMA BreakEnds ==
    ASSUME NEW b, NEW c, b \in Seq(Break), c \in Seq(Break), NEW i, i \in OpenBreaks(b),
           Over(c) = Over(b) \cup {i}, \A j \in Over(b) : c[j] = b[j],
           c[i].started_at = b[i].started_at
    PROVE  BreakSeconds(c) = BreakSeconds(b) + (c[i].ended_at - b[i].started_at)
<1>1. /\ Numbers(Lasted(b), Over(b)) /\ Numbers(Lasted(c), Over(c))
      /\ BreakSeconds(b) = SumFunctionOnSet(Lasted(b), Over(b))
      /\ BreakSeconds(c) = SumFunctionOnSet(Lasted(c), Over(c))
      /\ \A j \in Over(b) : Lasted(b)[j] = b[j].ended_at - b[j].started_at
      /\ \A j \in Over(c) : Lasted(c)[j] = c[j].ended_at - c[j].started_at
  BY BreaksAreNumbers
<1>2. i \in Over(c) /\ Over(c) \ {i} = Over(b)
  BY DEF Over
<1>3. \A j \in Over(b) : Lasted(c)[j] = Lasted(b)[j]
  BY <1>1
<1>4. SumFunctionOnSet(Lasted(c), Over(b)) = SumFunctionOnSet(Lasted(b), Over(b))
  BY <1>1, <1>3, SumAgrees
<1>5. SumFunctionOnSet(Lasted(c), Over(c)) = Lasted(c)[i] + SumFunctionOnSet(Lasted(c), Over(c) \ {i})
  BY <1>1, <1>2, SumRemove
<1>6. BreakSeconds(b) \in Int /\ Lasted(c)[i] \in Int
  BY <1>1, <1>2, BreakSecondsType DEF Numbers
<1>7. BreakSeconds(c) = Lasted(c)[i] + BreakSeconds(b)
  BY <1>1, <1>2, <1>4, <1>5
<1>8. Lasted(c)[i] = c[i].ended_at - b[i].started_at
  BY <1>1, <1>2
<1> QED
  BY <1>6, <1>7, <1>8
\* The log l of a shift with events becomes l2 by an operation that is not a
\* closing; n is the number of its events.
Logs(l, n, op, row, key, t, l2) ==
    /\ l2 = Logged(l, op, row, key, t) /\ l \in Seq(Event) /\ n = Len(l) /\ n > 0
    /\ op \in Ops /\ op \notin Closings /\ key \in Keys \cup {None} /\ t \in Nat
    /\ ResumesBreak(op, row) => Outcome(l[n].type) = "ON_BREAK"

\* What an operation at time t adds to the time in the states of S: the
\* interval since the last event.  (The BREAK_END a resume records is
\* followed by its RESUME at once.)
LEMMA TimeOfLogged ==
    ASSUME NEW l, NEW n, NEW op, NEW row, NEW key, NEW t, NEW l2, NEW S,
           Logs(l, n, op, row, key, t, l2)
    PROVE  Adds(l, n, l2, t, S)
<1>0. /\ l2 = Logged(l, op, row, key, t) /\ l \in Seq(Event) /\ n = Len(l) /\ n > 0
      /\ op \in Ops /\ op \notin Closings /\ key \in Keys \cup {None} /\ t \in Nat
      /\ ResumesBreak(op, row) => Outcome(l[n].type) = "ON_BREAK"
  BY DEF Logs
<1>1. /\ l2 \in Seq(Event) /\ n \in Nat
      /\ ResumesBreak(op, row) => Len(l2) = n + 2
      /\ ~ ResumesBreak(op, row) => Len(l2) = n + 1
      /\ \A i \in 1..n : l2[i] = l[i]
      /\ ResumesBreak(op, row) => l2[n + 1] = BreakEnd(key, t)
      /\ l2[Len(l2)] = MainEvent(op, key, t)
  BY <1>0, LoggedMain
<1>2. l2[Len(l2)].at = t
  BY <1>1 DEF MainEvent
<1>3. CASE ~ ResumesBreak(op, row)
  <2>1. OneMore(l, n, l2) /\ t = l2[n + 1].at
    BY <1>0, <1>1, <1>2, <1>3 DEF OneMore
  <2> QED
    BY <2>1, TimeOfOneMore
<1>4. CASE ResumesBreak(op, row)
  <2> DEFINE be == BreakEnd(key, t)
             m == Append(l, be)
             k == n + 1
  <2>1. be \in Event /\ be.at = t /\ Outcome(be.type) = "ON_BREAK"
    BY <1>0 DEF Event, EventTypes, BreakEndKey, BreakEnd, Outcome
  <2> HIDE DEF be
  <2>2. /\ m \in Seq(Event) /\ Len(m) = n + 1 /\ \A i \in 1..n : m[i] = l[i]
        /\ m[n + 1] = be
    BY <1>0, <2>1, AppendOne
  <2> HIDE DEF m
  <2>3. OneMore(l, n, m) /\ t = m[n + 1].at
    BY <1>0, <2>1, <2>2 DEF OneMore
  <2>4. Adds(l, n, m, t, S)
    BY <2>3, TimeOfOneMore
  <2>5. \A i \in 1..(n + 1) : l2[i] = m[i]
    <3>1. \A i \in 1..(n + 1) : i \in 1..n \/ i = n + 1
      BY <1>1
    <3> QED
      BY <1>1, <1>4, <2>2, <3>1 DEF be
  <2>6. OneMore(m, k, l2) /\ t = l2[k + 1].at /\ m[k].at = t /\ Outcome(m[k].type) = "ON_BREAK"
    BY <1>1, <1>2, <1>4, <2>1, <2>2, <2>5 DEF OneMore
  <2> HIDE DEF k
  <2>7. Adds(m, k, l2, t, S)
    BY <2>6, TimeOfOneMore
  <2>8. TimeOf(l2, S) = TimeOf(m, S)
    <3>1. \A x \in Int : x + (t - t) = x
      BY <1>0
    <3>2. "ON_BREAK" \in S => TimeOf(l2, S) = TimeOf(m, S) + (t - t)
      BY <2>6, <2>7 DEF Adds
    <3> QED
      BY <2>6, <2>7, <3>1, <3>2 DEF Adds
  <2> QED
    BY <2>4, <2>8 DEF Adds
<1> QED
  BY <1>3, <1>4

AtWork == {"WORKING", "PAUSED"}
OnBreak == {"ON_BREAK"}
LastAt(l) == l[Len(l)].at

\* The row and the breaks table tell the hours as the log does, up to its
\* last event, where an open break began and an end has its time.
Timed(s) ==
    LET row == shifts[s] IN
    /\ row.state \in WAITING \cup RUNNING => row.actual_end = None
    /\ row.actual_end # None => Len(log[s]) > 0 /\ row.actual_end = LastAt(log[s])
    /\ Len(log[s]) > 0 =>
          /\ row.actual_start = log[s][1].at
          /\ TimeOf(log[s], AtWork) + TimeOf(log[s], OnBreak) = LastAt(log[s]) - log[s][1].at
    /\ BreakSeconds(breaks[s]) = TimeOf(log[s], OnBreak)
    /\ \A i \in OpenBreaks(breaks[s]) :
          Len(log[s]) > 0 /\ breaks[s][i].started_at = LastAt(log[s])

TimedInv == \A s \in ShiftIds : Exists(s) => Timed(s)

LEMMA OperatedTimed ==
    ASSUME TypeInv, FreshInv, HistoryInv, NEW w \in Workers, NEW s \in ShiftIds,
           txn[w].pc = "ready", Operated(txn[w], s), Timed(s)
    PROVE  Timed(s)'
<1> DEFINE tx == txn[w]
           op == AppliedOp(tx, s)
           l == log[s]
           k == log'[s]
           b == breaks[s]
           c == breaks'[s]
           n == Len(l)
           t == tx.at
           state == shifts[s].state
<1>1. /\ op \in Ops /\ k = Logged(l, op, tx.old[s], tx.key, t)
      /\ tx.key \in Keys \cup {None} /\ t \in Nat /\ l \in Seq(Event)
  BY DEF Operated, TypeInv, TypeOK, Txn
<1>2. /\ tx.old[s] = shifts[s] /\ Exists(s) /\ state \in From(op)
      /\ shifts'[s].state = Target(op)
      /\ shifts'[s].actual_start = IF op \in Starts THEN t ELSE shifts[s].actual_start
      /\ shifts'[s].actual_end = IF op \in Ends THEN t ELSE shifts[s].actual_end
  BY OperatedRow
<1>3. Explained(s) /\ RowOK(s)
  BY <1>2, HistoryOfShifts DEF HistoryInv
<1>4. /\ b \in Seq(Break) /\ c \in Seq(Break)
      /\ BreaksStep(op, state, b, c, t)
  BY OperatedBreaks
<1>5. /\ state \in WAITING \cup RUNNING => shifts[s].actual_end = None
      /\ n > 0 => /\ shifts[s].actual_start = l[1].at
                  /\ TimeOf(l, AtWork) + TimeOf(l, OnBreak) = l[n].at - l[1].at
      /\ BreakSeconds(b) = TimeOf(l, OnBreak)
      /\ \A i \in OpenBreaks(b) : b[i].started_at = l[n].at
  BY DEF Timed, LastAt
<1>6. n \in Nat /\ (n = 0 <=> l = <<>>)
  BY <1>1, LogParts, EmptySeq
<1>7. state = IF n = 0 THEN "AVAILABLE" ELSE Outcome(l[n].type)
  <2>1. state \notin {"MISSED", "CANCELLED"}
    BY <1>1, <1>2 DEF From, Ops, Starts, Closings, Ends, WAITING, RUNNING
  <2> QED
    BY <1>3, <2>1 DEF Explained, StateAfter
<1>8. state \in WAITING => n = 0
  BY <1>3, <1>6 DEF RowOK, WAITING
<1>9. state \in WAITING => op \in Starts \cup Closings
  BY <1>1, <1>2 DEF From, Ops, Starts, Closings, Ends, WAITING, RUNNING
<1>10. op \in Starts \cup Closings => state \in WAITING
  BY <1>1, <1>2 DEF From, Ops, Starts, Closings, Ends
<1>11. state \notin WAITING => state \in RUNNING
  BY <1>1, <1>2 DEF From, Ops, Starts, Closings, Ends, WAITING, RUNNING
<1>12. /\ op \in Ends => op \notin Starts /\ Target(op) \notin WAITING \cup RUNNING
       /\ op = "break" => op \notin Closings /\ op \notin Starts
  BY DEF Target, Starts, Closings, Ends, WAITING, RUNNING
<1>13. Timed(s)' <=>
         /\ Target(op) \in WAITING \cup RUNNING => shifts'[s].actual_end = None
         /\ shifts'[s].actual_end # None => Len(k) > 0 /\ shifts'[s].actual_end = LastAt(k)
         /\ Len(k) > 0 => /\ shifts'[s].actual_start = k[1].at
                          /\ TimeOf(k, AtWork) + TimeOf(k, OnBreak) = LastAt(k) - k[1].at
         /\ BreakSeconds(c) = TimeOf(k, OnBreak)
         /\ \A i \in OpenBreaks(c) : Len(k) > 0 /\ c[i].started_at = LastAt(k)
  BY <1>2 DEF Timed
<1>14. op \notin Closings =>
         /\ k \in Seq(Event) /\ Len(k) > n
         /\ ~ ResumesBreak(op, shifts[s]) => Len(k) = n + 1
         /\ \A i \in 1..n : k[i] = l[i]
         /\ LastAt(k) = t
  <2> SUFFICES ASSUME op \notin Closings
               PROVE  /\ k \in Seq(Event) /\ Len(k) > n
                      /\ ~ ResumesBreak(op, shifts[s]) => Len(k) = n + 1
                      /\ \A i \in 1..n : k[i] = l[i]
                      /\ LastAt(k) = t
    OBVIOUS
  <2> HIDE DEF tx, op, l, k, b, c, t, state
  <2>1. /\ k \in Seq(Event)
        /\ ResumesBreak(op, shifts[s]) => Len(k) = n + 2
        /\ ~ ResumesBreak(op, shifts[s]) => Len(k) = n + 1
        /\ \A i \in 1..n : k[i] = l[i]
        /\ k[Len(k)] = MainEvent(op, tx.key, t)
    BY <1>1, <1>2, LoggedMain
  <2> QED
    BY <1>6, <2>1 DEF LastAt, MainEvent
<1>15. state \notin WAITING =>
         /\ TimeOf(l, AtWork) \in Int /\ TimeOf(l, OnBreak) \in Int
         /\ state = "ON_BREAK" => /\ TimeOf(k, AtWork) = TimeOf(l, AtWork)
                                  /\ TimeOf(k, OnBreak) = TimeOf(l, OnBreak) + (t - l[n].at)
         /\ state # "ON_BREAK" => /\ TimeOf(k, AtWork) = TimeOf(l, AtWork) + (t - l[n].at)
                                  /\ TimeOf(k, OnBreak) = TimeOf(l, OnBreak)
  <2> SUFFICES ASSUME state \notin WAITING
               PROVE  /\ TimeOf(l, AtWork) \in Int /\ TimeOf(l, OnBreak) \in Int
                      /\ state = "ON_BREAK" => /\ TimeOf(k, AtWork) = TimeOf(l, AtWork)
                                               /\ TimeOf(k, OnBreak) = TimeOf(l, OnBreak) + (t - l[n].at)
                      /\ state # "ON_BREAK" => /\ TimeOf(k, AtWork) = TimeOf(l, AtWork) + (t - l[n].at)
                                               /\ TimeOf(k, OnBreak) = TimeOf(l, OnBreak)
    OBVIOUS
  <2>1. state = Outcome(l[n].type) /\ n > 0 /\ op \notin Closings
    BY <1>6, <1>7, <1>10 DEF WAITING
  <2>2. ResumesBreak(op, shifts[s]) => Outcome(l[n].type) = "ON_BREAK"
    BY <2>1 DEF ResumesBreak
  <2>3. /\ state = "ON_BREAK" => state \notin AtWork /\ state \in OnBreak
        /\ state # "ON_BREAK" => state \in AtWork /\ state \notin OnBreak
    BY <1>11 DEF AtWork, OnBreak, RUNNING
  <2> HIDE DEF tx, op, l, k, b, c, t, state
  <2>4. ASSUME NEW S
        PROVE  /\ TimeOf(l, S) \in Int
               /\ state \in S => TimeOf(k, S) = TimeOf(l, S) + (t - l[n].at)
               /\ state \notin S => TimeOf(k, S) = TimeOf(l, S)
    <3>1. Logs(l, n, op, shifts[s], tx.key, t, k)
      BY <1>1, <1>2, <2>1, <2>2 DEF Logs
    <3> HIDE DEF n
    <3>2. Adds(l, n, k, t, S)
      BY <3>1, TimeOfLogged
    <3> QED
      BY <2>1, <3>2 DEF Adds
  <2>5. /\ TimeOf(l, AtWork) \in Int
        /\ state \in AtWork => TimeOf(k, AtWork) = TimeOf(l, AtWork) + (t - l[n].at)
        /\ state \notin AtWork => TimeOf(k, AtWork) = TimeOf(l, AtWork)
    BY <2>4
  <2>6. /\ TimeOf(l, OnBreak) \in Int
        /\ state \in OnBreak => TimeOf(k, OnBreak) = TimeOf(l, OnBreak) + (t - l[n].at)
        /\ state \notin OnBreak => TimeOf(k, OnBreak) = TimeOf(l, OnBreak)
    BY <2>4
  <2> QED
    BY <2>3, <2>5, <2>6
<1>16. op \in Closings => k = l
  <2> HIDE DEF tx, op, l, k, b, c, t, state
  <2> QED
    BY <1>1, LoggedClosing
<1>17. ~ ResumesBreak(op, shifts[s]) \/ state = "ON_BREAK"
  BY DEF ResumesBreak
<1> HIDE DEF tx, op, l, k, b, c, n, t, state
<1>18. CASE state \in WAITING
  <2>1. n = 0 /\ l = <<>> /\ op \in Starts \cup Closings /\ op # "break" /\ state # "ON_BREAK"
    BY <1>6, <1>8, <1>9, <1>12, <1>18 DEF WAITING
  <2>2. OpenBreaks(c) = {} /\ c = b
    BY <1>4, <2>1 DEF BreaksStep
  <2>3. BreakSeconds(c) = 0
    <3>1. TimeOf(l, OnBreak) = 0
      BY <1>1, <2>1, TimeOfFirst DEF n
    <3> QED
      BY <1>5, <2>2, <3>1
  <2>4. op \notin Ends /\ shifts'[s].actual_end = None
    BY <1>2, <1>5, <1>12, <1>10, <2>1, <1>18 DEF Starts, Closings, Ends
  <2>5. CASE op \in Closings
    <3>1. k = l /\ Len(k) = 0 /\ TimeOf(k, OnBreak) = 0
      BY <1>1, <1>16, <2>1, <2>5, TimeOfFirst DEF n
    <3> QED
      BY <1>13, <2>2, <2>3, <2>4, <3>1
  <2>6. CASE op \notin Closings
    <3>1. op \in Starts /\ Len(k) = 1 /\ k \in Seq(Event) /\ LastAt(k) = t
      BY <1>14, <1>17, <2>1, <2>6
    <3>2. TimeOf(k, OnBreak) = 0 /\ TimeOf(k, AtWork) = 0
      BY <3>1, TimeOfFirst
    <3>3. k[1].at = t /\ shifts'[s].actual_start = t
      BY <1>2, <3>1 DEF LastAt
    <3> QED
      BY <1>1, <1>13, <2>2, <2>3, <2>4, <3>1, <3>2, <3>3
  <2> QED
    BY <2>5, <2>6
<1>19. CASE state \notin WAITING
  <2>1. /\ op \notin Closings /\ op \notin Starts /\ n > 0 /\ Len(k) > n /\ k[1] = l[1]
        /\ LastAt(k) = t /\ 1 \in 1..n
    BY <1>6, <1>7, <1>10, <1>14, <1>19 DEF WAITING
  <2>2. shifts'[s].actual_start = k[1].at
    BY <1>2, <1>5, <2>1
  <2>3. l[n].at \in Nat /\ l[1].at \in Nat
    <3>1. n \in 1..n
      BY <1>6, <2>1
    <3> QED
      BY <1>1, <2>1, <3>1, LogParts DEF n
  <2>4. TimeOf(k, AtWork) + TimeOf(k, OnBreak) = LastAt(k) - k[1].at
    <3>1. /\ TimeOf(l, AtWork) \in Int /\ TimeOf(l, OnBreak) \in Int
          /\ TimeOf(l, AtWork) + TimeOf(l, OnBreak) = l[n].at - l[1].at
      BY <1>5, <1>15, <1>19, <2>1
    <3>2. LastAt(k) - k[1].at = t - l[1].at
      BY <2>1
    <3>4. TimeOf(k, AtWork) + TimeOf(k, OnBreak) = t - l[1].at
      <4>0. /\ TimeOf(l, AtWork) + (TimeOf(l, OnBreak) + (t - l[n].at)) = t - l[1].at
            /\ (TimeOf(l, AtWork) + (t - l[n].at)) + TimeOf(l, OnBreak) = t - l[1].at
        <5> DEFINE x == TimeOf(l, AtWork)
                   y == TimeOf(l, OnBreak)
                   u == l[n].at
                   v == l[1].at
        <5>1. x \in Int /\ y \in Int /\ u \in Nat /\ v \in Nat /\ x + y = u - v
          BY <2>3, <3>1
        <5> HIDE DEF x, y, u, v
        <5>2. x + (y + (t - u)) = t - v /\ (x + (t - u)) + y = t - v
          BY <1>1, <5>1
        <5> QED
          BY <5>2 DEF x, y, u, v
      <4>1. CASE state = "ON_BREAK"
        <5>1. /\ TimeOf(k, AtWork) = TimeOf(l, AtWork)
              /\ TimeOf(k, OnBreak) = TimeOf(l, OnBreak) + (t - l[n].at)
          BY <1>15, <1>19, <4>1
        <5> QED
          BY <4>0, <5>1, Zenon
      <4>2. CASE state # "ON_BREAK"
        <5>1. /\ TimeOf(k, AtWork) = TimeOf(l, AtWork) + (t - l[n].at)
              /\ TimeOf(k, OnBreak) = TimeOf(l, OnBreak)
          BY <1>15, <1>19, <4>2
        <5> QED
          BY <4>0, <5>1, Zenon
      <4> QED
        BY <4>1, <4>2
    <3> QED
      BY <3>2, <3>4
  <2>5. /\ Target(op) \in WAITING \cup RUNNING => shifts'[s].actual_end = None
        /\ shifts'[s].actual_end # None => shifts'[s].actual_end = LastAt(k)
    BY <1>2, <1>5, <1>11, <1>12, <1>19, <2>1
  <2>6. BreakSeconds(c) = TimeOf(k, OnBreak)
    <3>1. CASE state = "ON_BREAK"
      <4>1. PICK i : /\ OpenBreaks(b) = {i}
                     /\ Over(c) = Over(b) \cup {i} /\ \A j \in Over(b) : c[j] = b[j]
                     /\ c[i].started_at = b[i].started_at /\ c[i].ended_at = t
        BY <1>4, <3>1 DEF BreaksStep
      <4>2. i \in OpenBreaks(b) /\ b[i].started_at = l[n].at
        BY <1>5, <4>1
      <4>3. BreakSeconds(c) = BreakSeconds(b) + (c[i].ended_at - b[i].started_at)
        BY <1>4, <4>1, <4>2, BreakEnds
      <4> QED
        BY <1>5, <1>15, <1>19, <3>1, <4>1, <4>2, <4>3
    <3>2. CASE op = "break"
      <4>1. state # "ON_BREAK" /\ Over(c) = Over(b) /\ \A j \in Over(b) : c[j] = b[j]
        BY <1>4, <3>2 DEF BreaksStep
      <4>2. BreakSeconds(c) = BreakSeconds(b)
        BY <1>4, <4>1, SameBreaks
      <4> QED
        BY <1>5, <1>15, <1>19, <4>1, <4>2
    <3>3. CASE op # "break" /\ state # "ON_BREAK"
      BY <1>4, <1>5, <1>15, <1>19, <3>3 DEF BreaksStep
    <3> QED
      BY <3>1, <3>2, <3>3
  <2>7. \A i \in OpenBreaks(c) : c[i].started_at = t
    BY <1>4 DEF BreaksStep
  <2>8. Len(k) > 0
    BY <1>6, <1>14, <2>1, LogParts
  <2> QED
    BY <1>13, <2>1, <2>2, <2>4, <2>5, <2>6, <2>7, <2>8
<1> QED
  BY <1>18, <1>19
LEMMA CommitTimed ==
    ASSUME Base, HistoryInv, TimedInv, NEW w \in Workers, Commit(w)
    PROVE  TimedInv'
<1> SUFFICES ASSUME NEW s \in ShiftIds, Exists(s)' PROVE Timed(s)'
  BY DEF TimedInv
<1> DEFINE tx == txn[w]
<1>1. TypeInv /\ DecidedInv /\ FreshInv /\ tx.pc = "ready"
  BY DEF Base, Commit
<1>2. Created(tx, s) \/ Operated(tx, s) \/ Kept(tx, s)
  BY <1>1, CommitOnShift DEF DecidedInv
<1>3. CASE Created(tx, s)
  <2>1. /\ shifts'[s] = tx.ins[s[1]] /\ s[1] \in Employees /\ tx.ins[s[1]] # None
        /\ log'[s] = <<>> /\ breaks'[s] = <<>>
    BY <1>1, <1>3 DEF Created, DecidedInv, NothingBeforeCreation, ShiftIds
  <2>2. shifts'[s].actual_end = None
    BY <1>1, <2>1 DEF DecidedInv, TxnDecided
  <2>3. <<>> \in Seq(Event) /\ Len(<<>>) = 0 /\ <<>> \in Seq(Break)
    BY EmptySeq
  <2>4. TimeOf(log'[s], OnBreak) = 0
    BY <2>1, <2>3, TimeOfFirst
  <2>5. OpenBreaks(breaks'[s]) = {} /\ BreakSeconds(breaks'[s]) = 0
    <3>1. Over(<<>>) = {} /\ OpenBreaks(<<>>) = {}
      BY DEF Over, OpenBreaks
    <3>2. BreakSeconds(<<>>) = SumFunctionOnSet(Lasted(<<>>), {})
      BY <2>3, <3>1, BreaksAreNumbers
    <3> QED
      BY <2>1, <3>1, <3>2, SumOfNone
  <2> QED
    BY <2>1, <2>2, <2>3, <2>4, <2>5 DEF Timed
<1>4. CASE Operated(tx, s)
  <2>1. Timed(s)
    BY <1>4 DEF Operated, TimedInv
  <2> QED
    BY <1>1, <1>4, <2>1, OperatedTimed
<1>5. CASE Kept(tx, s)
  BY <1>5 DEF Kept, TimedInv, Timed, Exists
<1> QED
  BY <1>2, <1>3, <1>4, <1>5

LEMMA TimedAlways == Spec /\ []Separate => [](Base /\ HistoryInv /\ TimedInv)
<1>1. Init => TimedInv
  BY DEF Init, NoRows, Exists, TimedInv
<1>2. TimedInv /\ Base /\ HistoryInv /\ [Next]_vars => TimedInv'
  <2> SUFFICES ASSUME TimedInv, Base, HistoryInv, [Next]_vars PROVE TimedInv'
    OBVIOUS
  <2>1. CASE UNCHANGED tables
    BY <2>1 DEF tables, TimedInv, Timed, Exists
  <2> QED
    BY <2>1, CommitTimed, OnlyCommitsWrite
<1>3. Spec /\ []Separate => []Base
  BY BaseAlways
<1>4. Spec /\ []Separate => []HistoryInv
  BY HistoryAlways
<1> QED
  BY <1>1, <1>2, <1>3, <1>4, PTL DEF Spec

\* In a log whose times never go back no interval is negative.
LEMMA TimeIsPositive ==
    ASSUME NEW l, l \in Seq(Event), NEW S,
           \A i \in DOMAIN l : i > 1 => l[i - 1].at =< l[i].at
    PROVE  TimeOf(l, S) \in Int /\ TimeOf(l, S) >= 0
<1>1. /\ Len(l) \in Nat /\ DOMAIN l = 1..Len(l) /\ \A i \in 1..Len(l) : l[i].at \in Nat
  BY LogParts
<1>2. Numbers(Gaps(l), Spots(l, S))
  BY GapsAreNumbers
<1>3. ASSUME NEW i \in 1..(Len(l) - 1) PROVE Gaps(l)[i] >= 0
  <2>1. i \in 1..Len(l) /\ i + 1 \in 1..Len(l) /\ i + 1 > 1 /\ (i + 1) - 1 = i
    BY <1>1
  <2>2. l[i].at =< l[i + 1].at
    BY <1>1, <2>1
  <2>3. Gaps(l)[i] = l[i + 1].at - l[i].at
    BY DEF Gaps
  <2> QED
    BY <1>1, <2>1, <2>2, <2>3
<1>4. \A i \in Spots(l, S) : Gaps(l)[i] >= 0
  BY <1>3 DEF Spots
<1>5. TimeOf(l, S) \in Int
  BY <1>2, SumType DEF TimeOf
<1>6. 0 =< SumFunctionOnSet(Gaps(l), Spots(l, S))
  <2>1. Spots(l, S) \in SUBSET Spots(l, S)
    OBVIOUS
  <2> QED
    BY <1>2, <1>4, <2>1, SumGrows
<1> QED
  BY <1>5, <1>6 DEF TimeOf

\* While no two transactions work on one shift, the worked time of a shift that has
\* ended, which attendance computes from the row and the breaks table, is the
\* time its events show outside breaks, and its breaks last as long as the
\* events say: no break reaches out of the shift and no two overlap, however
\* the shift was paused, resent, forced to stop or ended by the job.
THEOREM WorkedTimeMatchesLogAlways == Spec /\ []Separate => []WorkedTimeMatchesLog
<1>1. ASSUME Base, HistoryInv, TimedInv PROVE WorkedTimeMatchesLog
  <2> SUFFICES ASSUME NEW s \in ShiftIds, Exists(s), shifts[s].actual_end # None
               PROVE  /\ WorkedSeconds(shifts[s], breaks[s], 0) = TimeIn(s, AtWork)
                      /\ BreakSeconds(breaks[s]) = TimeIn(s, OnBreak)
    BY DEF WorkedTimeMatchesLog, AtWork, OnBreak
  <2> DEFINE l == log[s]
             row == shifts[s]
             worked == TimeOf(l, AtWork)
             paused == TimeOf(l, OnBreak)
  <2>1. TypeInv
    BY <1>1 DEF Base
  <2>2. Timed(s) /\ Explained(s)
    BY <1>1, <2>1, HistoryOfShifts DEF HistoryInv, TimedInv
  <2>3. l \in Seq(Event) /\ Len(l) \in Nat /\ \A i \in 1..Len(l) : l[i].at \in Nat
    BY <2>1, EventOfLog, LogParts
  <2>4. /\ Len(l) > 0 /\ row.actual_end = l[Len(l)].at /\ row.actual_start = l[1].at
        /\ worked + paused = l[Len(l)].at - l[1].at
        /\ BreakSeconds(breaks[s]) = paused
    BY <2>2 DEF Timed, LastAt
  <2>5. l[Len(l)].at \in Nat /\ l[1].at \in Nat
    <3>1. Len(l) \in 1..Len(l) /\ 1 \in 1..Len(l)
      BY <2>3, <2>4
    <3> QED
      BY <2>3, <3>1
  <2>6. worked \in Int /\ worked >= 0 /\ paused \in Int
    <3>1. \A i \in DOMAIN l : i > 1 => l[i - 1].at =< l[i].at
      BY <2>2 DEF Explained
    <3> QED
      BY <2>3, <3>1, TimeIsPositive
  <2>7. TimeIn(s, AtWork) = worked /\ TimeIn(s, OnBreak) = paused
    BY <2>1, TimeInIsTimeOf
  <2>8. row.actual_start # None
    BY <2>4, <2>5, PoliciesAssumption
  <2>9. WorkedSeconds(row, breaks[s], 0)
          = AtLeastZero(AtLeastZero(l[Len(l)].at - l[1].at - paused) - 0)
    BY <2>4, <2>8 DEF WorkedSeconds
  <2> HIDE DEF l, row, worked, paused
  <2>10. l[Len(l)].at - l[1].at - paused = worked
    BY <2>4, <2>5, <2>6
  <2>11. AtLeastZero(AtLeastZero(worked) - 0) = worked
    BY <2>6 DEF AtLeastZero
  <2> QED
    BY <2>4, <2>7, <2>9, <2>10, <2>11 DEF row
<1> QED
  BY <1>1, TimedAlways, PTL
=============================================================================
