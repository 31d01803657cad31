------------------------ MODULE ShiftLifecycle_proofs ------------------------
(***************************************************************************)
(* What TLAPS proves of ShiftLifecycle, for every set of employees,        *)
(* workers, requests and policies, every schedule and every bound.         *)
(***************************************************************************)
EXTENDS ShiftProperties, SequenceTheorems, FiniteSetTheorems, TLAPS

-----------------------------------------------------------------------------
(* The operators of ShiftRules *)

LEMMA AfterType ==
    ASSUME NEW op \in Ops, NEW row \in Row, NEW t \in Nat
    PROVE  After(op, row, t) \in Row
<1>1. Target(op) \in States
  BY DEF Ops, Starts, Ends, Closings, Target, States, WAITING, RUNNING, TERMINAL_STATES
<1>2. row.version + 1 \in Nat
  BY DEF Row
<1> QED
  BY <1>1, <1>2 DEF After, Row, OptTime

LEMMA FlushType ==
    ASSUME NEW current \in Row, NEW old \in Row, NEW new \in Row
    PROVE  Flush(current, old, new) \in Row
BY DEF Flush, Column, Row

LEMMA FlushNothing ==
    ASSUME NEW current \in Row, NEW old
    PROVE  Flush(current, old, old) = current
<1>1. Flush(current, old, old) =
        [current EXCEPT !.state = current.state, !.version = current.version,
                        !.actual_start = current.actual_start,
                        !.actual_end = current.actual_end]
  BY DEF Flush, Column
<1> QED
  BY <1>1 DEF Row

LEMMA NewRowType ==
    ASSUME NEW p \in Policies,
           NEW window \in [start: 0..MaxTime, end: Nat] \cup {None}
    PROVE  NewRow(window, p) \in Row
BY BoundsAssumption DEF NewRow, Row, OptTime, States, WAITING

LEMMA EventsType ==
    ASSUME NEW op \in Ops, NEW row, NEW key \in Keys \cup {None}, NEW t \in Nat
    PROVE  EventsOf(op, row, key, t) \in Seq(Event)
<1> DEFINE main == [type |-> EventType(op), key |-> key, at |-> t]
           be == [type |-> "BREAK_END", key |-> BreakEndKey(key), at |-> t]
<1>1. op \notin Closings => main \in Event
  BY DEF Ops, Starts, Ends, Closings, EventType, Event, EventTypes
<1>2. be \in Event
  BY DEF Event, EventTypes, BreakEndKey
<1> QED
  BY <1>1, <1>2 DEF EventsOf

LEMMA BreaksType ==
    ASSUME NEW op \in Ops, NEW row \in Row, NEW brks \in Seq(Break),
           NEW i \in Nat, NEW t \in Nat
    PROVE  BreaksAfter(op, row, brks, i, t) \in Seq(Break)
<1>1. CASE op = "break"
  <2> DEFINE b == [started_at |-> t, ended_at |-> None,
                   max |-> row.policy.max_break, exceeded |-> FALSE]
  <2>1. row.policy.max_break \in OptTime
    BY PoliciesAssumption DEF Row, PolicyRecords
  <2>2. b \in Break
    BY <2>1 DEF Break, OptTime
  <2> QED
    BY <1>1, <2>2 DEF BreaksAfter
<1>2. CASE op # "break" /\ i \in DOMAIN brks
  <2>1. brks[i] \in Break
    BY <1>2
  <2>2. Closed(op, brks[i], t) \in Break
    BY <2>1 DEF Closed, Break, OptTime
  <2> QED
    BY <1>2, <2>2 DEF BreaksAfter
<1>3. CASE op # "break" /\ i \notin DOMAIN brks
  BY <1>3 DEF BreaksAfter
<1> QED
  BY <1>1, <1>2, <1>3

-----------------------------------------------------------------------------
(* Types.  TypeOK is not inductive: that a commit writes rows needs to know *)
(* that the rows a transaction has loaded still exist, that a decided       *)
(* transaction has a new row for each of them, and that creation loads none.*)

TxnOK ==
    \A w \in Workers :
        /\ txn[w].op \notin RequestOps \cup JobOps => Loaded(txn[w]) = {}
        /\ \A s \in Loaded(txn[w]) :
              Exists(s) /\ (txn[w].pc = "ready" => txn[w].new[s] # None)

TypeInv == TypeOK /\ TxnOK

LEMMA IdleType == IdleTxn \in Txn
BY DEF IdleTxn, Txn, NoRows, OptRow

LEMMA InitType == Init => TypeInv
<1> SUFFICES ASSUME Init PROVE TypeInv
  OBVIOUS
<1>1. <<>> \in Seq(Break) /\ <<>> \in Seq(Event)
  OBVIOUS
<1>2. TypeOK
  BY <1>1, IdleType, BoundsAssumption DEF Init, TypeOK, NoRows, OptRow
<1>3. TxnOK
  BY DEF Init, TxnOK, Loaded, IdleTxn, NoRows
<1> QED
  BY <1>2, <1>3 DEF TypeInv

\* The steps that write no table: worker w gets the transaction tx.
LEMMA TxnStepType ==
    ASSUME TypeInv, NEW w \in Workers, NEW tx \in Txn,
           txn' = [txn EXCEPT ![w] = tx],
           UNCHANGED <<clock, tables, leave>>, crashes' \in 0..MaxCrashes,
           tx.op \notin RequestOps \cup JobOps => Loaded(tx) = {},
           \A s \in Loaded(tx) : Exists(s) /\ (tx.pc = "ready" => tx.new[s] # None)
    PROVE  TypeInv'
<1>1. TypeOK'
  BY DEF TypeInv, TypeOK, tables
<1>2. txn'[w] = tx /\ \A v \in Workers \ {w} : txn'[v] = txn[v]
  BY DEF TypeInv, TypeOK
<1>3. TxnOK'
  BY <1>2 DEF TypeInv, TxnOK, tables, Exists, Loaded
<1> QED
  BY <1>1, <1>3 DEF TypeInv

LEMMA IdleHoldsNothing == Loaded(IdleTxn) = {}
BY DEF Loaded, IdleTxn, NoRows

LEMMA DenyType ==
    ASSUME TypeInv, NEW w \in Workers, Deny(w),
           UNCHANGED <<clock, tables, leave>>, crashes' \in 0..MaxCrashes
    PROVE  TypeInv'
BY IdleType, IdleHoldsNothing, TxnStepType DEF Deny

LEMMA LoadType ==
    ASSUME TypeInv, NEW w \in Workers, NEW op \in RequestOps \cup JobOps,
           NEW key \in Keys \cup {None}, NEW S \in SUBSET ShiftIds,
           Load(w, op, key, S)
    PROVE  TypeInv'
<1> DEFINE tx == [IdleTxn EXCEPT !.pc = "loaded", !.op = op, !.key = key,
                                 !.old = [s \in ShiftIds |->
                                            IF s \in S THEN shifts[s] ELSE None]]
<1>1. txn' = [txn EXCEPT ![w] = tx] /\ UNCHANGED <<clock, tables, leave, crashes>>
  BY DEF Load
<1>2. tx \in Txn
  BY IdleType DEF TypeInv, TypeOK, Txn, OptRow
<1>3. /\ tx.op \in RequestOps \cup JobOps /\ tx.pc # "ready"
      /\ \A s \in Loaded(tx) : Exists(s)
  BY IdleType DEF Loaded, Exists, Txn
<1>4. crashes' \in 0..MaxCrashes
  BY <1>1 DEF TypeInv, TypeOK
<1> HIDE DEF tx
<1> QED
  BY <1>1, <1>2, <1>3, <1>4, TxnStepType

LEMMA ClockIsNat == ASSUME TypeInv PROVE clock \in Nat
BY BoundsAssumption DEF TypeInv, TypeOK

LEMMA InsertType ==
    ASSUME TypeInv, NEW w \in Workers, NEW op \in {"create", "ensure"},
           NEW ins \in [Employees -> OptRow], Insert(w, op, ins)
    PROVE  TypeInv'
<1> DEFINE tx == [IdleTxn EXCEPT !.pc = "ready", !.op = op, !.at = clock,
                                 !.ins = ins]
<1>1. txn' = [txn EXCEPT ![w] = tx] /\ UNCHANGED <<clock, tables, leave, crashes>>
  BY DEF Insert
<1>2. tx \in Txn
  BY IdleType, ClockIsNat DEF Txn
<1>3. Loaded(tx) = {}
  BY DEF Loaded, IdleTxn, NoRows
<1>4. crashes' \in 0..MaxCrashes
  BY <1>1 DEF TypeInv, TypeOK
<1> HIDE DEF tx
<1> QED
  BY <1>1, <1>2, <1>3, <1>4, TxnStepType

LEMMA ClockIsInDays == ASSUME clock \in 0..MaxTime PROVE Date(clock) \in Days
BY BoundsAssumption DEF Date, Days

LEMMA ScheduledRowType ==
    ASSUME NEW e \in Employees, NEW d \in Days, NEW p \in Policies
    PROVE  NewRow(Schedule[<<e, d>>], p) \in Row
<1>1. Schedule[<<e, d>>] \in [start: 0..MaxTime, end: Nat] \cup {None}
  BY ScheduleAssumption
<1> QED
  BY <1>1, NewRowType

LEMMA CreateType ==
    ASSUME TypeInv, NEW w \in ApiWorkers, LoadCreate(w)
    PROVE  TypeInv'
<1>1. PICK e \in Employees, d \in ManualDays, p \in Policies :
         Insert(w, "create", [IdleTxn.ins EXCEPT ![e] = NewRow(Schedule[<<e, d>>], p)])
  BY DEF LoadCreate
<1>2. NewRow(Schedule[<<e, d>>], p) \in Row
  BY ScheduledRowType, BoundsAssumption
<1>3. [IdleTxn.ins EXCEPT ![e] = NewRow(Schedule[<<e, d>>], p)]
         \in [Employees -> OptRow]
  BY <1>2, IdleType DEF Txn, OptRow
<1> QED
  BY <1>1, <1>3, InsertType DEF Workers

LEMMA EnsureType ==
    ASSUME TypeInv, NEW w \in JobWorkers, LoadEnsure(w)
    PROVE  TypeInv'
<1> DEFINE today == Date(clock)
           due == {e \in Employees : NeedsShift(e, today)}
           ins(p) == [e \in Employees |->
                        IF e \in due THEN NewRow(Schedule[<<e, today>>], p) ELSE None]
<1>1. PICK p \in Policies : Insert(w, "ensure", ins(p))
  BY DEF LoadEnsure
<1>2. today \in Days
  BY ClockIsInDays DEF TypeInv, TypeOK
<1>3. \A e \in Employees : NewRow(Schedule[<<e, today>>], p) \in Row
  BY <1>2, ScheduledRowType
<1>4. ins(p) \in [Employees -> OptRow]
  BY <1>3 DEF OptRow
<1> HIDE DEF ins
<1> QED
  BY <1>1, <1>4, InsertType DEF Workers

LEMMA ReplayType ==
    ASSUME TypeInv, NEW w \in Workers, Replay(w)
    PROVE  TypeInv'
<1> DEFINE tx == [txn[w] EXCEPT !.pc = "ready", !.new = txn[w].old, !.at = clock]
<1>1. txn[w] \in Txn
  BY DEF TypeInv, TypeOK
<1>2. txn' = [txn EXCEPT ![w] = tx] /\ UNCHANGED <<clock, tables, leave, crashes>>
  BY <1>1 DEF Replay, Txn, TypeInv, TypeOK
<1>3. tx \in Txn
  BY <1>1, ClockIsNat DEF Txn
<1>4. tx.op = txn[w].op /\ tx.new = txn[w].old /\ Loaded(tx) = Loaded(txn[w])
  BY <1>1 DEF Txn, Loaded
<1>5. /\ tx.op \notin RequestOps \cup JobOps => Loaded(tx) = {}
      /\ \A s \in Loaded(tx) : Exists(s) /\ tx.new[s] # None
  BY <1>4 DEF TypeInv, TxnOK, Loaded
<1>6. crashes' \in 0..MaxCrashes
  BY <1>2 DEF TypeInv, TypeOK
<1> HIDE DEF tx
<1> QED
  BY <1>2, <1>3, <1>5, <1>6, TxnStepType

LEMMA OpsOfTransaction ==
    ASSUME TypeInv, NEW w \in Workers, NEW s \in Loaded(txn[w])
    PROVE  /\ OpOn(txn[w], s) \in Ops /\ AppliedOp(txn[w], s) \in Ops
           /\ s \in ShiftIds /\ txn[w].old[s] \in Row /\ shifts[s] \in Row
           /\ txn[w].pc = "ready" => txn[w].new[s] \in Row
<1>1. txn[w] \in Txn /\ shifts \in [ShiftIds -> OptRow]
  BY DEF TypeInv, TypeOK
<1>2. txn[w].op \in RequestOps \cup JobOps
  BY DEF TypeInv, TxnOK
<1>3. /\ s \in ShiftIds /\ txn[w].old[s] # None /\ shifts[s] # None
      /\ txn[w].pc = "ready" => txn[w].new[s] # None
  BY DEF TypeInv, TxnOK, Loaded, Exists
<1>4. OpOn(txn[w], s) \in Ops /\ AppliedOp(txn[w], s) \in Ops
  BY <1>2 DEF OpOn, AppliedOp, RequestOps, JobOps, Ops, Starts, Ends, Closings
<1> QED
  BY <1>1, <1>3, <1>4 DEF Txn, OptRow

LEMMA DecideType ==
    ASSUME TypeInv, NEW w \in Workers, Decide(w)
    PROVE  TypeInv'
<1> DEFINE new == [s \in ShiftIds |->
                     IF s \in Loaded(txn[w])
                     THEN After(OpOn(txn[w], s), txn[w].old[s], clock) ELSE None]
           tx(close) == [txn[w] EXCEPT !.pc = "ready", !.at = clock,
                                       !.close = close, !.new = new]
<1>1. PICK close \in [ShiftIds -> UNION {BreakFound(txn[w], s) : s \in ShiftIds}] :
         txn' = [txn EXCEPT ![w] = tx(close)]
  BY DEF Decide
<1>2. UNCHANGED <<clock, tables, leave, crashes>>
  BY DEF Decide
<1>3. txn[w] \in Txn
  BY DEF TypeInv, TypeOK
<1>4. close \in [ShiftIds -> Nat]
  <2>1. \A s \in ShiftIds : DOMAIN breaks[s] \subseteq Nat
    BY LenProperties DEF TypeInv, TypeOK
  <2>2. \A s \in ShiftIds : BreakFound(txn[w], s) \subseteq Nat
    BY <2>1 DEF BreakFound, OpenBreaks
  <2> QED
    BY <2>2
<1>5. \A s \in Loaded(txn[w]) : new[s] \in Row
  BY OpsOfTransaction, AfterType, ClockIsNat
<1>6. new \in [ShiftIds -> OptRow]
  BY <1>5 DEF OptRow
<1>7. tx(close) \in Txn
  BY <1>3, <1>4, <1>6, ClockIsNat DEF Txn
<1>8. /\ tx(close).op = txn[w].op /\ tx(close).new = new
      /\ Loaded(tx(close)) = Loaded(txn[w])
  <2> HIDE DEF new
  <2> QED
    BY <1>3 DEF Txn, Loaded
<1>9. /\ tx(close).op \notin RequestOps \cup JobOps => Loaded(tx(close)) = {}
      /\ \A s \in Loaded(tx(close)) : Exists(s) /\ tx(close).new[s] # None
  <2> HIDE DEF new, tx
  <2>1. \A s \in Loaded(txn[w]) : Exists(s) /\ new[s] # None
    BY <1>5, NoRowAssumption DEF TypeInv, TxnOK
  <2> QED
    BY <1>8, <2>1 DEF TypeInv, TxnOK
<1>10. crashes' \in 0..MaxCrashes
  BY <1>2 DEF TypeInv, TypeOK
<1> HIDE DEF tx
<1> QED
  BY <1>1, <1>2, <1>7, <1>9, <1>10, TxnStepType

LEMMA FreeIdsType ==
    ASSUME NEW tx \in Txn, NEW s \in ShiftIds, Inserts(tx, s)
    PROVE  tx.ins[s[1]] \in Row
BY DEF Inserts, Txn, OptRow, ShiftIds

LEMMA CommitType ==
    ASSUME TypeInv, NEW w \in Workers, Commit(w)
    PROVE  TypeInv'
<1> DEFINE tx == txn[w]
<1>1. tx \in Txn /\ tx.pc = "ready"
  BY DEF TypeInv, TypeOK, Commit
<1>2. \A s \in Loaded(tx) :
         /\ OpOn(tx, s) \in Ops /\ AppliedOp(tx, s) \in Ops
         /\ s \in ShiftIds /\ tx.old[s] \in Row /\ shifts[s] \in Row
         /\ tx.new[s] \in Row
  BY <1>1, OpsOfTransaction
<1>3. /\ shifts' = ShiftsAfter(tx) /\ breaks' = BreaksNext(tx)
      /\ log' = [s \in ShiftIds |-> log[s] \o NewEvents(tx, s)]
      /\ attendance' = AttendanceAfter(tx) /\ notified' = NotifiedAfter(tx)
      /\ txn' = [txn EXCEPT ![w] = IdleTxn]
      /\ UNCHANGED <<clock, leave, crashes>>
  BY DEF Commit, Deny
<1> HIDE DEF tx
<1>4. shifts' \in [ShiftIds -> OptRow]
  <2>1. ASSUME NEW s \in ShiftIds PROVE ShiftsAfter(tx)[s] \in OptRow
    <3>1. CASE Inserts(tx, s)
      BY <1>1, <3>1, FreeIdsType DEF ShiftsAfter, OptRow
    <3>2. CASE ~ Inserts(tx, s) /\ s \in Loaded(tx)
      BY <1>2, <3>2, FlushType DEF ShiftsAfter, OptRow
    <3>3. CASE ~ Inserts(tx, s) /\ s \notin Loaded(tx)
      BY <3>3 DEF ShiftsAfter, TypeInv, TypeOK
    <3> QED
      BY <3>1, <3>2, <3>3
  <2> QED
    BY <1>3, <2>1 DEF ShiftsAfter
<1>5. \A s \in ShiftIds : BreaksNext(tx)[s] \in Seq(Break)
  <2> SUFFICES ASSUME NEW s \in ShiftIds PROVE BreaksNext(tx)[s] \in Seq(Break)
    OBVIOUS
  <2>1. breaks[s] \in Seq(Break) /\ tx.close[s] \in Nat /\ tx.at \in Nat
    BY <1>1 DEF TypeInv, TypeOK, Txn
  <2>2. CASE s \in Touched(tx)
    BY <1>2, <2>1, <2>2, BreaksType DEF BreaksNext, Touched
  <2>3. CASE s \notin Touched(tx)
    BY <2>1, <2>3 DEF BreaksNext
  <2> QED
    BY <2>2, <2>3
<1>6. log' \in [ShiftIds -> Seq(Event)]
  <2>1. ASSUME NEW s \in ShiftIds PROVE log[s] \o NewEvents(tx, s) \in Seq(Event)
    <3>1. log[s] \in Seq(Event) /\ tx.key \in Keys \cup {None} /\ tx.at \in Nat
      BY <1>1 DEF TypeInv, TypeOK, Txn
    <3>2. NewEvents(tx, s) \in Seq(Event)
      BY <1>2, <3>1, EventsType DEF NewEvents, Touched
    <3> QED
      BY <3>1, <3>2, ConcatProperties
  <2> QED
    BY <1>3, <2>1
<1>7. attendance' \in [Employees \X Days -> AttendanceRow \cup {None}]
  <2>1. ASSUME NEW k \in Employees \X Days
        PROVE  AttendanceAfter(tx)[k] \in AttendanceRow \cup {None}
    <3>1. CASE Derived(tx, k) = {}
      BY <3>1 DEF AttendanceAfter, TypeInv, TypeOK
    <3>2. CASE Derived(tx, k) # {}
      <4> DEFINE s == CHOOSE s \in Derived(tx, k) : TRUE
      <4>1. s \in Loaded(tx)
        BY <3>2 DEF Derived
      <4>2. AttendanceAfter(tx)[k] =
              [shift |-> s, row |-> tx.new[s], breaks |-> BreaksNext(tx)[s]]
        BY <3>2 DEF AttendanceAfter
      <4> HIDE DEF s
      <4>3. s \in ShiftIds /\ tx.new[s] \in Row /\ BreaksNext(tx)[s] \in Seq(Break)
        BY <1>2, <1>5, <4>1
      <4> QED
        BY <4>2, <4>3 DEF AttendanceRow
    <3> QED
      BY <3>1, <3>2
  <2> QED
    BY <1>3, <2>1 DEF AttendanceAfter
<1>8. notified' \in [ShiftIds -> Notice \cup {None}]
  <2>1. ASSUME NEW s \in ShiftIds PROVE NotifiedAfter(tx)[s] \in Notice \cup {None}
    <3>1. CASE s \in Loaded(tx) /\ tx.op \in RequestOps
      <4>1. tx.new[s].state \in States
        BY <1>2, <3>1 DEF Row
      <4>2. WebhookOf(tx.op) \in {"shift.started", "shift.paused", "shift.resumed",
                                  "shift.ended"}
        BY <3>1 DEF WebhookOf, RequestOps
      <4> QED
        BY <3>1, <4>1, <4>2 DEF NotifiedAfter, Notice
    <3>2. CASE ~ (s \in Loaded(tx) /\ tx.op \in RequestOps)
      BY <3>2 DEF NotifiedAfter, TypeInv, TypeOK
    <3> QED
      BY <3>1, <3>2
  <2> QED
    BY <1>3, <2>1 DEF NotifiedAfter
<1>9. TypeOK'
  <2>1. breaks' \in [ShiftIds -> Seq(Break)]
    BY <1>3, <1>5 DEF BreaksNext
  <2>2. txn' \in [Workers -> Txn]
    BY <1>3, IdleType DEF TypeInv, TypeOK
  <2> QED
    BY <1>3, <1>4, <1>6, <1>7, <1>8, <2>1, <2>2 DEF TypeInv, TypeOK
<1>10. \A s \in ShiftIds : Exists(s) => Exists(s)'
  <2> SUFFICES ASSUME NEW s \in ShiftIds, Exists(s) PROVE ShiftsAfter(tx)[s] # None
    BY <1>3 DEF Exists
  <2>1. CASE Inserts(tx, s)
    BY <2>1 DEF ShiftsAfter, Inserts
  <2>2. CASE ~ Inserts(tx, s) /\ s \in Loaded(tx)
    BY <1>2, <2>2, FlushType, NoRowAssumption DEF ShiftsAfter
  <2>3. CASE ~ Inserts(tx, s) /\ s \notin Loaded(tx)
    BY <2>3 DEF ShiftsAfter, Exists
  <2> QED
    BY <2>1, <2>2, <2>3
<1>11. TxnOK'
  <2>1. \A v \in Workers : txn'[v] = txn[v] \/ txn'[v] = IdleTxn
    BY <1>3 DEF TypeInv, TypeOK
  <2>2. \A v \in Workers : Loaded(txn[v]) \subseteq ShiftIds
    BY DEF Loaded
  <2> QED
    BY <1>10, <2>1, <2>2, IdleHoldsNothing DEF TypeInv, TxnOK
<1> QED
  BY <1>9, <1>11 DEF TypeInv

LEMMA StepType == ASSUME TypeInv, [Next]_vars PROVE TypeInv'
<1>0. crashes \in 0..MaxCrashes /\ crashes \in Nat /\ MaxCrashes \in Nat
  BY BoundsAssumption DEF TypeInv, TypeOK
<1>1. CASE Tick
  BY <1>1, BoundsAssumption
  DEF Tick, tables, TypeInv, TypeOK, TxnOK, Loaded, Exists
<1>2. ASSUME NEW l \in LeaveRequests, DecideLeave(l) PROVE TypeInv'
  BY <1>2 DEF DecideLeave, tables, TypeInv, TypeOK, TxnOK, Loaded, Exists
<1>3. ASSUME NEW w \in ApiWorkers, LoadRequest(w) PROVE TypeInv'
  <2>1. PICK r \in Requests : Load(w, r.op, r.key, {r.shift})
    BY <1>3 DEF LoadRequest
  <2>2. r.op \in RequestOps /\ r.key \in Keys /\ {r.shift} \in SUBSET ShiftIds
    BY RequestsAssumption DEF Keys
  <2> QED
    BY <2>1, <2>2, LoadType DEF Workers
<1>4. ASSUME NEW w \in ApiWorkers, LoadCreate(w) PROVE TypeInv'
  BY <1>4, CreateType
<1>5. ASSUME NEW w \in JobWorkers, LoadEnsure(w) PROVE TypeInv'
  BY <1>5, EnsureType
<1>6. ASSUME NEW w \in JobWorkers, NEW op \in JobOps, LoadJob(w, op) PROVE TypeInv'
  BY <1>6, LoadType DEF LoadJob, DueShifts, Workers
<1>7. ASSUME NEW w \in Workers, Replay(w) PROVE TypeInv'
  BY <1>7, ReplayType
<1>8. ASSUME NEW w \in Workers, Reject(w) \/ Rollback(w) PROVE TypeInv'
  BY <1>0, <1>8, DenyType DEF Reject, Rollback
<1>9. ASSUME NEW w \in Workers, Decide(w) PROVE TypeInv'
  BY <1>9, DecideType
<1>10. ASSUME NEW w \in Workers, Commit(w) PROVE TypeInv'
  BY <1>10, CommitType
<1>11. ASSUME NEW w \in Workers, Crash(w) PROVE TypeInv'
  BY <1>0, <1>11, DenyType DEF Crash
<1>12. CASE UNCHANGED vars
  BY <1>12 DEF vars, tables, TypeInv, TypeOK, TxnOK, Loaded, Exists
<1> QED
  BY <1>1, <1>2, <1>3, <1>4, <1>5, <1>6, <1>7, <1>8, <1>9, <1>10, <1>11, <1>12
  DEF Next, Step

\* Every table always holds rows of its columns' types: no transaction writes
\* a value its column cannot hold or a row of a shift that does not exist.
THEOREM TypeCorrect == Spec => []TypeOK
<1>1. TypeInv => TypeOK
  BY DEF TypeInv
<1> QED
  BY <1>1, InitType, StepType, PTL DEF Spec

THEOREM TypeInvCorrect == Spec => []TypeInv
BY InitType, StepType, PTL DEF Spec

-----------------------------------------------------------------------------
(* One active shift.  Only commits write shifts, and the unique index is   *)
(* checked on what they write, whatever the transaction had read before.   *)

LEMMA OnlyCommitsWrite ==
    ASSUME [Next]_vars
    PROVE  (\E w \in Workers : Commit(w)) \/ UNCHANGED tables
BY DEF Next, Step, vars, Tick, DecideLeave, LoadRequest, LoadCreate, LoadEnsure,
       LoadJob, Load, Insert, Replay, Reject, Decide, Rollback, Crash, tables

OneActiveShift == ActiveIndexOK(shifts)

\* The index holds of the table at all times, since Commit checks it and no
\* other step writes the table: a fact the proofs about the contract rest on.
LEMMA OneActiveShiftAlways == Spec => []OneActiveShift
<1>1. Init => OneActiveShift
  BY DEF Init, OneActiveShift, ActiveIndexOK, ActiveIn, NoRows
<1>2. ASSUME OneActiveShift, [Next]_vars PROVE OneActiveShift'
  <2>1. CASE \E w \in Workers : Commit(w)
    BY <2>1 DEF Commit, Committable, OneActiveShift, ActiveIndexOK, ActiveIn
  <2>2. CASE UNCHANGED tables
    BY <1>2, <2>2 DEF tables, OneActiveShift, ActiveIndexOK, ActiveIn
  <2> QED
    BY <1>2, <2>1, <2>2, OnlyCommitsWrite
<1> QED
  BY <1>1, <1>2, PTL DEF Spec

-----------------------------------------------------------------------------
(* A key is applied once.  The read of the event keys in Decide may be     *)
(* stale at the commit; the unique index is not.  What is left is that one *)
(* transaction never inserts one key twice.                                *)

OneShiftPerKey ==
    \A w \in Workers : \A s, u \in Loaded(txn[w]) : txn[w].key # None => s = u

KeysInv == OneShiftPerKey /\ KeysAppliedOnce

LEMMA EventsOfKeys ==
    ASSUME NEW op \in Ops, NEW row, NEW key \in Keys \cup {None}, NEW t
    PROVE  \A i, j \in DOMAIN EventsOf(op, row, key, t) :
              LET evs == EventsOf(op, row, key, t) IN
              /\ evs[i].key # None => key # None
              /\ evs[i].key # None /\ evs[i].key = evs[j].key => i = j
<1> DEFINE evs == EventsOf(op, row, key, t)
           main == [type |-> EventType(op), key |-> key, at |-> t]
           be == [type |-> "BREAK_END", key |-> BreakEndKey(key), at |-> t]
<1>1. key # None => key # BreakEndKey(key)
  BY RequestsAssumption DEF Keys
<1>2. key = None => BreakEndKey(key) = None
  BY DEF BreakEndKey
<1>3. be.key = BreakEndKey(key) /\ main.key = key
  OBVIOUS
<1>4. evs = <<>> \/ evs = <<main>> \/ evs = <<be, main>>
  BY DEF EventsOf
<1> HIDE DEF evs, main, be
<1>5. CASE evs = <<>>
  BY <1>5 DEF evs
<1>6. CASE evs = <<main>>
  BY <1>3, <1>6 DEF evs
<1>7. CASE evs = <<be, main>>
  BY <1>1, <1>2, <1>3, <1>7 DEF evs
<1> QED
  BY <1>4, <1>5, <1>6, <1>7 DEF evs

LEMMA LoadKeys ==
    ASSUME TypeInv, OneShiftPerKey, NEW w \in Workers, NEW op, NEW key,
           NEW S \in SUBSET ShiftIds, Load(w, op, key, S),
           key = None \/ \A s, u \in S : s = u
    PROVE  OneShiftPerKey'
<1> DEFINE tx == [IdleTxn EXCEPT !.pc = "loaded", !.op = op, !.key = key,
                                 !.old = [s \in ShiftIds |->
                                            IF s \in S THEN shifts[s] ELSE None]]
<1>1. txn' = [txn EXCEPT ![w] = tx]
  BY DEF Load
<1>2. tx.key = key /\ Loaded(tx) \subseteq S
  BY DEF Loaded, IdleTxn
<1>3. \A v \in Workers : txn'[v] = IF v = w THEN tx ELSE txn[v]
  BY <1>1 DEF TypeInv, TypeOK
<1> HIDE DEF tx
<1> QED
  BY <1>2, <1>3 DEF OneShiftPerKey, Loaded

\* A transaction keeps its key and the shifts it has loaded until it is idle.
LEMMA KeptKeys ==
    ASSUME OneShiftPerKey,
           \A v \in Workers : \/ Loaded(txn'[v]) = {}
                              \/ /\ txn'[v].key = txn[v].key
                                 /\ Loaded(txn'[v]) = Loaded(txn[v])
    PROVE  OneShiftPerKey'
BY DEF OneShiftPerKey, Loaded

LEMMA StepKeepsKeys ==
    ASSUME TypeInv, OneShiftPerKey, NEW w \in Workers, Step(w) \/ Crash(w)
    PROVE  OneShiftPerKey'
<1>1. txn \in [Workers -> Txn]
  BY DEF TypeInv, TypeOK
<1>2. CASE Replay(w)
  <2>1. txn'[w].key = txn[w].key /\ txn'[w].old = txn[w].old
    BY <1>1, <1>2 DEF Replay, Txn
  <2>2. \A v \in Workers \ {w} : txn'[v] = txn[v]
    BY <1>1, <1>2 DEF Replay
  <2> QED
    BY <2>1, <2>2, KeptKeys DEF Loaded
<1>3. CASE Decide(w)
  <2>1. txn'[w].key = txn[w].key /\ txn'[w].old = txn[w].old
    BY <1>1, <1>3 DEF Decide, Txn
  <2>2. \A v \in Workers \ {w} : txn'[v] = txn[v]
    BY <1>1, <1>3 DEF Decide
  <2> QED
    BY <2>1, <2>2, KeptKeys DEF Loaded
<1>4. CASE Deny(w)
  <2>1. \A v \in Workers : txn'[v] = IF v = w THEN IdleTxn ELSE txn[v]
    BY <1>1, <1>4 DEF Deny
  <2> QED
    BY <2>1, IdleHoldsNothing, KeptKeys
<1> QED
  BY <1>2, <1>3, <1>4 DEF Step, Reject, Commit, Rollback, Crash

LEMMA InsertKeepsKeys ==
    ASSUME TypeInv, OneShiftPerKey, NEW w \in Workers, NEW op, NEW ins,
           Insert(w, op, ins)
    PROVE  OneShiftPerKey'
<1> DEFINE tx == [IdleTxn EXCEPT !.pc = "ready", !.op = op, !.at = clock,
                                 !.ins = ins]
<1>1. Loaded(tx) = {}
  BY DEF Loaded, IdleTxn, NoRows
<1>2. \A v \in Workers : txn'[v] = IF v = w THEN tx ELSE txn[v]
  BY DEF Insert, TypeInv, TypeOK
<1> HIDE DEF tx
<1> QED
  BY <1>1, <1>2, KeptKeys

LEMMA CommitKeepsKeys ==
    ASSUME TypeInv, KeysInv, NEW w \in Workers, Commit(w)
    PROVE  KeysAppliedOnce'
<1> DEFINE tx == txn[w]
           evs(s) == NewEvents(tx, s)
<1>1. tx.pc = "ready" /\ EventKeysOK(tx) /\ log' = [s \in ShiftIds |-> log[s] \o evs(s)]
  BY DEF Commit, Committable
<1>2. tx.key \in Keys \cup {None} /\ tx.at \in Nat
  BY DEF TypeInv, TypeOK, Txn
<1>3. \A s \in ShiftIds : evs(s) # <<>> => s \in Loaded(tx)
  BY DEF NewEvents, Touched
<1>4. ASSUME NEW s \in ShiftIds
      PROVE  /\ evs(s) \in Seq(Event)
             /\ \A i, j \in DOMAIN evs(s) :
                   /\ evs(s)[i].key # None => tx.key # None
                   /\ evs(s)[i].key # None /\ evs(s)[i].key = evs(s)[j].key => i = j
  <2>1. CASE s \in Touched(tx)
    <3>1. AppliedOp(tx, s) \in Ops
      BY <2>1, OpsOfTransaction DEF Touched
    <3>2. evs(s) = EventsOf(AppliedOp(tx, s), tx.old[s], tx.key, tx.at)
      BY <2>1 DEF NewEvents
    <3> QED
      BY <1>2, <3>1, <3>2, EventsOfKeys, EventsType
  <2>2. CASE s \notin Touched(tx)
    BY <2>2 DEF NewEvents
  <2> QED
    BY <2>1, <2>2
<1>5. \A s \in ShiftIds : \A i \in DOMAIN log[s] :
         log[s][i].key # None => log[s][i].key \in UsedKeys
  BY DEF UsedKeys, Range
<1>6. \A s \in ShiftIds : \A i \in DOMAIN evs(s) : evs(s)[i].key \notin UsedKeys
  BY <1>1 DEF EventKeysOK, Range
<1>7. \A s, u \in Loaded(tx) : tx.key # None => s = u
  BY DEF KeysInv, OneShiftPerKey
<1> HIDE DEF tx, evs
<1>8. ASSUME NEW s \in ShiftIds
      PROVE  /\ DOMAIN log'[s] = 1..(Len(log[s]) + Len(evs(s)))
             /\ Len(log[s]) \in Nat /\ Len(evs(s)) \in Nat
             /\ DOMAIN log[s] = 1..Len(log[s]) /\ DOMAIN evs(s) = 1..Len(evs(s))
             /\ \A i \in DOMAIN log'[s] :
                   log'[s][i] = IF i <= Len(log[s]) THEN log[s][i]
                                ELSE evs(s)[i - Len(log[s])]
  <2>1. log[s] \in Seq(Event) /\ evs(s) \in Seq(Event) /\ log'[s] = log[s] \o evs(s)
    BY <1>1, <1>4 DEF TypeInv, TypeOK
  <2>2. log[s] \o evs(s) \in Seq(Event)
    BY <2>1, ConcatProperties
  <2> QED
    BY <2>1, <2>2, ConcatProperties, LenProperties
<1> DEFINE Old(v, k) == k <= Len(log[v])
<1>9. ASSUME NEW v \in ShiftIds, NEW k \in DOMAIN log'[v]
      PROVE  /\ k \in Nat
             /\ Old(v, k) => k \in DOMAIN log[v] /\ log'[v][k] = log[v][k]
             /\ ~ Old(v, k) => /\ k - Len(log[v]) \in DOMAIN evs(v)
                               /\ log'[v][k] = evs(v)[k - Len(log[v])]
  <2>1. k \in 1..(Len(log[v]) + Len(evs(v)))
    BY <1>8
  <2>2. Len(log[v]) \in Nat /\ Len(evs(v)) \in Nat
    BY <1>8
  <2>3. DOMAIN log[v] = 1..Len(log[v]) /\ DOMAIN evs(v) = 1..Len(evs(v))
    BY <1>8
  <2>4. log'[v][k] = IF k <= Len(log[v]) THEN log[v][k] ELSE evs(v)[k - Len(log[v])]
    BY <1>8
  <2> QED
    BY <2>1, <2>2, <2>3, <2>4
<1> SUFFICES ASSUME NEW s \in ShiftIds, NEW u \in ShiftIds,
                    NEW i \in DOMAIN log'[s], NEW j \in DOMAIN log'[u],
                    log'[s][i].key # None, log'[s][i].key = log'[u][j].key
             PROVE  s = u /\ i = j
  BY DEF KeysAppliedOnce
<1>10. /\ i \in Nat /\ j \in Nat
       /\ Old(s, i) => i \in DOMAIN log[s] /\ log'[s][i] = log[s][i]
       /\ Old(u, j) => j \in DOMAIN log[u] /\ log'[u][j] = log[u][j]
       /\ ~ Old(s, i) => /\ i - Len(log[s]) \in DOMAIN evs(s)
                         /\ log'[s][i] = evs(s)[i - Len(log[s])]
       /\ ~ Old(u, j) => /\ j - Len(log[u]) \in DOMAIN evs(u)
                         /\ log'[u][j] = evs(u)[j - Len(log[u])]
  BY <1>9
<1>11. CASE Old(s, i) /\ Old(u, j)
  BY <1>10, <1>11 DEF KeysInv, KeysAppliedOnce
<1>12. CASE Old(s, i) /\ ~ Old(u, j)
  <2>1. log[s][i].key \in UsedKeys
    BY <1>5, <1>10, <1>12
  <2> QED
    BY <1>6, <1>10, <1>12, <2>1
<1>13. CASE ~ Old(s, i) /\ Old(u, j)
  <2>1. log[u][j].key \in UsedKeys
    BY <1>5, <1>10, <1>13
  <2> QED
    BY <1>6, <1>10, <1>13, <2>1
<1>14. CASE ~ Old(s, i) /\ ~ Old(u, j)
  <2>1. s \in Loaded(tx) /\ u \in Loaded(tx)
    BY <1>3, <1>10, <1>14
  <2>2. tx.key # None
    BY <1>4, <1>10, <1>14
  <2>3. s = u
    BY <1>7, <2>1, <2>2
  <2>4. i - Len(log[s]) = j - Len(log[s])
    BY <1>4, <1>10, <1>14, <2>3
  <2>5. Len(log[s]) \in Nat
    BY <1>8
  <2> QED
    BY <1>10, <2>3, <2>4, <2>5
<1> QED
  BY <1>11, <1>12, <1>13, <1>14

LEMMA StepKeys == ASSUME TypeInv, KeysInv, [Next]_vars PROVE KeysInv'
<1>1. KeysAppliedOnce'
  <2>1. CASE \E w \in Workers : Commit(w)
    BY <2>1, CommitKeepsKeys
  <2>2. CASE UNCHANGED tables
    BY <2>2 DEF tables, KeysInv, KeysAppliedOnce
  <2> QED
    BY <2>1, <2>2, OnlyCommitsWrite
<1>2. OneShiftPerKey'
  <2>1. CASE UNCHANGED txn
    BY <2>1 DEF KeysInv, OneShiftPerKey, Loaded
  <2>2. ASSUME NEW w \in ApiWorkers, LoadRequest(w) PROVE OneShiftPerKey'
    <3>1. PICK r \in Requests : Load(w, r.op, r.key, {r.shift})
      BY <2>2 DEF LoadRequest
    <3>2. {r.shift} \in SUBSET ShiftIds
      BY RequestsAssumption
    <3> QED
      BY <3>1, <3>2, LoadKeys DEF KeysInv, Workers
  <2>3. ASSUME NEW w \in ApiWorkers, LoadCreate(w) PROVE OneShiftPerKey'
    BY <2>3, InsertKeepsKeys DEF LoadCreate, KeysInv, Workers
  <2>4. ASSUME NEW w \in JobWorkers, LoadEnsure(w) PROVE OneShiftPerKey'
    BY <2>4, InsertKeepsKeys DEF LoadEnsure, KeysInv, Workers
  <2>5. ASSUME NEW w \in JobWorkers, NEW op \in JobOps, LoadJob(w, op)
        PROVE  OneShiftPerKey'
    BY <2>5, LoadKeys DEF LoadJob, DueShifts, KeysInv, Workers
  <2>6. ASSUME NEW w \in Workers, Step(w) \/ Crash(w) PROVE OneShiftPerKey'
    BY <2>6, StepKeepsKeys DEF KeysInv
  <2> QED
    BY <2>1, <2>2, <2>3, <2>4, <2>5, <2>6 DEF Next, Tick, DecideLeave, vars
<1> QED
  BY <1>1, <1>2 DEF KeysInv

\* However requests, resent requests and jobs interleave, a client's key has
\* at most one row in shift_events.
THEOREM KeysAppliedOnceAlways == Spec => []KeysAppliedOnce
<1>1. Init => KeysInv
  BY IdleHoldsNothing DEF Init, KeysInv, OneShiftPerKey, KeysAppliedOnce
<1>2. KeysInv => KeysAppliedOnce
  BY DEF KeysInv
<1> QED
  BY <1>1, <1>2, StepKeys, TypeInvCorrect, PTL DEF Spec
-----------------------------------------------------------------------------
(* What a commit does to one shift, whatever has been committed since the  *)
(* transaction read it.  A decided transaction changes a loaded row as one *)
(* operation would, or (a replay) not at all.                              *)

Decided(tx, s) == \/ tx.new[s] = tx.old[s]
                  \/ /\ tx.old[s].state \in From(AppliedOp(tx, s))
                     /\ tx.new[s] = After(AppliedOp(tx, s), tx.old[s], tx.at)

TxnDecided(tx) ==
    /\ tx.pc = "ready" => \A s \in Loaded(tx) : Decided(tx, s)
    /\ \A e \in Employees : tx.ins[e] # None =>
          /\ Loaded(tx) = {} /\ tx.ins[e].state = "AVAILABLE" /\ tx.ins[e].version = 0
          /\ tx.ins[e].actual_end = None

\* A shift that was never created has no events and no breaks.
NothingBeforeCreation ==
    \A s \in ShiftIds : ~ Exists(s) => log[s] = <<>> /\ breaks[s] = <<>>

DecidedInv == NothingBeforeCreation /\ \A w \in Workers : TxnDecided(txn[w])

LEMMA TargetDiffers ==
    ASSUME NEW op \in Ops, NEW state \in From(op)
    PROVE  Target(op) # state
<1>1. CASE op \in Starts
  BY <1>1 DEF From, Target, Starts, Closings, Ends, WAITING
<1>2. CASE op \in Closings
  BY <1>2 DEF From, Target, Starts, Closings, Ends, WAITING
<1>3. CASE op \in {"break", "pause", "resume"}
  BY <1>3 DEF From, Target, Starts, Closings, Ends
<1>4. CASE op \in Ends
  BY <1>4 DEF From, Target, Starts, Closings, Ends, RUNNING
<1> QED
  BY <1>1, <1>2, <1>3, <1>4 DEF Ops

LEMMA InsertedIsFree ==
    ASSUME NEW tx, NEW s \in ShiftIds, Inserts(tx, s)
    PROVE  shifts[s] = None
<1>1. s[1] \in Employees /\ s = <<s[1], CHOOSE n \in FreeIds(s[1]) : TRUE>>
  BY DEF Inserts, InsertedId, ShiftIds
<1>2. (CHOOSE n \in FreeIds(s[1]) : TRUE) \in FreeIds(s[1])
  BY DEF Inserts
<1> QED
  BY <1>1, <1>2 DEF FreeIds

\* The log of a shift after an operation.
Logged(l, op, row, key, t) == l \o EventsOf(op, row, key, t)

\* The three things that can happen to a shift in a commit: it is created,
\* an operation is applied to it, or it and its events and breaks stay.
Created(tx, s) ==
    /\ ~ Exists(s) /\ tx.ins[s[1]] # None /\ shifts'[s] = tx.ins[s[1]]
    /\ s \notin Loaded(tx)
    /\ log'[s] = log[s] /\ breaks'[s] = breaks[s]

Operated(tx, s) ==
    /\ s \in Loaded(tx) /\ Exists(s) /\ tx.new[s] # tx.old[s]
    /\ AppliedOp(tx, s) \in Ops /\ tx.old[s].state \in From(AppliedOp(tx, s))
    /\ tx.new[s] = After(AppliedOp(tx, s), tx.old[s], tx.at)
    /\ shifts'[s] = Flush(shifts[s], tx.old[s], tx.new[s])
    /\ shifts'[s] \in Row /\ shifts'[s].state = Target(AppliedOp(tx, s))
    /\ log'[s] = Logged(log[s], AppliedOp(tx, s), tx.old[s], tx.key, tx.at)
    /\ breaks'[s] = BreaksAfter(AppliedOp(tx, s), tx.old[s], breaks[s],
                                tx.close[s], tx.at)

Kept(tx, s) ==
    /\ s \in Loaded(tx) => Exists(s) /\ tx.new[s] = tx.old[s]
    /\ shifts'[s] = shifts[s] /\ log'[s] = log[s] /\ breaks'[s] = breaks[s]

LEMMA CommitOnShift ==
    ASSUME TypeInv, NEW w \in Workers, TxnDecided(txn[w]), Commit(w),
           NEW s \in ShiftIds
    PROVE  Created(txn[w], s) \/ Operated(txn[w], s) \/ Kept(txn[w], s)
<1> DEFINE tx == txn[w]
<1>1. /\ shifts' = ShiftsAfter(tx) /\ breaks' = BreaksNext(tx)
      /\ log' = [u \in ShiftIds |-> log[u] \o NewEvents(tx, u)] /\ tx.pc = "ready"
      /\ log[s] \in Seq(Event)
  BY DEF Commit, TypeInv, TypeOK
<1>2. s \notin Touched(tx) => log'[s] = log[s] /\ breaks'[s] = breaks[s]
  BY <1>1, ConcatEmptySeq DEF NewEvents, BreaksNext
<1>3. CASE Inserts(tx, s)
  <2>1. s[1] \in Employees /\ tx.ins[s[1]] # None
    BY <1>3 DEF Inserts, ShiftIds
  <2>2. Loaded(tx) = {}
    BY <2>1 DEF TxnDecided
  <2>3. ~ Exists(s) /\ shifts'[s] = tx.ins[s[1]]
    BY <1>1, <1>3, InsertedIsFree DEF ShiftsAfter, Exists
  <2> QED
    BY <1>2, <2>1, <2>2, <2>3 DEF Created, Touched
<1>4. CASE s \in Touched(tx)
  <2>1. s \in Loaded(tx) /\ tx.new[s] # tx.old[s]
    BY <1>4 DEF Touched
  <2>2. ~ Inserts(tx, s)
    BY <2>1 DEF Inserts, TxnDecided, ShiftIds
  <2>3. /\ AppliedOp(tx, s) \in Ops /\ tx.old[s] \in Row /\ shifts[s] \in Row
        /\ tx.new[s] \in Row
    BY <1>1, <2>1, OpsOfTransaction
  <2>4. /\ tx.old[s].state \in From(AppliedOp(tx, s))
        /\ tx.new[s] = After(AppliedOp(tx, s), tx.old[s], tx.at)
    BY <1>1, <2>1 DEF TxnDecided, Decided
  <2>5. shifts'[s] = Flush(shifts[s], tx.old[s], tx.new[s])
    BY <1>1, <2>1, <2>2 DEF ShiftsAfter
  <2>6. shifts'[s] \in Row
    BY <2>3, <2>5, FlushType
  <2>7. tx.new[s].state = Target(AppliedOp(tx, s))
    BY <2>3, <2>4 DEF After, Row
  <2>8. shifts'[s].state = tx.new[s].state
    <3>1. tx.new[s].state # tx.old[s].state
      BY <2>3, <2>4, <2>7, TargetDiffers
    <3> QED
      BY <2>3, <2>5, <3>1 DEF Flush, Column, Row
  <2>9. Exists(s)
    BY <2>3, NoRowAssumption DEF Exists
  <2>10. /\ log'[s] = Logged(log[s], AppliedOp(tx, s), tx.old[s], tx.key, tx.at)
         /\ breaks'[s] = BreaksAfter(AppliedOp(tx, s), tx.old[s], breaks[s],
                                     tx.close[s], tx.at)
    BY <1>1, <1>4 DEF NewEvents, BreaksNext, Logged
  <2> QED
    BY <2>1, <2>3, <2>4, <2>5, <2>6, <2>7, <2>8, <2>9, <2>10 DEF Operated
<1>5. CASE ~ Inserts(tx, s) /\ s \in Loaded(tx) /\ s \notin Touched(tx)
  <2>1. tx.new[s] = tx.old[s] /\ shifts[s] \in Row
    BY <1>5, OpsOfTransaction DEF Touched
  <2>2. shifts'[s] = Flush(shifts[s], tx.old[s], tx.old[s])
    BY <1>1, <1>5, <2>1 DEF ShiftsAfter
  <2>3. shifts'[s] = shifts[s]
    BY <2>1, <2>2, FlushNothing
  <2> QED
    BY <1>2, <1>5, <2>1, <2>3, NoRowAssumption DEF Kept, Exists
<1>6. CASE ~ Inserts(tx, s) /\ s \notin Loaded(tx)
  BY <1>1, <1>2, <1>6 DEF ShiftsAfter, Kept, Touched
<1> QED
  BY <1>3, <1>4, <1>5, <1>6

\* The steps that write no table: worker w gets the transaction tx.
LEMMA TxnStepDecided ==
    ASSUME TypeInv, DecidedInv, NEW w \in Workers, NEW tx, TxnDecided(tx),
           txn' = [txn EXCEPT ![w] = tx], UNCHANGED tables
    PROVE  DecidedInv'
<1>1. \A v \in Workers : txn'[v] = IF v = w THEN tx ELSE txn[v]
  BY DEF TypeInv, TypeOK
<1>2. \A v \in Workers : TxnDecided(txn'[v])
  BY <1>1 DEF DecidedInv
<1>3. NothingBeforeCreation'
  BY DEF DecidedInv, NothingBeforeCreation, Exists, tables
<1> QED
  BY <1>2, <1>3 DEF DecidedInv, TxnDecided, Decided, Loaded, AppliedOp

LEMMA IdleDecided == TxnDecided(IdleTxn)
BY DEF TxnDecided, IdleTxn

LEMMA DecideDecided ==
    ASSUME TypeInv, DecidedInv, NEW w \in Workers, Decide(w)
    PROVE  DecidedInv'
<1> DEFINE new == [s \in ShiftIds |->
                     IF s \in Loaded(txn[w])
                     THEN After(OpOn(txn[w], s), txn[w].old[s], clock) ELSE None]
           tx(close) == [txn[w] EXCEPT !.pc = "ready", !.at = clock,
                                       !.close = close, !.new = new]
<1>1. PICK close : txn' = [txn EXCEPT ![w] = tx(close)]
  BY DEF Decide
<1>2. UNCHANGED tables
  BY DEF Decide
<1>3. /\ tx(close).old = txn[w].old /\ tx(close).ins = txn[w].ins
      /\ tx(close).new = new /\ tx(close).op = txn[w].op /\ tx(close).at = clock
  <2> HIDE DEF new
  <2> QED
    BY DEF TypeInv, TypeOK, Txn
<1>4. \A s \in Loaded(txn[w]) : txn[w].old[s].state \in From(OpOn(txn[w], s))
  BY DEF Decide, Permitted
<1>5. Loaded(tx(close)) = Loaded(txn[w])
  BY <1>3 DEF Loaded
<1>6. ASSUME NEW s \in Loaded(txn[w])
      PROVE  AppliedOp(tx(close), s) = OpOn(txn[w], s)
  <2>1. new[s].state = Target(OpOn(txn[w], s)) /\ s \in ShiftIds
    <3>1. new[s] = After(OpOn(txn[w], s), txn[w].old[s], clock) /\ s \in ShiftIds
      BY <1>6 DEF Loaded
    <3>2. txn[w].old[s] \in Row
      BY <1>6, OpsOfTransaction
    <3> QED
      BY <3>1, <3>2 DEF After, Row
  <2> HIDE DEF tx, new
  <2>2. OpOn(txn[w], s) = "cancel" => new[s].state = "CANCELLED"
    BY <2>1 DEF Target, Starts
  <2>3. OpOn(txn[w], s) = "miss" => new[s].state = "MISSED"
    BY <2>1 DEF Target, Starts
  <2> QED
    BY <1>3, <2>2, <2>3 DEF AppliedOp, OpOn
<1>7. \A s \in Loaded(txn[w]) : new[s] = After(OpOn(txn[w], s), txn[w].old[s], clock)
  BY DEF Loaded
<1> HIDE DEF tx, new
<1>8. TxnDecided(tx(close))
  BY <1>3, <1>4, <1>5, <1>6, <1>7 DEF TxnDecided, Decided, DecidedInv
<1> QED
  BY <1>1, <1>2, <1>8, TxnStepDecided

LEMMA ReplayDecided ==
    ASSUME TypeInv, DecidedInv, NEW w \in Workers, Replay(w)
    PROVE  DecidedInv'
<1> DEFINE tx == [txn[w] EXCEPT !.pc = "ready", !.new = txn[w].old, !.at = clock]
<1>1. txn' = [txn EXCEPT ![w] = tx] /\ UNCHANGED tables
  BY DEF Replay, TypeInv, TypeOK, Txn
<1>2. tx.old = txn[w].old /\ tx.ins = txn[w].ins /\ tx.new = txn[w].old
  BY DEF TypeInv, TypeOK, Txn
<1> HIDE DEF tx
<1>3. TxnDecided(tx)
  BY <1>2 DEF TxnDecided, Decided, DecidedInv, Loaded
<1> QED
  BY <1>1, <1>3, TxnStepDecided

LEMMA LoadDecided ==
    ASSUME TypeInv, DecidedInv, NEW w \in Workers, NEW op, NEW key,
           NEW S \in SUBSET ShiftIds, Load(w, op, key, S)
    PROVE  DecidedInv'
<1> DEFINE tx == [IdleTxn EXCEPT !.pc = "loaded", !.op = op, !.key = key,
                                 !.old = [s \in ShiftIds |->
                                            IF s \in S THEN shifts[s] ELSE None]]
<1>1. txn' = [txn EXCEPT ![w] = tx] /\ UNCHANGED tables
  BY DEF Load
<1>2. tx.pc # "ready" /\ \A e \in Employees : tx.ins[e] = None
  BY DEF IdleTxn
<1> HIDE DEF tx
<1>3. TxnDecided(tx)
  BY <1>2 DEF TxnDecided
<1> QED
  BY <1>1, <1>3, TxnStepDecided

LEMMA InsertDecided ==
    ASSUME TypeInv, DecidedInv, NEW w \in Workers, NEW op, NEW ins, Insert(w, op, ins),
           \A e \in Employees : ins[e] # None =>
              \E window, p : ins[e] = NewRow(window, p)
    PROVE  DecidedInv'
<1> DEFINE tx == [IdleTxn EXCEPT !.pc = "ready", !.op = op, !.at = clock,
                                 !.ins = ins]
<1>1. txn' = [txn EXCEPT ![w] = tx] /\ UNCHANGED tables
  BY DEF Insert
<1>2. Loaded(tx) = {} /\ tx.ins = ins
  BY DEF Loaded, IdleTxn, NoRows
<1>3. \A e \in Employees : ins[e] # None =>
         ins[e].state = "AVAILABLE" /\ ins[e].version = 0 /\ ins[e].actual_end = None
  <2> SUFFICES ASSUME NEW e \in Employees, ins[e] # None
               PROVE  /\ ins[e].state = "AVAILABLE" /\ ins[e].version = 0
                      /\ ins[e].actual_end = None
    OBVIOUS
  <2>1. PICK window, p : ins[e] = NewRow(window, p)
    OBVIOUS
  <2> QED
    BY <2>1 DEF NewRow
<1> HIDE DEF tx
<1>4. TxnDecided(tx)
  BY <1>2, <1>3 DEF TxnDecided
<1> QED
  BY <1>1, <1>4, TxnStepDecided

LEMMA CreateInserts ==
    ASSUME NEW w \in ApiWorkers, LoadCreate(w)
    PROVE  \E ins : /\ Insert(w, "create", ins)
                    /\ \A e \in Employees : ins[e] # None =>
                          \E d \in ManualDays, p \in Policies :
                             ins[e] = NewRow(Schedule[<<e, d>>], p)
<1>1. PICK e \in Employees, d \in ManualDays, p \in Policies :
         Insert(w, "create", [IdleTxn.ins EXCEPT ![e] = NewRow(Schedule[<<e, d>>], p)])
  BY DEF LoadCreate
<1> DEFINE ins == [IdleTxn.ins EXCEPT ![e] = NewRow(Schedule[<<e, d>>], p)]
<1>2. \A u \in Employees : ins[u] = IF u = e THEN NewRow(Schedule[<<e, d>>], p) ELSE None
  BY DEF IdleTxn
<1>3. Insert(w, "create", ins)
  BY <1>1
<1> HIDE DEF ins
<1> QED
  BY <1>2, <1>3

LEMMA EnsureInserts ==
    ASSUME NEW w \in JobWorkers, LoadEnsure(w)
    PROVE  \E ins : /\ Insert(w, "ensure", ins)
                    /\ \A e \in Employees : ins[e] # None =>
                          /\ NeedsShift(e, Date(clock))
                          /\ \E p \in Policies :
                                ins[e] = NewRow(Schedule[<<e, Date(clock)>>], p)
<1> DEFINE today == Date(clock)
           due == {e \in Employees : NeedsShift(e, today)}
           ins(p) == [e \in Employees |->
                        IF e \in due THEN NewRow(Schedule[<<e, today>>], p) ELSE None]
<1>1. PICK p \in Policies : Insert(w, "ensure", ins(p))
  BY DEF LoadEnsure
<1>2. \A e \in Employees : ins(p)[e] # None =>
         NeedsShift(e, today) /\ ins(p)[e] = NewRow(Schedule[<<e, today>>], p)
  OBVIOUS
<1> HIDE DEF ins
<1> QED
  BY <1>1, <1>2

LEMMA CommitDecided ==
    ASSUME TypeInv, DecidedInv, NEW w \in Workers, Commit(w)
    PROVE  DecidedInv'
<1>1. TxnDecided(txn[w])
  BY DEF DecidedInv
<1>2. NothingBeforeCreation'
  <2> SUFFICES ASSUME NEW s \in ShiftIds, ~ Exists(s)'
               PROVE  log'[s] = <<>> /\ breaks'[s] = <<>>
    BY DEF NothingBeforeCreation
  <2>1. CASE Created(txn[w], s)
    BY <2>1 DEF Created, Exists
  <2>2. CASE Operated(txn[w], s)
    BY <2>2, NoRowAssumption DEF Operated, Exists
  <2>3. CASE Kept(txn[w], s)
    BY <2>3 DEF Kept, DecidedInv, NothingBeforeCreation, Exists
  <2> QED
    BY <1>1, <2>1, <2>2, <2>3, CommitOnShift
<1>3. \A v \in Workers : txn'[v] = txn[v] \/ txn'[v] = IdleTxn
  BY DEF Commit, Deny, TypeInv, TypeOK
<1>4. \A v \in Workers : TxnDecided(txn'[v])
  BY <1>3, IdleDecided DEF DecidedInv
<1> QED
  BY <1>2, <1>4 DEF DecidedInv, TxnDecided, Decided, Loaded, AppliedOp

LEMMA StepDecided == ASSUME TypeInv, DecidedInv, [Next]_vars PROVE DecidedInv'
<1>1. CASE UNCHANGED <<tables, txn>>
  BY <1>1 DEF tables, DecidedInv, NothingBeforeCreation, Exists, TxnDecided, Decided,
              Loaded, AppliedOp
<1>2. ASSUME NEW w \in ApiWorkers, LoadRequest(w) PROVE DecidedInv'
  <2>1. PICK r \in Requests : Load(w, r.op, r.key, {r.shift})
    BY <1>2 DEF LoadRequest
  <2>2. {r.shift} \in SUBSET ShiftIds
    BY RequestsAssumption
  <2> QED
    BY <2>1, <2>2, LoadDecided DEF Workers
<1>3. ASSUME NEW w \in ApiWorkers, LoadCreate(w) PROVE DecidedInv'
  <2>1. PICK ins : /\ Insert(w, "create", ins)
                   /\ \A e \in Employees : ins[e] # None =>
                         \E d \in ManualDays, p \in Policies :
                            ins[e] = NewRow(Schedule[<<e, d>>], p)
    BY <1>3, CreateInserts
  <2>2. \A e \in Employees : ins[e] # None => \E window, p : ins[e] = NewRow(window, p)
    BY <2>1
  <2> QED
    BY <2>1, <2>2, InsertDecided DEF Workers
<1>4. ASSUME NEW w \in JobWorkers, LoadEnsure(w) PROVE DecidedInv'
  <2>1. PICK ins : /\ Insert(w, "ensure", ins)
                   /\ \A e \in Employees : ins[e] # None =>
                         /\ NeedsShift(e, Date(clock))
                         /\ \E p \in Policies :
                               ins[e] = NewRow(Schedule[<<e, Date(clock)>>], p)
    BY <1>4, EnsureInserts
  <2>2. \A e \in Employees : ins[e] # None => \E window, p : ins[e] = NewRow(window, p)
    BY <2>1
  <2> QED
    BY <2>1, <2>2, InsertDecided DEF Workers
<1>5. ASSUME NEW w \in JobWorkers, NEW op \in JobOps, LoadJob(w, op) PROVE DecidedInv'
  BY <1>5, LoadDecided DEF LoadJob, DueShifts, Workers
<1>6. ASSUME NEW w \in Workers, Decide(w) PROVE DecidedInv'
  BY <1>6, DecideDecided
<1>7. ASSUME NEW w \in Workers, Replay(w) PROVE DecidedInv'
  BY <1>7, ReplayDecided
<1>8. ASSUME NEW w \in Workers, Reject(w) \/ Rollback(w) \/ Crash(w)
      PROVE  DecidedInv'
  BY <1>8, IdleDecided, TxnStepDecided DEF Reject, Rollback, Crash, Deny
<1>9. ASSUME NEW w \in Workers, Commit(w) PROVE DecidedInv'
  BY <1>9, CommitDecided
<1> QED
  BY <1>1, <1>2, <1>3, <1>4, <1>5, <1>6, <1>7, <1>8, <1>9
  DEF Next, Step, Tick, DecideLeave, vars, tables

\* Whatever was committed between a transaction's reads and its commit, the
\* transaction applies one operation to the row it read, or leaves it alone.
THEOREM DecidedAlways == Spec => []DecidedInv
<1>1. Init => DecidedInv
  BY IdleDecided DEF Init, DecidedInv, NothingBeforeCreation
<1> QED
  BY <1>1, StepDecided, TypeInvCorrect, PTL DEF Spec

-----------------------------------------------------------------------------
(* What an operation adds to the event log *)

MainEvent(op, key, t) == [type |-> EventType(op), key |-> key, at |-> t]
BreakEnd(key, t) == [type |-> "BREAK_END", key |-> BreakEndKey(key), at |-> t]
ResumesBreak(op, row) == op = "resume" /\ row.state = "ON_BREAK"

\* How many events of the types T a log holds.
Count(T, l) == Cardinality({i \in DOMAIN l : l[i].type \in T})

LEMMA AppendOne ==
    ASSUME NEW S, NEW l \in Seq(S), NEW e \in S
    PROVE  /\ Append(l, e) \in Seq(S)
           /\ Len(Append(l, e)) = Len(l) + 1 /\ Len(l) \in Nat
           /\ DOMAIN l = 1..Len(l)
           /\ DOMAIN Append(l, e) = 1..(Len(l) + 1)
           /\ \A i \in 1..Len(l) : Append(l, e)[i] = l[i]
           /\ Append(l, e)[Len(l) + 1] = e
BY LenProperties

LEMMA CountAppend ==
    ASSUME NEW T, NEW l \in Seq(Event), NEW e \in Event
    PROVE  /\ Count(T, l) \in Nat
           /\ Count(T, Append(l, e)) =
                IF e.type \in T THEN Count(T, l) + 1 ELSE Count(T, l)
<1> DEFINE A == {i \in DOMAIN l : l[i].type \in T}
           B == {i \in DOMAIN Append(l, e) : Append(l, e)[i].type \in T}
           n == Len(l) + 1
<1>1. /\ Len(l) \in Nat /\ DOMAIN l = 1..Len(l) /\ DOMAIN Append(l, e) = 1..n
      /\ \A i \in 1..Len(l) : Append(l, e)[i] = l[i]
      /\ Append(l, e)[n] = e
  BY AppendOne
<1>2. IsFiniteSet(A)
  <2>1. IsFiniteSet(1..Len(l)) /\ A \in SUBSET (1..Len(l))
    BY <1>1, FS_Interval
  <2> QED
    BY <2>1, FS_Subset
<1>3. n \notin A
  BY <1>1
<1>4. B = IF e.type \in T THEN A \cup {n} ELSE A
  <2>1. 1..n = (1..Len(l)) \cup {n}
    BY <1>1
  <2> QED
    BY <1>1, <2>1
<1> HIDE DEF A, B, n
<1>5. Cardinality(A) \in Nat
  BY <1>2, FS_CardinalityType
<1>6. Cardinality(A \cup {n}) = Cardinality(A) + 1
  BY <1>2, <1>3, FS_AddElement
<1> QED
  BY <1>4, <1>5, <1>6 DEF Count, A, B

LEMMA LoggedClosing ==
    ASSUME NEW l \in Seq(Event), NEW op \in Closings, NEW row, NEW key, NEW t
    PROVE  Logged(l, op, row, key, t) = l
BY ConcatEmptySeq DEF EventsOf, Logged

\* The second log has one more event of the types T if op is one of them.
CountedOnce(T, op, l, l2) ==
    "BREAK_END" \notin T =>
        /\ Count(T, l) \in Nat
        /\ Count(T, l2) = IF EventType(op) \in T THEN Count(T, l) + 1 ELSE Count(T, l)

\* An operation that is not a closing appends its main event, a resume that
\* ends a break appends a BREAK_END before it.
LEMMA LoggedMain ==
    ASSUME NEW l, NEW op, NEW row, NEW key, NEW t, NEW l2,
           l2 = Logged(l, op, row, key, t), l \in Seq(Event),
           op \in Ops, op \notin Closings, key \in Keys \cup {None}, t \in Nat
    PROVE  /\ l2 \in Seq(Event) /\ DOMAIN l = 1..Len(l) /\ DOMAIN l2 = 1..Len(l2)
           /\ Len(l) \in Nat
           /\ ResumesBreak(op, row) => Len(l2) = Len(l) + 2
           /\ ~ ResumesBreak(op, row) => Len(l2) = Len(l) + 1
           /\ \A i \in 1..Len(l) : l2[i] = l[i]
           /\ ResumesBreak(op, row) => l2[Len(l) + 1] = BreakEnd(key, t)
           /\ l2[Len(l2)] = MainEvent(op, key, t)
           /\ \A T : CountedOnce(T, op, l, l2)
<1> DEFINE main == MainEvent(op, key, t)
           be == BreakEnd(key, t)
<1>1. main \in Event /\ main.type = EventType(op)
  BY DEF Ops, Starts, Ends, Closings, EventType, Event, EventTypes, MainEvent
<1>2. be \in Event /\ be.type = "BREAK_END"
  BY DEF Event, EventTypes, BreakEndKey, BreakEnd
<1>3. EventsOf(op, row, key, t) =
        IF ResumesBreak(op, row) THEN <<be, main>> ELSE <<main>>
  BY DEF EventsOf, ResumesBreak, BreakEnd, MainEvent
<1> HIDE DEF main, be
<1>4. l \o <<main>> = Append(l, main) /\ l \o <<be, main>> = Append(Append(l, be), main)
  BY <1>1, <1>2
<1>5. CASE ResumesBreak(op, row)
  <2>1. l2 = Append(Append(l, be), main)
    BY <1>3, <1>4, <1>5 DEF Logged
  <2> DEFINE m == Append(l, be)
  <2>2. /\ m \in Seq(Event) /\ Len(m) = Len(l) + 1 /\ Len(l) \in Nat
        /\ DOMAIN l = 1..Len(l) /\ \A i \in 1..Len(l) : m[i] = l[i]
        /\ m[Len(l) + 1] = be
        /\ \A T : "BREAK_END" \notin T =>
              Count(T, m) = Count(T, l) /\ Count(T, l) \in Nat
    BY <1>2, AppendOne, CountAppend
  <2>3. l2 = Append(m, main)
    BY <2>1
  <2> HIDE DEF m
  <2>4. /\ l2 \in Seq(Event) /\ Len(l2) = Len(m) + 1
        /\ DOMAIN l2 = 1..(Len(m) + 1)
        /\ \A i \in 1..Len(m) : l2[i] = m[i]
        /\ l2[Len(m) + 1] = main
        /\ \A T : Count(T, l2) = IF EventType(op) \in T THEN Count(T, m) + 1
                                 ELSE Count(T, m)
    BY <1>1, <2>2, <2>3, AppendOne, CountAppend
  <2> QED
    BY <1>5, <2>2, <2>4 DEF main, be, CountedOnce
<1>6. CASE ~ ResumesBreak(op, row)
  <2>1. l2 = Append(l, main)
    BY <1>3, <1>4, <1>6 DEF Logged
  <2>2. /\ l2 \in Seq(Event) /\ Len(l2) = Len(l) + 1 /\ Len(l) \in Nat
        /\ DOMAIN l = 1..Len(l) /\ DOMAIN l2 = 1..(Len(l) + 1)
        /\ \A i \in 1..Len(l) : l2[i] = l[i]
        /\ l2[Len(l) + 1] = main
        /\ \A T : /\ Count(T, l) \in Nat
                  /\ Count(T, l2) = IF EventType(op) \in T THEN Count(T, l) + 1
                                    ELSE Count(T, l)
    BY <1>1, <2>1, AppendOne, CountAppend
  <2> QED
    BY <1>6, <2>2 DEF main, CountedOnce
<1> QED
  BY <1>5, <1>6

LEMMA OutcomeOfMain ==
    ASSUME NEW op \in Ops \ Closings
    PROVE  /\ Outcome(EventType(op)) = Target(op)
           /\ EventType(op) # "BREAK_END"
           /\ EventType(op) = "BREAK_START" <=> op = "break"
BY DEF Ops, Starts, Ends, Closings, EventType, Outcome, Target

-----------------------------------------------------------------------------
(* The state of a row, its last event and its breaks are written together, *)
(* also by a transaction whose reads are stale.                            *)

RecordInv == StateIsLastEvent /\ BreaksAreRecorded

LEMMA OperatedRecords ==
    ASSUME TypeInv, RecordInv, NEW w \in Workers, NEW s \in ShiftIds,
           Operated(txn[w], s)
    PROVE  /\ shifts'[s].state \notin {"MISSED", "CANCELLED"} =>
                 shifts'[s].state = StateAfter(s, Len(log[s]))'
           /\ Len(breaks'[s]) = Count({"BREAK_START"}, log'[s])
<1> DEFINE tx == txn[w]
           op == AppliedOp(tx, s)
<1>1. /\ op \in Ops /\ shifts'[s].state = Target(op)
      /\ log'[s] = Logged(log[s], op, tx.old[s], tx.key, tx.at)
      /\ breaks'[s] = BreaksAfter(op, tx.old[s], breaks[s], tx.close[s], tx.at)
      /\ s \in Loaded(tx)
  BY DEF Operated
<1>2. /\ tx.key \in Keys \cup {None} /\ tx.at \in Nat /\ tx.close[s] \in Nat
      /\ log[s] \in Seq(Event) /\ breaks[s] \in Seq(Break)
  BY DEF TypeInv, TypeOK, Txn
<1>3. tx.old[s] \in Row
  BY <1>1, OpsOfTransaction
<1>4. Len(breaks[s]) = Count({"BREAK_START"}, log[s])
  BY DEF RecordInv, BreaksAreRecorded, Count
<1>5. Len(breaks'[s]) = IF op = "break" THEN Len(breaks[s]) + 1 ELSE Len(breaks[s])
  <2> HIDE DEF tx, op
  <2>1. CASE op = "break"
    <3> DEFINE b == [started_at |-> tx.at, ended_at |-> None,
                     max |-> tx.old[s].policy.max_break, exceeded |-> FALSE]
    <3>1. breaks'[s] = Append(breaks[s], b)
      BY <1>1, <2>1 DEF BreaksAfter
    <3> QED
      BY <1>2, <2>1, <3>1
  <2>2. CASE op # "break" /\ tx.close[s] \in DOMAIN breaks[s]
    <3>1. breaks'[s] = [breaks[s] EXCEPT ![tx.close[s]] =
                          Closed(op, breaks[s][tx.close[s]], tx.at)]
      BY <1>1, <2>2 DEF BreaksAfter
    <3> QED
      BY <1>2, <2>2, <3>1
  <2>3. CASE op # "break" /\ tx.close[s] \notin DOMAIN breaks[s]
    BY <1>1, <2>3 DEF BreaksAfter
  <2> QED
    BY <2>1, <2>2, <2>3
<1> HIDE DEF op, tx
<1>6. CASE op \in Closings
  <2>1. log'[s] = log[s]
    BY <1>1, <1>2, <1>6, LoggedClosing
  <2>2. Target(op) \in {"MISSED", "CANCELLED"} /\ op # "break"
    BY <1>6 DEF Closings, Target, Starts
  <2> QED
    BY <1>1, <1>4, <1>5, <2>1, <2>2
<1>7. CASE op \notin Closings
  <2>1. /\ Len(log[s]) \in Nat
        /\ Len(log'[s]) = Len(log[s]) + 2 \/ Len(log'[s]) = Len(log[s]) + 1
        /\ log'[s][Len(log'[s])] = MainEvent(op, tx.key, tx.at)
        /\ CountedOnce({"BREAK_START"}, op, log[s], log'[s])
    BY <1>1, <1>2, <1>7, LoggedMain
  <2>2. StateAfter(s, Len(log[s]))' = Target(op)
    <3>1. Len(log'[s]) # 0 /\ log'[s][Len(log'[s])].type = EventType(op)
      BY <2>1 DEF MainEvent
    <3> QED
      BY <1>1, <1>7, <3>1, OutcomeOfMain DEF StateAfter
  <2>3. EventType(op) \in {"BREAK_START"} <=> op = "break"
    BY <1>1, <1>7, OutcomeOfMain
  <2>4. Count({"BREAK_START"}, log'[s]) =
          IF op = "break" THEN Count({"BREAK_START"}, log[s]) + 1
          ELSE Count({"BREAK_START"}, log[s])
    BY <2>1, <2>3 DEF CountedOnce
  <2> QED
    BY <1>1, <1>4, <1>5, <2>2, <2>4
<1> QED
  BY <1>6, <1>7

LEMMA StepRecords ==
    ASSUME TypeInv, DecidedInv, RecordInv, [Next]_vars
    PROVE  RecordInv'
<1>1. CASE UNCHANGED tables
  BY <1>1 DEF tables, RecordInv, StateIsLastEvent, BreaksAreRecorded, Exists, StateAfter
<1>2. ASSUME NEW w \in Workers, Commit(w) PROVE RecordInv'
  <2> SUFFICES ASSUME NEW s \in ShiftIds
               PROVE  /\ Exists(s)' /\ shifts'[s].state \notin {"MISSED", "CANCELLED"} =>
                            shifts'[s].state = StateAfter(s, Len(log[s]))'
                      /\ Len(breaks'[s]) = Count({"BREAK_START"}, log'[s])
    BY DEF RecordInv, StateIsLastEvent, BreaksAreRecorded, Count
  <2>1. Created(txn[w], s) \/ Operated(txn[w], s) \/ Kept(txn[w], s)
    BY <1>2, CommitOnShift DEF DecidedInv
  <2>2. Len(breaks[s]) = Count({"BREAK_START"}, log[s])
    BY DEF RecordInv, BreaksAreRecorded, Count
  <2>3. CASE Created(txn[w], s)
    <3>1. log'[s] = <<>> /\ log'[s] = log[s] /\ breaks'[s] = breaks[s]
      BY <2>3 DEF Created, DecidedInv, NothingBeforeCreation
    <3>2. shifts'[s].state = "AVAILABLE"
      BY <2>3 DEF Created, DecidedInv, TxnDecided, ShiftIds
    <3>3. StateAfter(s, Len(log[s]))' = "AVAILABLE"
      BY <3>1 DEF StateAfter
    <3> QED
      BY <2>2, <3>1, <3>2, <3>3
  <2>4. CASE Operated(txn[w], s)
    BY <2>4, OperatedRecords
  <2>5. CASE Kept(txn[w], s)
    BY <2>2, <2>5 DEF Kept, RecordInv, StateIsLastEvent, Exists, StateAfter
  <2> QED
    BY <2>1, <2>3, <2>4, <2>5
<1> QED
  BY <1>1, <1>2, OnlyCommitsWrite

LEMMA RecordAlways == Spec => []RecordInv
<1>1. Init => RecordInv
  <2>1. {i \in DOMAIN <<>> : <<>>[i].type = "BREAK_START"} = {}
    OBVIOUS
  <2> QED
    BY <2>1, FS_EmptySet
    DEF Init, RecordInv, StateIsLastEvent, BreaksAreRecorded, Exists, NoRows
<1> QED
  BY <1>1, StepRecords, TypeInvCorrect, DecidedAlways, PTL DEF Spec

\* However requests and jobs interleave, also when a stale write revives a
\* shift, the state of a row is the one that the last event of its log
\* records, and a row without events is AVAILABLE (or MISSED or CANCELLED).
THEOREM StateIsLastEventAlways == Spec => []StateIsLastEvent
BY RecordAlways, PTL DEF RecordInv

\* Each BREAK_START of the log has its row in the breaks table and each row
\* its event, whatever was resent, lost in a crash or rolled back.
THEOREM BreaksAreRecordedAlways == Spec => []BreaksAreRecorded
BY RecordAlways, PTL DEF RecordInv
=============================================================================
