----------------------------- MODULE OfflineSync -----------------------------
(***************************************************************************)
(* The way of a monitoring event from the employee's machine to the        *)
(* database: Agent.Service queues events in SQLite (SqliteEventQueue.cs),  *)
(* posts the oldest ones as a batch and deletes them when the backend has  *)
(* answered (SyncWorker.cs); ingestion/service.py stores a batch in one    *)
(* transaction, skips the keys it has seen and binds the rows to the shift *)
(* that is active at that moment.                                          *)
(*                                                                         *)
(* An event is its sequence number: AUTOINCREMENT gives every captured     *)
(* event a new one, and its event_id is a fresh GUID.  The employee's      *)
(* shifts move as ShiftContract says, or as a transaction that has read    *)
(* them earlier leaves them.  A request may be lost, time out while the    *)
(* backend goes on with it, or be answered to an agent that has restarted; *)
(* each fault counts against MaxFaults.                                    *)
(***************************************************************************)
EXTENDS Integers, FiniteSets, Sequences

CONSTANTS
    ShiftIds, Waiting, Running, Terminal, NoShift,   \* as in ShiftContract
    Handlers,      \* bound: posts the backend works on at the same time
    BatchSize,     \* events of a batch (200)
    MaxEvents,     \* bound: events captured
    MaxFaults      \* bound: timeouts, failures and restarts

Events == 1..MaxEvents
ShiftStates == {NoShift} \cup Waiting \cup Running \cup Terminal

ASSUME SyncAssumption ==
    /\ BatchSize \in Nat \ {0} /\ MaxEvents \in Nat /\ MaxFaults \in Nat
    /\ NoShift \notin Waiting \cup Running \cup Terminal
    /\ NoShift \notin ShiftIds \cup Handlers
    /\ Terminal \cap (Waiting \cup Running) = {}

VARIABLES
    state,     \* the employee's shifts: id -> state
    view,      \* AgentState: the state of the current shift, as last heard
    pass,      \* CollectionWorker is in a pass over its collectors
    last,      \* the last sequence number given out
    queue,     \* SQLite table events: the sequence numbers it holds
    sync,      \* the handler SyncWorker waits for, NoShift when it does not
    post,      \* handler -> the request it works on
    rows,      \* monitoring tables: event -> shift ids of its rows
    ended,     \* event -> the shifts over when it was captured, and ever since
    faults     \* faults so far

agent == <<view, pass, last, queue, ended>>
vars == <<state, agent, sync, post, rows, faults>>

Contract == INSTANCE ShiftContract

-----------------------------------------------------------------------------
(* The shift, as the backend and the agent see it *)

\* Mutant: the shift is looked up without its state.
AnyShift(st) == {s \in ShiftIds : st[s] # NoShift}

\* _current_shift_id, current_shift: the shift in an active state, if any.
CurrentShift(st) == {s \in ShiftIds : st[s] \in Contract!Active}

\* _bump without a version check: what an operation has made of a row read
\* earlier is written over what the shift has become since, an end included.
\* Only uq_active_shift_per_employee can refuse it.
StaleMove == \E s \in ShiftIds, new \in Running \cup Terminal :
                /\ state[s] \in Running \cup Terminal
                /\ state' = [state EXCEPT ![s] = new]
                /\ Contract!OneActive(state')

ShiftMoves == /\ Contract!Next \/ StaleMove
              /\ state' # state
              /\ ended' = [n \in Events |-> {s \in ended[n] : state'[s] \in Terminal}]
              /\ UNCHANGED <<view, pass, last, queue, sync, post, rows, faults>>

\* A heartbeat that succeeds; one that fails leaves the view as it is.
Heartbeat ==
    /\ view' = IF CurrentShift(state) = {} THEN NoShift
               ELSE state[CHOOSE s \in CurrentShift(state) : TRUE]
    /\ UNCHANGED <<state, pass, last, queue, ended, sync, post, rows, faults>>

-----------------------------------------------------------------------------
(* Collecting.  MonitoringActive is read once for a pass. *)

StartPass == /\ ~ pass /\ view = "WORKING"
             /\ pass' = TRUE
             /\ UNCHANGED <<state, view, last, queue, ended, sync, post, rows, faults>>

\* Mutant: last_insert_rowid is read before the INSERT.
EnqueueReadFirst ==
    /\ pass /\ last < MaxEvents
    /\ queue' = queue \cup {last + 1}
    /\ ended' = [ended EXCEPT ![last + 1] = {s \in ShiftIds : state[s] \in Terminal}]
    /\ UNCHANGED <<state, view, pass, last, sync, post, rows, faults>>

\* INSERT with the next AUTOINCREMENT number.
EnqueueAsync ==
    /\ pass /\ last < MaxEvents
    /\ last' = last + 1
    /\ queue' = queue \cup {last + 1}
    /\ ended' = [ended EXCEPT ![last + 1] = {s \in ShiftIds : state[s] \in Terminal}]
    /\ UNCHANGED <<state, view, pass, sync, post, rows, faults>>

EndPass == /\ pass
           /\ pass' = FALSE
           /\ UNCHANGED <<state, view, last, queue, ended, sync, post, rows, faults>>

-----------------------------------------------------------------------------
(* SyncWorker: one batch at a time *)

Free == [pc |-> "free", batch |-> {}, shift |-> NoShift, fresh |-> {}]

\* Mutant: the newest events first.
NewestBatch(q) == {n \in q : Cardinality({m \in q : m > n}) < BatchSize}

\* PeekBatchAsync: the oldest BatchSize events.
PeekBatch(q) == {n \in q : Cardinality({m \in q : m < n}) < BatchSize}

\* Mutant: the acknowledgement empties the queue.
AckAll(q, batch) == {}

\* AckAsync(batch[^1].Sequence): what stays in the queue.
AckAsync(q, batch) == {n \in q : \A m \in batch : m < n}

Send(h) ==
    /\ sync = NoShift /\ queue # {} /\ post[h].pc = "free"
    /\ sync' = h
    /\ post' = [post EXCEPT ![h] = [Free EXCEPT !.pc = "received",
                                                !.batch = PeekBatch(queue)]]
    /\ UNCHANGED <<state, agent, rows, faults>>

Acknowledge(h) ==
    /\ sync = h /\ post[h].pc = "committed"
    /\ queue' = AckAsync(queue, post[h].batch)
    /\ sync' = NoShift
    /\ post' = [post EXCEPT ![h] = Free]
    /\ UNCHANGED <<state, view, pass, last, ended, rows, faults>>

\* EnsureSuccessStatusCode throws: back off and peek again.
BackOff(h) ==
    /\ sync = h /\ post[h].pc = "failed"
    /\ sync' = NoShift
    /\ post' = [post EXCEPT ![h] = Free]
    /\ UNCHANGED <<state, agent, rows, faults>>

-----------------------------------------------------------------------------
(* ingest_batch *)

BindShift(h) ==
    /\ post[h].pc = "received"
    /\ \E s \in IF CurrentShift(state) = {} THEN {NoShift} ELSE CurrentShift(state) :
          post' = [post EXCEPT ![h].pc = "bound", ![h].shift = s]
    /\ UNCHANGED <<state, agent, sync, rows, faults>>

\* Mutant: no deduplication before the insert.
AllOf(batch) == batch

\* _seen: the events of the batch that have no row yet.
Unseen(batch) == {n \in batch : rows[n] = <<>>}

Dedup(h) ==
    /\ post[h].pc = "bound"
    /\ post' = [post EXCEPT ![h].pc = "checked", ![h].fresh = Unseen(post[h].batch)]
    /\ UNCHANGED <<state, agent, sync, rows, faults>>

\* Mutant: no unique index on event_key.
NoEventIndex(fresh) == TRUE

\* The unique indexes on (organization_id, event_key).  A second insert of
\* a key waits for the first transaction, and fails when it commits.
EventIndexOK(fresh) == \A n \in fresh : rows[n] = <<>>

Store(h) ==
    /\ post[h].pc = "checked" /\ EventIndexOK(post[h].fresh)
    /\ rows' = [n \in Events |-> IF n \in post[h].fresh
                                 THEN Append(rows[n], post[h].shift) ELSE rows[n]]
    /\ post' = [post EXCEPT ![h].pc = "committed"]
    /\ UNCHANGED <<state, agent, sync, faults>>

\* IntegrityError: another request has stored one of the events since.
Refuse(h) ==
    /\ post[h].pc = "checked" /\ ~ EventIndexOK(post[h].fresh)
    /\ post' = [post EXCEPT ![h].pc = "failed"]
    /\ UNCHANGED <<state, agent, sync, rows, faults>>

\* Nobody waits for the answer any more.
Discard(h) ==
    /\ sync # h /\ post[h].pc \in {"committed", "failed"}
    /\ post' = [post EXCEPT ![h] = Free]
    /\ UNCHANGED <<state, agent, sync, rows, faults>>

-----------------------------------------------------------------------------
(* Faults *)

Fault == faults < MaxFaults /\ faults' = faults + 1

\* HttpClient gives up, the answer is lost, or AckAsync throws.
Timeout == /\ Fault /\ sync # NoShift
           /\ sync' = NoShift
           /\ UNCHANGED <<state, agent, post, rows>>

\* The request does not arrive, or its handler dies before the commit.
RequestFails(h) ==
    /\ Fault /\ post[h].pc \in {"received", "bound", "checked"}
    /\ post' = [post EXCEPT ![h].pc = "failed"]
    /\ UNCHANGED <<state, agent, sync, rows>>

\* The agent process ends and comes back with its SQLite file only.
AgentRestart == /\ Fault
                /\ view' = NoShift /\ pass' = FALSE /\ sync' = NoShift
                /\ UNCHANGED <<state, last, queue, ended, post, rows>>

-----------------------------------------------------------------------------

Init == /\ Contract!Init
        /\ view = NoShift /\ pass = FALSE
        /\ last = 0 /\ queue = {}
        /\ sync = NoShift
        /\ post = [h \in Handlers |-> Free]
        /\ rows = [n \in Events |-> <<>>]
        /\ ended = [n \in Events |-> {}]
        /\ faults = 0

Handle(h) == BindShift(h) \/ Dedup(h) \/ Store(h) \/ Refuse(h) \/ Discard(h)
Answered(h) == Acknowledge(h) \/ BackOff(h)

Next == \/ ShiftMoves \/ Heartbeat
        \/ StartPass \/ EnqueueAsync \/ EndPass
        \/ \E h \in Handlers : Send(h) \/ Answered(h) \/ Handle(h) \/ RequestFails(h)
        \/ Timeout \/ AgentRestart

Spec == Init /\ [][Next]_vars

\* SyncWorker loops for ever, and a request that reached the backend ends.
Fairness == /\ WF_vars(\E h \in Handlers : Send(h))
            /\ \A h \in Handlers : WF_vars(Answered(h)) /\ WF_vars(Handle(h))

FairSpec == Spec /\ Fairness

-----------------------------------------------------------------------------
(* Properties *)

Stored == {n \in Events : rows[n] # <<>>}

Post == [pc: {"free", "received", "bound", "checked", "committed", "failed"},
         batch: SUBSET Events, shift: ShiftIds \cup {NoShift}, fresh: SUBSET Events]

\* Every variable has its type, and the queue holds captured events only.
SyncTypeOK ==
    /\ state \in [ShiftIds -> ShiftStates]
    /\ view \in ShiftStates /\ pass \in BOOLEAN
    /\ last \in 0..MaxEvents /\ queue \in SUBSET (1..last)
    /\ sync \in Handlers \cup {NoShift}
    /\ post \in [Handlers -> Post]
    /\ rows \in [Events -> Seq(ShiftIds \cup {NoShift})]
    /\ ended \in [Events -> SUBSET ShiftIds]
    /\ faults \in 0..MaxFaults

\* No event is lost between the queue and the database: SyncWorker deletes
\* only what the backend has stored, also events captured while it waited,
\* whatever answers were lost and whichever process restarted.
NothingLost == \A n \in 1..last : n \in queue \/ n \in Stored

\* "re-sending an un-acked batch never double-counts" (SyncWorker.cs): also
\* when the first request is still at work on the batch.
StoredOnce == \A n \in Events : Len(rows[n]) =< 1

\* An event is never bound to a shift that was over when it was captured and
\* that nothing has revived since, however stale the agent's view, however
\* late the upload and whatever the shift does between lookup and commit.
NotBoundToEndedShift ==
    \A n \in Events : \A i \in DOMAIN rows[n] : rows[n][i] \notin ended[n]

\* The queue and the tables together are the abstract stream: events arrive
\* in the order of their capture, without gaps, and the stream catches up.
Stream == INSTANCE EventStream WITH captured <- last, received <- Stored
StreamSpec == Stream!Spec
StreamFairSpec == Stream!FairSpec

\* Once the faults are over, every queued event is stored and deleted from
\* the agent's disk.
QueueDrains == \A n \in Events : n \in queue ~> n \notin queue
=============================================================================
