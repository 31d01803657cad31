-------------------------- MODULE OfflineSync_proofs --------------------------
(***************************************************************************)
(* Proofs about OfflineSync for any number of handlers, shifts, events and *)
(* faults: type correctness, that no event is lost or stored twice, that   *)
(* the tables are a prefix of what was captured (the refinement of         *)
(* EventStream), and that no event is bound to a shift that was over when  *)
(* it was captured and has stayed so.                                      *)
(***************************************************************************)
EXTENDS OfflineSync, FiniteSetTheorems, TLAPS

USE SyncAssumption

LEMMA TypeInit == Init => SyncTypeOK
<1> SUFFICES ASSUME Init PROVE SyncTypeOK
  OBVIOUS
<1>1. last \in 0..MaxEvents /\ queue \in SUBSET (1..last) /\ faults \in 0..MaxFaults
  BY DEF Init
<1>2. state \in [ShiftIds -> ShiftStates] /\ view \in ShiftStates
  BY DEF Init, Contract!Init, ShiftStates
<1>3. post \in [Handlers -> Post]
  BY DEF Init, Free, Post
<1>4. /\ rows \in [Events -> Seq(ShiftIds \cup {NoShift})]
      /\ ended \in [Events -> SUBSET ShiftIds]
  BY DEF Init
<1> QED
  BY <1>1, <1>2, <1>3, <1>4 DEF Init, SyncTypeOK

LEMMA PostFields ==
    ASSUME NEW p \in Post, NEW s \in ShiftIds \cup {NoShift}, NEW F \in SUBSET Events
    PROVE  /\ [p EXCEPT !.pc = "bound", !.shift = s] \in Post
           /\ [p EXCEPT !.pc = "checked", !.fresh = F] \in Post
           /\ \A c \in {"committed", "failed"} : [p EXCEPT !.pc = c] \in Post
BY DEF Post

\* Every step keeps the types; the batch of a request is a set of events.
LEMMA TypeStep == SyncTypeOK /\ [Next]_vars => SyncTypeOK'
<1> SUFFICES ASSUME SyncTypeOK, [Next]_vars PROVE SyncTypeOK'
  OBVIOUS
<1> USE DEF SyncTypeOK, Post, agent
<1>0. Events = 1..MaxEvents /\ last \in Nat /\ queue \subseteq Events
  BY DEF Events
<1>1. CASE ShiftMoves
  <2>1. state' \in [ShiftIds -> ShiftStates]
    <3>1. CASE Contract!Next
      BY <3>1 DEF Contract!Next, ShiftStates
    <3>2. CASE StaleMove
      BY <3>2 DEF StaleMove, ShiftStates
    <3> QED
      BY <1>1, <3>1, <3>2 DEF ShiftMoves
  <2>2. ended' \in [Events -> SUBSET ShiftIds]
    BY <1>1 DEF ShiftMoves
  <2> QED
    BY <1>1, <2>1, <2>2 DEF ShiftMoves
<1>2. CASE Heartbeat
  <2>1. view' \in ShiftStates
    <3>1. CASE CurrentShift(state) = {}
      BY <1>2, <3>1 DEF Heartbeat, ShiftStates
    <3>2. CASE CurrentShift(state) # {}
      <4>1. (CHOOSE s \in CurrentShift(state) : TRUE) \in ShiftIds
        BY <3>2 DEF CurrentShift
      <4> QED
        BY <1>2, <3>2, <4>1 DEF Heartbeat
    <3> QED
      BY <3>1, <3>2
  <2> QED
    BY <1>2, <2>1 DEF Heartbeat
<1>3. CASE StartPass
  BY <1>3 DEF StartPass
<1>4. CASE EnqueueAsync
  <2>1. last' = last + 1 /\ last' \in 0..MaxEvents /\ last + 1 \in Events
    BY <1>4, <1>0 DEF EnqueueAsync
  <2>2. queue' \in SUBSET (1..last')
    BY <1>4, <2>1 DEF EnqueueAsync
  <2>3. ended' \in [Events -> SUBSET ShiftIds]
    BY <1>4, <2>1 DEF EnqueueAsync
  <2> QED
    BY <1>4, <2>1, <2>2, <2>3 DEF EnqueueAsync
<1>5. CASE EndPass
  BY <1>5 DEF EndPass
<1>6. ASSUME NEW h \in Handlers, Send(h) PROVE SyncTypeOK'
  <2>1. PeekBatch(queue) \in SUBSET Events
    BY <1>0 DEF PeekBatch
  <2> QED
    BY <1>6, <2>1 DEF Send, Free
<1>7. ASSUME NEW h \in Handlers, Answered(h) PROVE SyncTypeOK'
  <2>1. CASE Acknowledge(h)
    BY <1>7, <2>1 DEF Acknowledge, AckAsync, Free
  <2>2. CASE BackOff(h)
    BY <1>7, <2>2 DEF BackOff, Free
  <2> QED
    BY <1>7, <2>1, <2>2 DEF Answered
<1>8. ASSUME NEW h \in Handlers, Handle(h) PROVE SyncTypeOK'
  <2>1. CASE BindShift(h)
    <3>1. PICK s \in ShiftIds \cup {NoShift} :
            post' = [post EXCEPT ![h].pc = "bound", ![h].shift = s]
      BY <2>1 DEF BindShift, CurrentShift
    <3>2. [post[h] EXCEPT !.pc = "bound", !.shift = s] \in Post
      <4> HIDE DEF Post
      <4> QED
        BY PostFields
    <3>3. post' \in [Handlers -> Post]
      <4> HIDE DEF Post
      <4> QED
        BY <3>1, <3>2
    <3> QED
      BY <2>1, <3>3 DEF BindShift
  <2>2. CASE Dedup(h)
    <3>1. Unseen(post[h].batch) \in SUBSET Events
      BY DEF Unseen
    <3>2. post' \in [Handlers -> Post]
      <4> HIDE DEF Post
      <4> QED
        BY <2>2, <3>1, PostFields DEF Dedup
    <3> QED
      BY <2>2, <3>2 DEF Dedup
  <2>3. CASE Store(h)
    <3>1. rows' \in [Events -> Seq(ShiftIds \cup {NoShift})]
      BY <2>3 DEF Store
    <3>2. post' \in [Handlers -> Post]
      <4> HIDE DEF Post
      <4> QED
        BY <2>3, PostFields DEF Store
    <3> QED
      BY <2>3, <3>1, <3>2 DEF Store
  <2>4. CASE Refuse(h)
    <3>1. post' \in [Handlers -> Post]
      <4> HIDE DEF Post
      <4> QED
        BY <2>4, PostFields DEF Refuse
    <3> QED
      BY <2>4, <3>1 DEF Refuse
  <2>5. CASE Discard(h)
    BY <2>5 DEF Discard, Free
  <2> QED
    BY <1>8, <2>1, <2>2, <2>3, <2>4, <2>5 DEF Handle
<1>9. ASSUME NEW h \in Handlers, RequestFails(h) PROVE SyncTypeOK'
  <2>1. post' \in [Handlers -> Post]
    <3> HIDE DEF Post
    <3> QED
      BY <1>9, PostFields DEF RequestFails
  <2>2. faults' \in 0..MaxFaults
    BY <1>9 DEF RequestFails, Fault
  <2> QED
    BY <1>9, <2>1, <2>2 DEF RequestFails
<1>10. CASE Timeout
  BY <1>10 DEF Timeout, Fault
<1>11. CASE AgentRestart
  <2>1. faults' \in 0..MaxFaults /\ view' \in ShiftStates
    BY <1>11 DEF AgentRestart, Fault, ShiftStates
  <2> QED
    BY <1>11, <2>1 DEF AgentRestart
<1>12. CASE UNCHANGED vars
  BY <1>12 DEF vars
<1> QED
  BY <1>1, <1>2, <1>3, <1>4, <1>5, <1>6, <1>7, <1>8, <1>9, <1>10, <1>11, <1>12
  DEF Next

\* Every variable has its type, in every behaviour of the agent and backend.
THEOREM SyncTypeCorrect == Spec => []SyncTypeOK
<1> QED
  BY TypeInit, TypeStep, PTL DEF Spec

-----------------------------------------------------------------------------
(* Delivery.  A request works on a batch without gaps: what precedes an    *)
(* event of the batch is in the batch or stored already, whatever happens  *)
(* to the queue meanwhile.                                                 *)

GapFree(batch) == \A n \in batch : \A m \in 1..n : m \in batch \/ m \in Stored

PostOK(h) ==
    /\ post[h].batch \subseteq 1..last
    /\ post[h].fresh \subseteq post[h].batch
    /\ GapFree(post[h].batch)
    /\ post[h].pc = "checked" => post[h].batch \ post[h].fresh \subseteq Stored
    /\ post[h].pc = "committed" => post[h].batch \subseteq Stored

DeliveryInv == /\ Stored \subseteq 1..last
               /\ Stream!Prefix(Stored)
               /\ NothingLost
               /\ \A h \in Handlers : PostOK(h)

LEMMA DeliveryInit == Init => DeliveryInv
BY DEF Init, DeliveryInv, Stored, Stream!Prefix, NothingLost, PostOK, GapFree, Free,
       Events

\* PeekBatch takes a prefix of the queue.
LEMMA PeekIsPrefix ==
    ASSUME NEW q \in SUBSET Events, NEW n \in PeekBatch(q), NEW m \in q, m < n
    PROVE  m \in PeekBatch(q)
<1> DEFINE below(k) == {j \in q : j < k}
<1>0. MaxEvents \in Int /\ n \in q /\ q \subseteq Int
  BY DEF Events, PeekBatch
<1>1. IsFiniteSet(q)
  <2>1. IsFiniteSet(1..MaxEvents)
    BY <1>0, FS_Interval
  <2> QED
    BY <2>1, FS_Subset DEF Events
<1>2. below(m) \subseteq below(n) /\ below(n) \subseteq q
  <2>1. ASSUME NEW j \in q, j < m PROVE j < n
    <3>1. j \in Int /\ m \in Int /\ n \in Int
      BY <1>0
    <3> QED
      BY <2>1, <3>1
  <2> QED
    BY <2>1
<1>3. IsFiniteSet(below(n)) /\ Cardinality(below(m)) =< Cardinality(below(n))
  <2>1. IsFiniteSet(below(n))
    BY <1>1, <1>2, FS_Subset
  <2> QED
    BY <1>2, <2>1, FS_Subset
<1>4. Cardinality(below(m)) \in Nat /\ Cardinality(below(n)) \in Nat
  BY <1>2, <1>3, FS_Subset, FS_CardinalityType
<1>5. Cardinality(below(n)) < BatchSize
  BY DEF PeekBatch
<1>6. Cardinality(below(m)) < BatchSize
  BY <1>3, <1>4, <1>5
<1> QED
  BY <1>6 DEF PeekBatch

\* A request that ends, or fails, or has bound its rows, is still in order.
LEMMA PostChange ==
    ASSUME SyncTypeOK, DeliveryInv, NEW h \in Handlers, NEW q \in Post,
           post' = [post EXCEPT ![h] = q], UNCHANGED <<last, rows>>, NothingLost',
           \/ q = Free
           \/ /\ q.batch = post[h].batch /\ q.fresh \subseteq q.batch
              /\ q.pc = "checked" => q.batch \ q.fresh \subseteq Stored
              /\ q.pc # "committed"
    PROVE  DeliveryInv'
<1>1. Stored' = Stored /\ last' = last
  BY DEF Stored
<1>2. ASSUME NEW g \in Handlers PROVE PostOK(g)'
  <2>1. CASE g # h
    <3>1. post'[g] = post[g]
      BY <2>1 DEF SyncTypeOK
    <3> QED
      BY <1>1, <3>1 DEF DeliveryInv, PostOK, GapFree
  <2>2. CASE g = h
    <3>1. post'[g] = q
      BY <2>2 DEF SyncTypeOK
    <3>2. CASE q = Free
      BY <1>1, <3>1, <3>2 DEF PostOK, GapFree, Free
    <3>3. CASE q # Free
      BY <1>1, <2>2, <3>1, <3>3 DEF DeliveryInv, PostOK, GapFree
    <3> QED
      BY <3>2, <3>3
  <2> QED
    BY <2>1, <2>2
<1> QED
  BY <1>1, <1>2 DEF DeliveryInv, Stream!Prefix

\* A step that moves neither the queue, nor a request, nor a table.
LEMMA DeliveryIdle ==
    DeliveryInv /\ UNCHANGED <<last, queue, post, rows>> => DeliveryInv'
<1> SUFFICES ASSUME DeliveryInv, UNCHANGED <<last, queue, post, rows>>
             PROVE  DeliveryInv'
  OBVIOUS
<1>1. Stored' = Stored
  BY DEF Stored
<1> QED
  BY <1>1 DEF DeliveryInv, Stream!Prefix, NothingLost, PostOK, GapFree

\* A new batch has no gaps: what precedes it is in the queue, and then in
\* the batch, or has been stored.
LEMMA DeliverySend ==
    ASSUME SyncTypeOK, DeliveryInv, NEW h \in Handlers, Send(h)
    PROVE  DeliveryInv'
<1> DEFINE b == PeekBatch(queue)
           p == [Free EXCEPT !.pc = "received", !.batch = b]
<1>0. /\ queue \in SUBSET Events /\ last \in Nat /\ last =< MaxEvents
      /\ queue \subseteq 1..last /\ b \subseteq queue
  BY DEF SyncTypeOK, Events, PeekBatch
<1>1. Stored' = Stored /\ last' = last /\ queue' = queue
  BY DEF Send, Stored, agent
<1>2. ASSUME NEW n \in b, NEW m \in 1..n PROVE m \in b \/ m \in Stored
  <2>0. n \in 1..last /\ m \in 1..last /\ m =< n
    <3>1. n \in 1..last
      BY <1>0
    <3> QED
      BY <1>0, <3>1
  <2>1. m \in queue \/ m \in Stored
    BY <2>0 DEF DeliveryInv, NothingLost
  <2>2. CASE m \in queue /\ m < n
    BY <1>0, <2>2, PeekIsPrefix
  <2>3. CASE m = n
    BY <2>3
  <2>4. m < n \/ m = n
    BY <1>0, <2>0
  <2> QED
    BY <2>1, <2>2, <2>3, <2>4
<1>3. post' = [post EXCEPT ![h] = p]
  BY DEF Send
<1>4. p.pc = "received" /\ p.batch = b /\ p.fresh = {}
  BY DEF Free
<1>5. ASSUME NEW g \in Handlers PROVE PostOK(g)'
  <2>1. CASE g # h
    <3>1. post'[g] = post[g]
      BY <1>3, <2>1 DEF SyncTypeOK
    <3> QED
      BY <1>1, <3>1 DEF DeliveryInv, PostOK, GapFree
  <2>2. CASE g = h
    <3>1. post'[g] = p
      BY <1>3, <2>2 DEF SyncTypeOK
    <3>2. /\ post'[g].batch = b /\ post'[g].fresh = {} /\ post'[g].pc = "received"
      BY <3>1, <1>4
    <3> HIDE DEF b, p
    <3> QED
      BY <1>0, <1>1, <1>2, <3>2 DEF PostOK, GapFree
  <2> QED
    BY <2>1, <2>2
<1> QED
  BY <1>1, <1>5 DEF DeliveryInv, Stream!Prefix, NothingLost

\* AckAsync deletes up to the last of a stored batch without gaps, hence
\* stored events only.
LEMMA DeliveryAck ==
    ASSUME SyncTypeOK, DeliveryInv, NEW h \in Handlers, Acknowledge(h)
    PROVE  DeliveryInv'
<1>0. post[h].pc = "committed" /\ PostOK(h) /\ last \in Nat
  BY DEF Acknowledge, DeliveryInv, SyncTypeOK
<1>1. Stored' = Stored /\ last' = last
  BY DEF Acknowledge, Stored
<1>2. ASSUME NEW n \in 1..last PROVE n \in queue' \/ n \in Stored
  <2>1. CASE n \notin queue
    BY <2>1 DEF DeliveryInv, NothingLost
  <2>2. CASE n \in queue /\ \A m \in post[h].batch : m < n
    BY <2>2 DEF Acknowledge, AckAsync
  <2>3. ASSUME NEW m \in post[h].batch, ~(m < n) PROVE n \in Stored
    <3>1. m \in 1..last
      BY <1>0 DEF PostOK
    <3>2. n \in 1..m
      BY <1>0, <2>3, <3>1
    <3>3. n \in post[h].batch \/ n \in Stored
      BY <1>0, <3>2 DEF PostOK, GapFree
    <3> QED
      BY <1>0, <3>3 DEF PostOK
  <2> QED
    BY <2>1, <2>2, <2>3
<1>3. NothingLost'
  BY <1>1, <1>2 DEF NothingLost
<1>4. Free \in Post /\ post' = [post EXCEPT ![h] = Free] /\ UNCHANGED <<last, rows>>
  BY DEF Free, Post, Acknowledge
<1> QED
  BY <1>3, <1>4, PostChange

\* A captured event is not in any batch yet.
LEMMA DeliveryEnqueue ==
    ASSUME SyncTypeOK, DeliveryInv, EnqueueAsync
    PROVE  DeliveryInv'
<1>1. /\ Stored' = Stored /\ post' = post /\ last' = last + 1 /\ last \in Nat
      /\ queue' = queue \cup {last + 1}
  BY DEF EnqueueAsync, Stored, SyncTypeOK
<1>2. 1..last \subseteq 1..last' /\ \A n \in 1..last' : n \in 1..last \/ n = last + 1
  BY <1>1
<1>3. NothingLost'
  BY <1>1, <1>2 DEF DeliveryInv, NothingLost
<1>4. ASSUME NEW g \in Handlers PROVE PostOK(g)'
  BY <1>1, <1>2 DEF DeliveryInv, PostOK, GapFree
<1> QED
  BY <1>1, <1>2, <1>3, <1>4 DEF DeliveryInv, Stream!Prefix

\* What Store adds to the tables.
LEMMA StoreAdds ==
    ASSUME SyncTypeOK, NEW h \in Handlers, Store(h)
    PROVE  /\ Stored' = Stored \cup post[h].fresh
           /\ \A n \in Events \ post[h].fresh : rows'[n] = rows[n]
           /\ \A n \in post[h].fresh : rows[n] = <<>> /\ rows'[n] = <<post[h].shift>>
<1>1. post[h].fresh \subseteq Events
  BY DEF SyncTypeOK, Post
<1>2. ASSUME NEW n \in post[h].fresh
      PROVE  rows[n] = <<>> /\ rows'[n] = <<post[h].shift>>
  <2>1. rows[n] = <<>>
    BY DEF Store, EventIndexOK
  <2>2. rows'[n] = Append(rows[n], post[h].shift)
    BY <1>1 DEF Store
  <2> QED
    BY <2>1, <2>2
<1>3. \A n \in Events \ post[h].fresh : rows'[n] = rows[n]
  BY DEF Store
<1>4. \A n \in post[h].fresh : rows'[n] # <<>> /\ n \in Events
  BY <1>1, <1>2
<1> QED
  BY <1>2, <1>3, <1>4 DEF Stored

\* After Store the whole batch is in the tables, and they have no gap.
LEMMA DeliveryStore ==
    ASSUME SyncTypeOK, DeliveryInv, NEW h \in Handlers, Store(h)
    PROVE  DeliveryInv'
<1>0. /\ post[h].pc = "checked" /\ PostOK(h)
      /\ last' = last /\ queue' = queue
      /\ post' = [post EXCEPT ![h].pc = "committed"]
  BY DEF Store, DeliveryInv, agent
<1>1. Stored' = Stored \cup post[h].fresh
  BY StoreAdds
<1>2. post[h].batch \subseteq Stored'
  BY <1>0, <1>1 DEF PostOK
<1>3. Stored' \subseteq 1..last
  BY <1>0, <1>1 DEF DeliveryInv, PostOK
<1>4. Stream!Prefix(Stored')
  <2>1. ASSUME NEW n \in Stored', NEW m \in 1..n PROVE m \in Stored'
    <3>1. CASE n \in Stored
      BY <1>1, <3>1 DEF DeliveryInv, Stream!Prefix
    <3>2. CASE n \in post[h].batch
      BY <1>0, <1>1, <1>2, <3>2 DEF PostOK, GapFree
    <3> QED
      BY <1>0, <1>1, <3>1, <3>2 DEF PostOK
  <2> QED
    BY <2>1 DEF Stream!Prefix
<1>5. ASSUME NEW g \in Handlers PROVE PostOK(g)'
  <2>1. CASE g # h
    <3>1. post'[g] = post[g]
      BY <1>0, <2>1 DEF SyncTypeOK
    <3> QED
      BY <1>0, <1>1, <3>1 DEF DeliveryInv, PostOK, GapFree
  <2>2. CASE g = h
    <3>1. /\ post'[g].batch = post[h].batch /\ post'[g].fresh = post[h].fresh
          /\ post'[g].pc = "committed"
      BY <1>0, <2>2 DEF SyncTypeOK, Post
    <3> QED
      BY <1>0, <1>1, <1>2, <3>1 DEF PostOK, GapFree
  <2> QED
    BY <2>1, <2>2
<1>6. NothingLost'
  BY <1>0, <1>1 DEF DeliveryInv, NothingLost
<1> QED
  BY <1>0, <1>3, <1>4, <1>5, <1>6 DEF DeliveryInv, Stream!Prefix

LEMMA DeliveryStep == SyncTypeOK /\ DeliveryInv /\ [Next]_vars => DeliveryInv'
<1> SUFFICES ASSUME SyncTypeOK, DeliveryInv, [Next]_vars PROVE DeliveryInv'
  OBVIOUS
<1>1. CASE UNCHANGED <<last, queue, post, rows>>
  BY <1>1, DeliveryIdle
<1>2. CASE EnqueueAsync
  BY <1>2, DeliveryEnqueue
<1>3. ASSUME NEW h \in Handlers,
             Send(h) \/ Answered(h) \/ Handle(h) \/ RequestFails(h)
      PROVE  DeliveryInv'
  <2>0. post[h] \in Post /\ Free \in Post /\ PostOK(h)
    BY DEF SyncTypeOK, DeliveryInv, Free, Post
  <2>1. ASSUME NEW q \in Post, post' = [post EXCEPT ![h] = q],
               UNCHANGED <<last, queue, rows>>,
               \/ q = Free
               \/ /\ q.batch = post[h].batch /\ q.fresh \subseteq q.batch
                  /\ q.pc = "checked" => q.batch \ q.fresh \subseteq Stored
                  /\ q.pc # "committed"
        PROVE  DeliveryInv'
    <3>1. NothingLost'
      BY <2>1 DEF DeliveryInv, NothingLost, Stored
    <3> QED
      BY <2>1, <3>1, PostChange
  <2>2. CASE Send(h)
    BY <2>2, DeliverySend
  <2>3. CASE Acknowledge(h)
    BY <2>3, DeliveryAck
  <2>4. CASE BackOff(h) \/ Discard(h)
    BY <2>0, <2>1, <2>4 DEF BackOff, Discard, agent
  <2>5. CASE BindShift(h)
    <3>1. PICK s \in ShiftIds \cup {NoShift} :
            post' = [post EXCEPT ![h].pc = "bound", ![h].shift = s]
      BY <2>5 DEF BindShift, CurrentShift
    <3> DEFINE q == [post[h] EXCEPT !.pc = "bound", !.shift = s]
    <3>2. q \in Post /\ post' = [post EXCEPT ![h] = q]
      BY <2>0, <3>1, PostFields DEF SyncTypeOK
    <3>3. q.batch = post[h].batch /\ q.fresh = post[h].fresh /\ q.pc = "bound"
      BY <2>0 DEF Post
    <3> HIDE DEF q
    <3> QED
      BY <2>0, <2>1, <2>5, <3>2, <3>3 DEF BindShift, agent, PostOK
  <2>6. CASE Dedup(h)
    <3> DEFINE u == Unseen(post[h].batch)
               q == [post[h] EXCEPT !.pc = "checked", !.fresh = u]
    <3>1. /\ u \subseteq post[h].batch /\ post[h].batch \subseteq Events
          /\ post[h].batch \ u \subseteq Stored
      BY <2>0 DEF Unseen, Stored, Post
    <3>2. q \in Post /\ post' = [post EXCEPT ![h] = q]
      BY <2>0, <2>6, <3>1, PostFields DEF Dedup, SyncTypeOK
    <3>3. q.batch = post[h].batch /\ q.fresh = u
      BY <2>0 DEF Post
    <3>4. q.pc = "checked"
      BY <2>0 DEF Post
    <3> HIDE DEF q, u
    <3> QED
      BY <2>1, <2>6, <3>1, <3>2, <3>3, <3>4 DEF Dedup, agent
  <2>7. CASE Store(h)
    BY <2>7, DeliveryStore
  <2>8. CASE Refuse(h) \/ RequestFails(h)
    <3> DEFINE q == [post[h] EXCEPT !.pc = "failed"]
    <3>1. q \in Post /\ post' = [post EXCEPT ![h] = q]
      BY <2>0, <2>8, PostFields DEF Refuse, RequestFails, SyncTypeOK
    <3>2. q.batch = post[h].batch /\ q.fresh = post[h].fresh /\ q.pc = "failed"
      BY <2>0 DEF Post
    <3> HIDE DEF q
    <3> QED
      BY <2>0, <2>1, <2>8, <3>1, <3>2 DEF Refuse, RequestFails, agent, PostOK
  <2> QED
    BY <1>3, <2>2, <2>3, <2>4, <2>5, <2>6, <2>7, <2>8 DEF Answered, Handle
<1> QED
  BY <1>1, <1>2, <1>3
  DEF Next, vars, agent, ShiftMoves, Heartbeat, StartPass, EndPass, Timeout, AgentRestart

LEMMA DeliveryInvariant == Spec => []DeliveryInv
<1> QED
  BY DeliveryInit, DeliveryStep, SyncTypeCorrect, PTL DEF Spec

\* No captured event is lost: it is in the queue until a row stores it.
THEOREM NothingLostAlways == Spec => []NothingLost
<1>1. DeliveryInv => NothingLost
  BY DEF DeliveryInv
<1> QED
  BY <1>1, DeliveryInvariant, PTL

-----------------------------------------------------------------------------
(* One row for one event *)

LEMMA StoredOnceStep == SyncTypeOK /\ StoredOnce /\ [Next]_vars => StoredOnce'
<1> SUFFICES ASSUME SyncTypeOK, StoredOnce, [Next]_vars PROVE StoredOnce'
  OBVIOUS
<1>1. CASE rows' = rows
  BY <1>1 DEF StoredOnce
<1>2. ASSUME NEW h \in Handlers, Store(h) PROVE StoredOnce'
  <2>1. ASSUME NEW n \in Events PROVE Len(rows'[n]) =< 1
    <3>1. CASE n \in post[h].fresh
      <4>1. rows'[n] = <<post[h].shift>>
        BY <1>2, <3>1, StoreAdds
      <4> QED
        BY <4>1
    <3>2. CASE n \notin post[h].fresh
      BY <1>2, <3>2, StoreAdds DEF StoredOnce
    <3> QED
      BY <3>1, <3>2
  <2> QED
    BY <2>1 DEF StoredOnce
<1> QED
  BY <1>1, <1>2
  DEF Next, vars, agent, ShiftMoves, Heartbeat, StartPass, EnqueueAsync, EndPass, Send,
      Answered, Acknowledge, BackOff, Handle, BindShift, Dedup, Refuse, Discard,
      RequestFails, Timeout, AgentRestart

\* An event never has two rows, however often its batch is sent.
THEOREM StoredOnceAlways == Spec => []StoredOnce
<1>1. Init => StoredOnce
  BY DEF Init, StoredOnce
<1> QED
  BY <1>1, StoredOnceStep, SyncTypeCorrect, PTL DEF Spec

-----------------------------------------------------------------------------
(* The abstract stream *)

LEMMA StreamStep ==
    SyncTypeOK /\ DeliveryInv /\ DeliveryInv' /\ [Next]_vars
    => [Stream!Capture \/ Stream!Deliver]_<<last, Stored>>
<1> SUFFICES ASSUME SyncTypeOK, DeliveryInv, DeliveryInv', [Next]_vars
             PROVE  [Stream!Capture \/ Stream!Deliver]_<<last, Stored>>
  OBVIOUS
<1>1. CASE UNCHANGED <<last, rows>>
  BY <1>1 DEF Stored
<1>2. CASE EnqueueAsync
  BY <1>2 DEF EnqueueAsync, Stream!Capture, Stored
<1>3. ASSUME NEW h \in Handlers, Store(h)
      PROVE  [Stream!Capture \/ Stream!Deliver]_<<last, Stored>>
  <2>1. last' = last /\ Stored' = Stored \cup post[h].fresh
    BY <1>3, StoreAdds DEF Store, agent
  <2>2. Stored' \subseteq 1..last /\ Stream!Prefix(Stored')
    BY <2>1 DEF DeliveryInv, Stream!Prefix
  <2>3. CASE Stored' = Stored
    BY <2>1, <2>3
  <2>4. CASE Stored' # Stored
    BY <2>1, <2>2, <2>4 DEF Stream!Deliver
  <2> QED
    BY <2>3, <2>4
<1> QED
  BY <1>1, <1>2, <1>3
  DEF Next, vars, agent, ShiftMoves, Heartbeat, StartPass, EndPass, Send,
      Answered, Acknowledge, BackOff, Handle, BindShift, Dedup, Refuse, Discard,
      RequestFails, Timeout, AgentRestart

\* Queue, requests and tables together implement EventStream: the events
\* reach the tables in the order of their capture and without gaps.
THEOREM SyncImplementsStream == Spec => StreamSpec
<1>1. Init => Stream!Init
  BY DEF Init, Stream!Init, Stored
<1> QED
  BY <1>1, StreamStep, SyncTypeCorrect, DeliveryInvariant, PTL
  DEF Spec, StreamSpec, Stream!Spec

-----------------------------------------------------------------------------
(* The shift of an event: of the shifts that were over when it was         *)
(* captured, ended keeps those that have been over ever since, so that one *)
(* bound later is not among them.  No shift needs to stay over: ShiftMoves *)
(* lets a transaction decided on an earlier row revive any of them.        *)

Over == {s \in ShiftIds : state[s] \in Terminal}

BindingInv ==
    /\ \A n \in 1..last : ended[n] \subseteq Over
    /\ \A h \in Handlers : post[h].pc \in {"bound", "checked"} =>
          \A n \in post[h].batch : post[h].shift \notin ended[n]
    /\ NotBoundToEndedShift

LEMMA BindingStep ==
    SyncTypeOK /\ DeliveryInv /\ BindingInv /\ [Next]_vars => BindingInv'
<1> SUFFICES ASSUME SyncTypeOK, DeliveryInv, BindingInv, [Next]_vars PROVE BindingInv'
  OBVIOUS
<1>0. Stored \subseteq 1..last /\ last \in Nat /\ \A h \in Handlers : PostOK(h)
  BY DEF DeliveryInv, SyncTypeOK
<1>1. CASE UNCHANGED <<state, last, ended, post, rows>>
  BY <1>1 DEF BindingInv, NotBoundToEndedShift, Over
<1>2. CASE ShiftMoves
  <2>1. /\ ended' = [n \in Events |-> {s \in ended[n] : state'[s] \in Terminal}]
        /\ UNCHANGED <<last, post, rows>>
    BY <1>2 DEF ShiftMoves
  <2>2. \A n \in Events : ended'[n] \subseteq ended[n] /\ ended'[n] \subseteq Over'
    BY <2>1 DEF SyncTypeOK, Over
  <2>3. (\A n \in 1..last : n \in Events) /\ \A h \in Handlers : post[h].batch \subseteq Events
    BY DEF SyncTypeOK, Post, Events
  <2> QED
    BY <2>1, <2>2, <2>3 DEF BindingInv, NotBoundToEndedShift
<1>3. CASE EnqueueAsync
  <2>1. /\ last' = last + 1 /\ last + 1 \in Events
        /\ UNCHANGED <<state, post, rows>>
        /\ ended' = [ended EXCEPT ![last + 1] = Over]
    BY <1>0, <1>3 DEF EnqueueAsync, Events, Over
  <2>2. /\ ended'[last + 1] = Over
        /\ \A n \in Events : n # last + 1 => ended'[n] = ended[n]
    BY <2>1 DEF SyncTypeOK
  <2>3. /\ last + 1 \notin 1..last
        /\ \A n \in 1..(last + 1) : n \in Events /\ (n \in 1..last \/ n = last + 1)
    BY <1>0, <2>1 DEF Events
  <2>4. \A n \in 1..last' : ended'[n] \subseteq Over'
    BY <2>1, <2>2, <2>3 DEF BindingInv, Over
  <2>5. ASSUME NEW h \in Handlers, post[h].pc \in {"bound", "checked"},
               NEW n \in post[h].batch
        PROVE  post[h].shift \notin ended'[n]
    <3>1. n \in 1..last
      BY <1>0 DEF PostOK
    <3>2. ended'[n] = ended[n]
      BY <1>0, <2>2, <2>3, <3>1
    <3> QED
      BY <2>5, <3>2 DEF BindingInv
  <2>6. ASSUME NEW n \in Events, NEW i \in DOMAIN rows[n]
        PROVE  rows[n][i] \notin ended'[n]
    <3>1. n \in Stored
      BY DEF Stored
    <3> QED
      BY <1>0, <2>2, <2>3, <3>1 DEF BindingInv, NotBoundToEndedShift
  <2> QED
    BY <2>1, <2>4, <2>5, <2>6 DEF BindingInv, NotBoundToEndedShift
<1>4. ASSUME NEW h \in Handlers, NEW q \in Post, post' = [post EXCEPT ![h] = q],
             UNCHANGED <<state, last, ended, rows>>,
             q.pc \in {"bound", "checked"} =>
                \A n \in q.batch : q.shift \notin ended[n]
      PROVE  BindingInv'
  <2>1. \A g \in Handlers : post'[g] = IF g = h THEN q ELSE post[g]
    BY <1>4 DEF SyncTypeOK
  <2> QED
    BY <1>4, <2>1 DEF BindingInv, NotBoundToEndedShift, Over
<1>5. ASSUME NEW h \in Handlers,
             Send(h) \/ Answered(h) \/ Handle(h) \/ RequestFails(h)
      PROVE  BindingInv'
  <2>0. post[h] \in Post /\ Free \in Post /\ PostOK(h) /\ Free.pc = "free"
    BY <1>0 DEF SyncTypeOK, Free, Post
  <2>1. CASE Send(h)
    <3> DEFINE q == [Free EXCEPT !.pc = "received", !.batch = PeekBatch(queue)]
    <3>1. PeekBatch(queue) \in SUBSET Events
      <4>1. queue \subseteq Events
        BY DEF SyncTypeOK, Events
      <4> QED
        BY <4>1 DEF PeekBatch
    <3>2. q \in Post
      BY <3>1 DEF Free, Post
    <3>4. q.pc = "received"
      BY DEF Free
    <3>3. post' = [post EXCEPT ![h] = q] /\ UNCHANGED <<state, last, ended, rows>>
      BY <2>1 DEF Send, agent
    <3> HIDE DEF q
    <3> QED
      BY <1>4, <3>2, <3>3, <3>4
  <2>2. CASE Acknowledge(h) \/ BackOff(h) \/ Discard(h)
    BY <1>4, <2>0, <2>2 DEF Acknowledge, BackOff, Discard, agent
  <2>3. CASE BindShift(h)
    <3>1. PICK s : /\ s \in IF CurrentShift(state) = {} THEN {NoShift}
                                                      ELSE CurrentShift(state)
                   /\ post' = [post EXCEPT ![h].pc = "bound", ![h].shift = s]
      BY <2>3 DEF BindShift
    <3>2. s \in ShiftIds \cup {NoShift} /\ s \notin Over
      BY <3>1 DEF CurrentShift, Over, Contract!Active
    <3> DEFINE q == [post[h] EXCEPT !.pc = "bound", !.shift = s]
    <3>3. q \in Post /\ post' = [post EXCEPT ![h] = q]
      BY <2>0, <3>1, <3>2, PostFields DEF SyncTypeOK
    <3>4. q.batch = post[h].batch /\ q.shift = s
      BY <2>0 DEF Post
    <3> HIDE DEF q
    <3>5. \A n \in q.batch : q.shift \notin ended[n]
      <4>1. \A n \in q.batch : ended[n] \subseteq Over
        BY <2>0, <3>4 DEF PostOK, BindingInv
      <4> QED
        BY <3>2, <3>4, <4>1
    <3> HIDE DEF q
    <3> QED
      BY <1>4, <2>3, <3>3, <3>5 DEF BindShift, agent
  <2>4. CASE Dedup(h)
    <3> DEFINE u == Unseen(post[h].batch)
               q == [post[h] EXCEPT !.pc = "checked", !.fresh = u]
    <3>1. u \subseteq Events
      BY <2>0 DEF Unseen, Post
    <3>2. q \in Post /\ post' = [post EXCEPT ![h] = q]
      BY <2>0, <2>4, <3>1, PostFields DEF Dedup, SyncTypeOK
    <3>3. q.batch = post[h].batch /\ q.shift = post[h].shift
      BY <2>0 DEF Post
    <3>4. \A n \in q.batch : q.shift \notin ended[n]
      BY <2>4, <3>3 DEF Dedup, BindingInv
    <3> HIDE DEF q, u
    <3> QED
      BY <1>4, <2>4, <3>2, <3>4 DEF Dedup, agent
  <2>5. CASE Store(h)
    <3>1. /\ post[h].pc = "checked" /\ UNCHANGED <<state, last, ended>>
          /\ post' = [post EXCEPT ![h].pc = "committed"]
      BY <2>5 DEF Store, agent
    <3>2. ASSUME NEW n \in Events, NEW i \in DOMAIN rows'[n]
          PROVE  rows'[n][i] \notin ended[n]
      <4>1. CASE n \in post[h].fresh
        <5>1. rows'[n] = <<post[h].shift>>
          BY <2>5, <4>1, StoreAdds
        <5>2. rows'[n][i] = post[h].shift
          BY <5>1, <3>2
        <5> QED
          BY <2>0, <3>1, <4>1, <5>2 DEF PostOK, BindingInv
      <4>2. CASE n \notin post[h].fresh
        BY <2>5, <4>2, StoreAdds DEF BindingInv, NotBoundToEndedShift
      <4> QED
        BY <4>1, <4>2
    <3>3. ASSUME NEW g \in Handlers, post'[g].pc \in {"bound", "checked"}
          PROVE  post'[g] = post[g]
      BY <3>1, <3>3 DEF SyncTypeOK, Post
    <3> QED
      BY <3>1, <3>2, <3>3 DEF BindingInv, NotBoundToEndedShift, Over
  <2>6. CASE Refuse(h) \/ RequestFails(h)
    <3> DEFINE q == [post[h] EXCEPT !.pc = "failed"]
    <3>1. q \in Post /\ post' = [post EXCEPT ![h] = q]
      BY <2>0, <2>6, PostFields DEF Refuse, RequestFails, SyncTypeOK
    <3>2. q.pc = "failed"
      BY <2>0 DEF Post
    <3> HIDE DEF q
    <3> QED
      BY <1>4, <2>6, <3>1, <3>2 DEF Refuse, RequestFails, agent
  <2> QED
    BY <1>5, <2>1, <2>2, <2>3, <2>4, <2>5, <2>6 DEF Answered, Handle
<1> QED
  BY <1>1, <1>2, <1>3, <1>5
  DEF Next, vars, agent, Heartbeat, StartPass, EndPass, Timeout, AgentRestart

\* No event is bound to a shift that was over from its capture to the commit
\* of the row, while stale transactions may revive shifts that are over.
THEOREM NotBoundToEndedShiftAlways == Spec => []NotBoundToEndedShift
<1>1. Init => BindingInv
  BY DEF Init, BindingInv, NotBoundToEndedShift, Free
<1>2. BindingInv => NotBoundToEndedShift
  BY DEF BindingInv
<1> QED
  BY <1>1, <1>2, BindingStep, SyncTypeCorrect, DeliveryInvariant, PTL DEF Spec
=============================================================================
