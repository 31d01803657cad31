----------------------------- MODULE Jobs_proofs -----------------------------
(***************************************************************************)
(* Proofs about the jobs of the worker: delivery of webhooks, evaluation   *)
(* of alert rules, purging of screenshots.  Each invariant says what a run *)
(* that is still at work knows, which the properties do not mention.       *)
(***************************************************************************)
EXTENDS Webhooks, Alerts, Screenshots, FiniteSetTheorems, TLAPS

-----------------------------------------------------------------------------
(* Webhooks *)

Post == [made: 0..MaxAttempts, accepted: BOOLEAN]

Reading == [attempts: Nat, status: {"pending", "delivered", "failed"}, todo: BOOLEAN]

\* What a row, or a run's copy of it, may say of a delivery: a count that
\* is not higher than the posts made, and a status that the posts justify.
Justified(x, post) ==
    /\ x.attempts \in Nat
    /\ x.attempts =< post.made \/ post.made = MaxAttempts
    /\ x.status = "delivered" => post.accepted
    /\ x.status = "failed" => post.made = MaxAttempts

HookInv ==
    /\ posts \in [Ids -> Post]
    /\ deliveries \in Seq(WebhookDelivery) /\ Len(deliveries) =< MaxDeliveries
    /\ run = [r \in Deliverers |-> run[r]]
    /\ \A r \in Deliverers : run[r] \in [DOMAIN run[r] -> Reading]
    /\ \A i \in DOMAIN deliveries : Justified(deliveries[i], posts[i])
    /\ \A r \in Deliverers : \A i \in DOMAIN run[r] :
          i \in DOMAIN deliveries /\ Justified(run[r][i], posts[i])

\* At the start there are no deliveries and no run has read any.
LEMMA HookInvInit == HookInit => HookInv
<1> SUFFICES ASSUME HookInit PROVE HookInv
    OBVIOUS
<1> USE DEF HookInit
<1>1. posts \in [Ids -> Post]
    BY WebhookAssumption DEF Nothing, Post
<1>2. deliveries \in Seq(WebhookDelivery) /\ Len(deliveries) = 0
    OBVIOUS
<1>3. /\ run = [r \in Deliverers |-> run[r]]
      /\ \A r \in Deliverers : run[r] \in [{} -> Reading] /\ DOMAIN run[r] = {}
    BY DEF NoRun
<1> QED BY <1>1, <1>2, <1>3, WebhookAssumption DEF HookInv

\* Queueing appends a pending delivery for every subscribed webhook.
LEMMA HookInvEmit ==
    ASSUME HookInv, NEW ev \in HookEvents, Emit(ev)
    PROVE  HookInv'
<1>1. PICK queued \in Selected(ev) :
          /\ Len(deliveries) + Len(queued) =< MaxDeliveries
          /\ deliveries' = deliveries \o [i \in DOMAIN queued |-> Pending(queued[i], ev)]
    BY Zenon DEF Emit
<1> DEFINE N == Cardinality(Subscribed(ev))
           new == [i \in DOMAIN queued |-> Pending(queued[i], ev)]
<1>2. /\ N \in Nat /\ Subscribed(ev) \subseteq Hooks
      /\ queued \in [1..N -> Subscribed(ev)]
  <2>1. Subscribed(ev) \in SUBSET Hooks
      BY DEF Subscribed
  <2>2. IsFiniteSet(Subscribed(ev))
      BY <2>1, FS_Subset, WebhookAssumption
  <2> QED BY <2>1, <2>2, FS_CardinalityType DEF Selected
<1> HIDE DEF N
<1>3. /\ new \in Seq(WebhookDelivery) /\ Len(new) = N /\ Len(queued) = N
      /\ \A i \in 1..N : new[i].attempts = 0 /\ new[i].status = "pending"
    BY <1>2 DEF Pending, WebhookDelivery
<1> HIDE DEF new
<1>4. deliveries' = deliveries \o new
    BY <1>1 DEF new
<1>5. /\ deliveries' \in Seq(WebhookDelivery) /\ Len(deliveries') = Len(deliveries) + N
      /\ \A i \in DOMAIN deliveries : deliveries'[i] = deliveries[i]
      /\ \A i \in DOMAIN deliveries' \ DOMAIN deliveries :
            deliveries'[i].attempts = 0 /\ deliveries'[i].status = "pending"
    BY <1>2, <1>3, <1>4 DEF HookInv
<1>6. UNCHANGED <<run, posts>>
    BY DEF Emit
<1>7. \A i \in DOMAIN deliveries' : i \in DOMAIN deliveries \/ (i \in Ids /\ posts[i].made \in Nat)
    BY <1>1, <1>2, <1>3, <1>5, WebhookAssumption DEF HookInv, Ids, Post
<1>8. \A i \in DOMAIN deliveries' : Justified(deliveries'[i], posts'[i])
  <2> SUFFICES ASSUME NEW i \in DOMAIN deliveries' PROVE Justified(deliveries'[i], posts'[i])
      OBVIOUS
  <2>1. CASE i \in DOMAIN deliveries
      BY <2>1, <1>5, <1>6 DEF HookInv, Justified
  <2>2. CASE i \notin DOMAIN deliveries
      BY <2>2, <1>5, <1>6, <1>7 DEF Justified
  <2> QED BY <2>1, <2>2
<1>9. \A r \in Deliverers : \A i \in DOMAIN run'[r] :
          i \in DOMAIN deliveries' /\ Justified(run'[r][i], posts'[i])
    BY <1>5, <1>6, <1>2 DEF HookInv
<1>10. Len(deliveries') =< MaxDeliveries
    BY <1>1, <1>3, <1>5
<1> QED BY <1>5, <1>6, <1>8, <1>9, <1>10 DEF HookInv

\* A run takes the status of a row that is pending, and its count.
LEMMA HookInvStart ==
    ASSUME HookInv, NEW r \in Deliverers, DeliverStart(r)
    PROVE  HookInv'
<1> DEFINE copy == [i \in PendingIds |-> [attempts |-> deliveries[i].attempts,
                                          status |-> "pending", todo |-> TRUE]]
<1>1. /\ run' = [q \in Deliverers |-> run'[q]] /\ run'[r] = copy
      /\ \A q \in Deliverers \ {r} : run'[q] = run[q]
      /\ UNCHANGED <<deliveries, posts>>
    BY DEF DeliverStart, HookInv
<1>2. \A i \in DOMAIN copy : i \in DOMAIN deliveries /\ Justified(copy[i], posts[i])
    BY DEF PendingIds, HookInv, Justified
<1>3. copy \in [DOMAIN copy -> Reading]
    BY DEF PendingIds, HookInv, Justified, Reading
<1> HIDE DEF copy
<1> QED BY <1>1, <1>2, <1>3 DEF HookInv

\* A post is counted with the answer it had.
LEMMA HookInvDeliver ==
    ASSUME HookInv, NEW r \in Deliverers, NEW i \in Ids,
           NEW answer \in {"2xx", "other", "exception"}, NEW got \in BOOLEAN,
           Deliver(r, i, answer, got)
    PROVE  HookInv'
<1> DEFINE x == run[r][i]
           y == [attempts |-> x.attempts + 1, todo |-> FALSE,
                 status |-> StatusAfter(x.attempts + 1, answer)]
<1>1. /\ run' = [q \in Deliverers |-> run'[q]]
      /\ run'[r] = [run[r] EXCEPT ![i] = y]
      /\ \A q \in Deliverers \ {r} : run'[q] = run[q]
      /\ UNCHANGED deliveries
      /\ i \in DOMAIN run[r]
    BY DEF Deliver, HookInv
<1>2. /\ posts' \in [Ids -> Post]
      /\ posts'[i].made = IF posts[i].made < MaxAttempts THEN posts[i].made + 1 ELSE posts[i].made
      /\ posts'[i].accepted = (posts[i].accepted \/ got)
      /\ \A j \in Ids \ {i} : posts'[j] = posts[j]
    BY WebhookAssumption DEF Deliver, HookInv, Post
<1>3. Justified(y, posts'[i])
  <2>1. Justified(x, posts[i]) /\ posts[i] \in Post
      BY <1>1 DEF HookInv
  <2>2. answer = "2xx" => got
      BY DEF Deliver
  <2>3. x.attempts + 1 =< posts'[i].made \/ posts'[i].made = MaxAttempts
      BY <2>1, <1>2, WebhookAssumption DEF Justified, Post
  <2> QED BY <1>2, <2>1, <2>2, <2>3, WebhookAssumption DEF Justified, Post, StatusAfter
<1>4. \A j \in Ids, z \in WebhookDelivery \cup Reading :
          Justified(z, posts[j]) => Justified(z, posts'[j])
    BY <1>2, WebhookAssumption DEF HookInv, Post, Justified
<1>5. DOMAIN deliveries \subseteq Ids
    BY WebhookAssumption DEF HookInv, Ids
<1>6. y \in Reading
    BY <1>1 DEF HookInv, Reading, StatusAfter, Justified
<1> HIDE DEF x, y
<1>7. \A q \in Deliverers : run'[q] \in [DOMAIN run'[q] -> Reading] /\ DOMAIN run'[q] = DOMAIN run[q]
    BY <1>1, <1>6 DEF HookInv
<1>8. \A j \in DOMAIN deliveries' : Justified(deliveries'[j], posts'[j])
    BY <1>1, <1>4, <1>5 DEF HookInv
<1>9. \A q \in Deliverers : \A j \in DOMAIN run'[q] :
          j \in DOMAIN deliveries' /\ Justified(run'[q][j], posts'[j])
  <2> SUFFICES ASSUME NEW q \in Deliverers, NEW j \in DOMAIN run'[q]
               PROVE  j \in DOMAIN deliveries' /\ Justified(run'[q][j], posts'[j])
      OBVIOUS
  <2>1. CASE q = r /\ j = i
      BY <2>1, <1>1, <1>3, <1>7 DEF HookInv
  <2>2. CASE ~ (q = r /\ j = i)
    <3>1. run'[q][j] = run[q][j] /\ run[q][j] \in Reading /\ j \in DOMAIN run[q]
        BY <2>2, <1>1, <1>7 DEF HookInv
    <3> QED BY <3>1, <1>1, <1>4, <1>5 DEF HookInv
  <2> QED BY <2>1, <2>2
<1> QED BY <1>1, <1>2, <1>7, <1>8, <1>9 DEF HookInv

\* A commit writes what the run justified over rows that were justified too.
LEMMA HookInvCommit ==
    ASSUME HookInv, NEW r \in Deliverers, DeliverCommit(r)
    PROVE  HookInv'
<1> DEFINE row(i) == IF i \notin DOMAIN run[r] THEN deliveries[i]
                     ELSE [deliveries[i] EXCEPT !.attempts = run[r][i].attempts,
                               !.status = IF run[r][i].status = "pending" THEN @ ELSE run[r][i].status]
<1>1. /\ deliveries' = [i \in DOMAIN deliveries |-> row(i)]
      /\ run' = [run EXCEPT ![r] = NoRun]
      /\ UNCHANGED posts
    BY DEF DeliverCommit
<1>2. \A i \in DOMAIN deliveries : row(i) \in WebhookDelivery /\ Justified(row(i), posts[i])
  <2> SUFFICES ASSUME NEW i \in DOMAIN deliveries
               PROVE  row(i) \in WebhookDelivery /\ Justified(row(i), posts[i])
      OBVIOUS
  <2>1. deliveries[i] \in WebhookDelivery /\ Justified(deliveries[i], posts[i])
      BY DEF HookInv
  <2>2. CASE i \in DOMAIN run[r]
    <3>1. run[r][i] \in Reading /\ Justified(run[r][i], posts[i])
        BY <2>2 DEF HookInv
    <3> QED BY <2>1, <2>2, <3>1 DEF Justified, Reading, WebhookDelivery
  <2> QED BY <2>1, <2>2
<1> HIDE DEF row
<1>3. deliveries' \in Seq(WebhookDelivery) /\ Len(deliveries') = Len(deliveries)
    BY <1>1, <1>2 DEF HookInv
<1>4. \A q \in Deliverers : run'[q] = run[q] \/ (run'[q] \in [{} -> Reading] /\ DOMAIN run'[q] = {})
    BY <1>1 DEF HookInv, NoRun
<1>5. run' = [q \in Deliverers |-> run'[q]]
    BY <1>1 DEF HookInv
<1> QED BY <1>1, <1>2, <1>3, <1>4, <1>5 DEF HookInv

LEMMA HookInvCrash ==
    ASSUME HookInv, NEW r \in Deliverers, DeliverCrash(r)
    PROVE  HookInv'
<1>1. /\ run' = [run EXCEPT ![r] = NoRun]
      /\ UNCHANGED <<deliveries, posts>>
    BY DEF DeliverCrash
<1>2. \A q \in Deliverers : run'[q] = run[q] \/ (run'[q] \in [{} -> Reading] /\ DOMAIN run'[q] = {})
    BY <1>1 DEF HookInv, NoRun
<1>3. run' = [q \in Deliverers |-> run'[q]]
    BY <1>1 DEF HookInv
<1> QED BY <1>1, <1>2, <1>3 DEF HookInv

LEMMA HookInvNext == HookInv /\ [HookNext]_hookVars => HookInv'
<1> SUFFICES ASSUME HookInv, [HookNext]_hookVars PROVE HookInv'
    OBVIOUS
<1>1. CASE UNCHANGED hookVars
    BY <1>1 DEF HookInv, hookVars
<1>2. ASSUME NEW h \in Hooks, NEW evs \in SUBSET HookEvents, CreateWebhook(h, evs)
      PROVE  HookInv'
    BY <1>2 DEF CreateWebhook, HookInv
<1>3. ASSUME NEW r \in Deliverers, DeliverStep(r)
      PROVE  HookInv'
    BY <1>3, HookInvCommit, HookInvDeliver DEF DeliverStep
<1> QED BY <1>1, <1>2, <1>3, HookInvEmit, HookInvStart, HookInvCrash DEF HookNext

LEMMA HookInvImplies == HookInv => DeliveredWasAccepted /\ NotGivenUpEarly
BY WebhookAssumption DEF HookInv, Justified, DeliveredWasAccepted, NotGivenUpEarly

\* DeliveredWasAccepted: a delivery marked delivered was accepted, for any
\* webhooks, any number of runs and any limit of attempts.
THEOREM DeliveredWasAcceptedAlways == HookSpec => []DeliveredWasAccepted
<1>1. HookInv => DeliveredWasAccepted
    BY HookInvImplies
<1> QED BY <1>1, HookInvInit, HookInvNext, PTL DEF HookSpec

\* NotGivenUpEarly: a delivery is marked failed only after max_attempts posts.
THEOREM NotGivenUpEarlyAlways == HookSpec => []NotGivenUpEarly
<1>1. HookInv => NotGivenUpEarly
    BY HookInvImplies
<1> QED BY <1>1, HookInvInit, HookInvNext, PTL DEF HookSpec

-----------------------------------------------------------------------------
(* Alerts *)

Evaluation == [on: BOOLEAN, day: 0..LastDay, todo: SUBSET (Rules \X Watched),
               raised: SUBSET DedupKeys, sent: [DedupKeys -> Nat]]

\* n notifications are those of one of the rules that a dedup key may be of.
Notified(d, n, known) == \E x \in known : x.key = d[1] /\ n = InApp(x)

\* A run looks at rules that exist, and sends for the alerts that it raises
\* itself what one rule asks for, for others nothing.
Knows(y, known) ==
    /\ y.todo \subseteq known \X Watched
    /\ \A d \in DedupKeys : IF d \in y.raised THEN Notified(d, y.sent[d], known) ELSE y.sent[d] = 0

AlertInv ==
    /\ rules \subseteq Rules /\ today \in 0..LastDay
    /\ alerts \in [DedupKeys -> Seq(Alert)]
    /\ notices \in [DedupKeys -> Nat]
    /\ evaluation \in [Evaluations -> Evaluation]
    /\ \A r \in Evaluations : Knows(evaluation[r], rules)
    /\ AlertedOnce

\* The notifications of a rule are a number: its list of channels is finite.
LEMMA InAppIsNumber == \A x \in Rules : InApp(x) \in Nat
<1> SUFFICES ASSUME NEW x \in Rules PROVE InApp(x) \in Nat
    OBVIOUS
<1>1. x.channels \in Seq({"in_app", "email"})
    BY AlertAssumption
<1> DEFINE S == {i \in DOMAIN x.channels : x.channels[i] = "in_app"}
<1>2. IsFiniteSet(1..Len(x.channels)) /\ S \subseteq 1..Len(x.channels)
  <2>1. Len(x.channels) \in Nat /\ DOMAIN x.channels = 1..Len(x.channels)
      BY <1>1
  <2>2. IsFiniteSet(1..Len(x.channels))
    <3> DEFINE l == Len(x.channels)
    <3>1. l \in Int
        BY <2>1
    <3> HIDE DEF l
    <3>2. IsFiniteSet(1..l)
        BY <3>1, FS_Interval
    <3> QED BY <3>2 DEF l
  <2> QED BY <2>1, <2>2
<1> HIDE DEF S
<1>3. Cardinality(S) \in Nat
    BY <1>2, FS_Subset, FS_CardinalityType
<1> QED BY <1>3 DEF InApp, S

LEMMA AsleepKnows == Asleep \in Evaluation /\ \A known : Knows(Asleep, known)
BY AlertAssumption DEF Asleep, Evaluation, Knows

\* A rule that is created takes no knowledge away.
LEMMA KnowsMore ==
    ASSUME NEW y, NEW known, NEW more, known \subseteq more, Knows(y, known)
    PROVE  Knows(y, more)
BY DEF Knows, Notified

LEMMA AlertInvInit == AlertInit => AlertInv
<1> SUFFICES ASSUME AlertInit PROVE AlertInv
    OBVIOUS
<1>1. /\ alerts = [d \in DedupKeys |-> <<>>] /\ notices = [d \in DedupKeys |-> 0]
      /\ evaluation = [r \in Evaluations |-> Asleep]
      /\ rules = {} /\ today = 0
    BY DEF AlertInit
<1>2. AlertedOnce
    BY <1>1 DEF AlertedOnce
<1> QED BY <1>1, <1>2, AsleepKnows, AlertAssumption DEF AlertInv

\* A step of one run that commits nothing.
LEMMA OneEvaluationSteps ==
    ASSUME AlertInv, NEW r \in Evaluations, NEW y, y \in Evaluation, Knows(y, rules),
           evaluation' = [evaluation EXCEPT ![r] = y], UNCHANGED <<rules, today, alerts, notices>>
    PROVE  AlertInv'
<1>1. evaluation' \in [Evaluations -> Evaluation]
    BY DEF AlertInv
<1>2. \A q \in Evaluations : Knows(evaluation'[q], rules)
    BY DEF AlertInv
<1> QED BY <1>1, <1>2 DEF AlertInv, AlertedOnce

\* Of a combination one step looks at: a new alert, with its notifications,
\* or none because the key is known.
LEMMA AlertInvCreate ==
    ASSUME AlertInv, NEW r \in Evaluations, NEW c \in evaluation[r].todo, CreateAlert(r, c)
    PROVE  AlertInv'
<1> DEFINE x == evaluation[r]
           d == DedupKey(c, x.day)
           raised == IF Existing(x, d) THEN x.raised ELSE x.raised \cup {d}
           y == [x EXCEPT !.todo = x.todo \ {c}, !.raised = raised, !.sent = SentAfter(x, c, d)]
<1>1. x \in Evaluation /\ Knows(x, rules) /\ rules \subseteq Rules /\ c \in rules \X Watched
    BY DEF AlertInv, Knows
<1>2. d \in DedupKeys /\ d[1] = c[1].key /\ c[1] \in rules
    BY <1>1, AlertAssumption DEF Evaluation, DedupKey, DedupKeys
<1>3. evaluation' = [evaluation EXCEPT ![r] = y] /\ UNCHANGED <<rules, today, alerts, notices>>
    BY DEF CreateAlert, AlertInv
<1>4. InApp(c[1]) \in Nat
    BY <1>1, <1>2, InAppIsNumber
<1>5. CASE Existing(x, d)
  <2>1. y = [x EXCEPT !.todo = x.todo \ {c}]
      BY <1>1, <1>5 DEF SentAfter, Evaluation
  <2>2. y \in Evaluation /\ y.todo \subseteq x.todo /\ y.raised = x.raised /\ y.sent = x.sent
      BY <1>1, <2>1 DEF Evaluation
  <2> HIDE DEF x, y
  <2>3. Knows(y, rules)
      BY <1>1, <2>2 DEF Knows
  <2> QED BY <1>3, <2>2, <2>3, OneEvaluationSteps
<1>6. CASE ~ Existing(x, d)
  <2>1. d \notin x.raised /\ x.sent[d] = 0 /\ x.sent \in [DedupKeys -> Nat]
      BY <1>1, <1>2, <1>6 DEF Existing, Knows, Evaluation
  <2> DEFINE n == InApp(c[1])
  <2>2. SentAfter(x, c, d) = [x.sent EXCEPT ![d] = n]
    <3>1. SentAfter(x, c, d) = [x.sent EXCEPT ![d] = x.sent[d] + n]
        BY <1>6 DEF SentAfter
    <3>2. x.sent[d] + n = n
        BY <1>4, <2>1
    <3> QED BY <3>1, <3>2
  <2>3. raised = x.raised \cup {d}
      BY <1>6
  <2>4. Notified(d, n, rules)
      BY <1>2 DEF Notified
  <2>5. /\ y \in Evaluation /\ y.todo \subseteq x.todo /\ y.raised = x.raised \cup {d}
        /\ y.sent = [x.sent EXCEPT ![d] = n]
    <3> HIDE DEF d, n, x
    <3>1. y = [x EXCEPT !.todo = x.todo \ {c}, !.raised = x.raised \cup {d},
                        !.sent = [x.sent EXCEPT ![d] = n]]
        BY <2>2, <2>3
    <3>2. [x.sent EXCEPT ![d] = n] \in [DedupKeys -> Nat] /\ x.raised \cup {d} \in SUBSET DedupKeys
        BY <1>1, <1>2, <1>4, <2>1 DEF Evaluation, n
    <3> HIDE DEF y
    <3> QED BY <1>1, <3>1, <3>2 DEF Evaluation
  <2> HIDE DEF x, y, d, n
  <2>6. Knows(y, rules)
      BY <1>1, <1>2, <2>1, <2>4, <2>5 DEF Knows
  <2> QED BY <1>3, <2>5, <2>6, OneEvaluationSteps
<1> QED BY <1>5, <1>6

\* The index lets a run commit only keys that have no alert yet.
LEMMA AlertInvCommit ==
    ASSUME AlertInv, NEW r \in Evaluations, EvaluateCommit(r)
    PROVE  AlertInv'
<1> DEFINE x == evaluation[r]
<1>1. x \in Evaluation /\ Knows(x, rules) /\ \A d \in x.raised : alerts[d] = <<>>
    BY DEF AlertInv, EvaluateCommit, DedupIndexOK
<1>2. /\ alerts' = [d \in DedupKeys |-> IF d \in x.raised THEN Append(alerts[d], "open") ELSE alerts[d]]
      /\ notices' = [d \in DedupKeys |-> notices[d] + x.sent[d]]
      /\ evaluation' = [evaluation EXCEPT ![r] = Asleep]
      /\ UNCHANGED <<rules, today>>
    BY DEF EvaluateCommit
<1> HIDE DEF x
<1>3. ASSUME NEW d \in DedupKeys
      PROVE  /\ alerts'[d] \in Seq(Alert) /\ Len(alerts'[d]) =< 1 /\ notices'[d] \in Nat
             /\ IF alerts'[d] = <<>> THEN notices'[d] = 0 ELSE Notified(d, notices'[d], rules)
  <2>1. /\ alerts[d] \in Seq(Alert) /\ Len(alerts[d]) =< 1 /\ notices[d] \in Nat
        /\ IF alerts[d] = <<>> THEN notices[d] = 0 ELSE Notified(d, notices[d], rules)
      BY DEF AlertInv, AlertedOnce, Notified
  <2>2. notices'[d] = notices[d] + x.sent[d] /\ x.sent[d] \in Nat
      BY <1>1, <1>2 DEF Evaluation
  <2>3. CASE d \in x.raised
    <3>1. alerts[d] = <<>> /\ notices[d] = 0 /\ Notified(d, x.sent[d], rules)
        BY <2>1, <2>3, <1>1 DEF Knows
    <3>2. alerts'[d] = Append(<<>>, "open")
        BY <2>3, <1>2, <3>1
    <3>3. alerts'[d] \in Seq(Alert) /\ Len(alerts'[d]) = 1 /\ alerts'[d] # <<>>
        BY <3>2 DEF Alert
    <3>4. notices'[d] = x.sent[d]
        BY <2>2, <3>1
    <3> QED BY <2>2, <3>1, <3>3, <3>4
  <2>4. CASE d \notin x.raised
    <3>1. x.sent[d] = 0 /\ alerts'[d] = alerts[d]
        BY <2>4, <1>1, <1>2 DEF Knows
    <3>2. notices'[d] = notices[d]
        BY <2>1, <2>2, <3>1
    <3> QED BY <2>1, <3>1, <3>2
  <2> QED BY <2>3, <2>4
<1>4. evaluation' \in [Evaluations -> Evaluation]
    BY <1>2, AsleepKnows DEF AlertInv
<1>5. \A q \in Evaluations : Knows(evaluation'[q], rules)
    BY <1>2, AsleepKnows DEF AlertInv
<1>6. alerts' \in [DedupKeys -> Seq(Alert)] /\ notices' \in [DedupKeys -> Nat]
    BY <1>2, <1>3
<1>7. AlertedOnce'
    BY <1>2, <1>3 DEF AlertedOnce, Notified
<1> QED BY <1>2, <1>4, <1>5, <1>6, <1>7 DEF AlertInv

LEMMA AlertInvNext == AlertInv /\ [AlertNext]_alertVars => AlertInv'
<1> SUFFICES ASSUME AlertInv, [AlertNext]_alertVars PROVE AlertInv'
    OBVIOUS
<1>1. CASE UNCHANGED alertVars
    BY <1>1 DEF AlertInv, AlertedOnce, alertVars
<1>2. ASSUME NEW x \in Rules, CreateRule(x)
      PROVE  AlertInv'
  <2>1. rules \subseteq rules' /\ rules' \subseteq Rules
        /\ UNCHANGED <<today, alerts, notices, evaluation>>
      BY <1>2 DEF CreateRule, AlertInv
  <2>2. \A q \in Evaluations : Knows(evaluation[q], rules')
      BY <2>1, KnowsMore DEF AlertInv
  <2>3. AlertedOnce'
      BY <2>1 DEF AlertInv, AlertedOnce
  <2> QED BY <2>1, <2>2, <2>3 DEF AlertInv
<1>3. ASSUME NEW e \in Watched, NEW k \in RuleKeys, NEW n \in Levels, RowsChange(e, k, n)
      PROVE  AlertInv'
    BY <1>3 DEF AlertInv, AlertedOnce, RowsChange
<1>4. CASE NewDay
    BY <1>4, AlertAssumption DEF AlertInv, AlertedOnce, NewDay
<1>5. ASSUME NEW r \in Evaluations, Evaluate(r)
      PROVE  AlertInv'
  <2> DEFINE todo == {c \in rules \X Watched : Fires(c[1], level[c[2]][c[1].key])}
             y == [Asleep EXCEPT !.on = TRUE, !.day = today, !.todo = todo]
  <2>1. evaluation' = [evaluation EXCEPT ![r] = y] /\ UNCHANGED <<rules, today, alerts, notices>>
      BY <1>5 DEF Evaluate
  <2>2. todo \subseteq rules \X Watched /\ rules \subseteq Rules /\ today \in 0..LastDay
      BY DEF AlertInv
  <2> HIDE DEF todo
  <2>3. /\ y \in Evaluation /\ y.todo = todo /\ y.raised = {}
        /\ \A d \in DedupKeys : y.sent[d] = 0
      BY <2>2 DEF Asleep, Evaluation
  <2> HIDE DEF y
  <2>4. Knows(y, rules)
      BY <2>2, <2>3 DEF Knows
  <2> QED BY <2>1, <2>3, <2>4, OneEvaluationSteps
<1>6. ASSUME NEW r \in Evaluations, EvaluateRefused(r) \/ EvaluateCrash(r)
      PROVE  AlertInv'
  <2>1. evaluation' = [evaluation EXCEPT ![r] = Asleep] /\ UNCHANGED <<rules, today, alerts, notices>>
      BY <1>6 DEF EvaluateRefused, EvaluateCrash
  <2> QED BY <2>1, AsleepKnows, OneEvaluationSteps
<1>7. ASSUME NEW d \in DedupKeys, NEW s \in Decisions, SetAlertStatus(d, s)
      PROVE  AlertInv'
  <2>1. /\ alerts[d] \in Seq(Alert) /\ alerts[d] # <<>> /\ s \in Alert
        /\ alerts' = [alerts EXCEPT ![d] = [alerts[d] EXCEPT ![1] = s]]
        /\ UNCHANGED <<rules, today, notices, evaluation>>
      BY <1>7, AlertAssumption DEF SetAlertStatus, AlertInv, Alert
  <2>2. [alerts[d] EXCEPT ![1] = s] \in Seq(Alert) /\ Len([alerts[d] EXCEPT ![1] = s]) = Len(alerts[d])
      BY <2>1
  <2>3. /\ alerts' \in [DedupKeys -> Seq(Alert)]
        /\ \A k \in DedupKeys : Len(alerts'[k]) = Len(alerts[k])
      BY <2>1, <2>2 DEF AlertInv
  <2>4. \A k \in DedupKeys : alerts[k] \in Seq(Alert) /\ (alerts'[k] = <<>> <=> alerts[k] = <<>>)
      BY <2>3 DEF AlertInv
  <2>5. AlertedOnce'
      BY <2>1, <2>3, <2>4 DEF AlertInv, AlertedOnce
  <2> QED BY <2>1, <2>3, <2>5 DEF AlertInv
<1> QED BY <1>1, <1>2, <1>3, <1>4, <1>5, <1>6, <1>7, AlertInvCreate, AlertInvCommit
        DEF AlertNext, EvaluateStep

\* AlertedOnce: a kind of rule, an employee and a day have at most one alert,
\* and with it the notifications that the list of channels of one rule asks
\* for, for any number of runs at a time and any rules, their lists included.
THEOREM AlertedOnceAlways == AlertSpec => []AlertedOnce
<1>1. AlertInv => AlertedOnce
    BY DEF AlertInv
<1> QED BY <1>1, AlertInvInit, AlertInvNext, PTL DEF AlertSpec

-----------------------------------------------------------------------------
(* Screenshots *)

Row == [status: {"none", "pending", "stored", "deleted"}, until: Int]
PurgeRun == [on: BOOLEAN, todo: SUBSET Shots, done: SUBSET Shots]

\* What a run has read as expired stays expired, or its row is gone; so the
\* blobs it deletes are of no stored screenshot that can still be viewed.
ShotInv ==
    /\ shots \in [Shots -> Row]
    /\ capture \in [Shots -> {"presign", "upload", "confirm", "done"}]
    /\ purge \in [Purges -> PurgeRun]
    /\ keepDays \in Nat /\ shotDay \in Nat
    /\ \A s \in Shots : capture[s] = "presign" => shots[s] = NotTaken
    /\ \A s \in Shots : capture[s] # "done" => shots[s].status \in {"none", "pending"}
    /\ \A s \in Shots : shots[s].status # "stored" => shots[s].until = None
    /\ \A s \in Shots : capture[s] = "confirm" => s \in blobs
    /\ \A r \in Purges : \A s \in purge[r].todo \cup purge[r].done :
          capture[s] = "done" /\ (shots[s].status = "deleted" \/ Past(shots[s].until))
    /\ StoredCanBeViewed

LEMMA ShotInvInit == ShotInit => ShotInv
BY ScreenshotAssumption
   DEF ShotInit, ShotInv, Row, PurgeRun, NotTaken, NoPurge, None, StoredCanBeViewed

LEMMA ShotInvAgent ==
    ASSUME ShotInv, NEW s \in Shots,
           Presign(s) \/ UploadBlob(s) \/ Confirm(s) \/ DropCapture(s) \/ ViewShot(s)
    PROVE  ShotInv'
<1> USE DEF ShotInv, Row, PurgeRun, StoredCanBeViewed, Past, None, server, NotTaken
<1>1. CASE Presign(s)
    BY <1>1 DEF Presign
<1>2. CASE UploadBlob(s)
    BY <1>2 DEF UploadBlob
<1>3. CASE Confirm(s)
    BY <1>3 DEF Confirm, RetentionUntil
<1>4. CASE DropCapture(s)
    BY <1>4 DEF DropCapture
<1>5. CASE ViewShot(s)
    BY <1>5 DEF ViewShot
<1> QED BY <1>1, <1>2, <1>3, <1>4, <1>5

LEMMA ShotInvPurge ==
    ASSUME ShotInv, NEW r \in Purges, PurgeStart(r) \/ PurgeStep(r) \/ PurgeCrash(r)
    PROVE  ShotInv'
<1> USE DEF ShotInv, Row, PurgeRun, StoredCanBeViewed, Past, None
<1>1. CASE PurgeStart(r)
    BY <1>1 DEF PurgeStart, Expired
<1>2. CASE PurgeCommit(r)
    BY <1>2 DEF PurgeCommit, NoPurge
<1>3. ASSUME NEW s \in Shots, NEW deleted \in BOOLEAN, PurgeOne(r, s, deleted)
      PROVE  ShotInv'
  <2>1. /\ s \in purge[r].todo
        /\ blobs \ {s} \subseteq blobs'
        /\ purge' = [purge EXCEPT ![r] =
               [purge[r] EXCEPT !.todo = purge[r].todo \ {s}, !.done = purge[r].done \cup {s}]]
        /\ UNCHANGED <<shots, capture, keepDays, shotDay>>
      BY <1>3 DEF PurgeOne, DoneWith
  <2>2. purge' \in [Purges -> PurgeRun]
    <3> DEFINE y == [purge[r] EXCEPT !.todo = purge[r].todo \ {s}, !.done = purge[r].done \cup {s}]
    <3>1. y \in PurgeRun
      <4>1. purge[r] \in [on: BOOLEAN, todo: SUBSET Shots, done: SUBSET Shots]
          OBVIOUS
      <4>2. purge[r].todo \ {s} \in SUBSET Shots /\ purge[r].done \cup {s} \in SUBSET Shots
          BY <4>1
      <4> QED BY <4>1, <4>2, Zenon
    <3>2. purge' = [purge EXCEPT ![r] = y] /\ purge \in [Purges -> PurgeRun]
        BY <2>1
    <3> HIDE DEF y, PurgeRun
    <3> QED BY <3>1, <3>2
  <2>3. \A q \in Purges : purge'[q].todo \cup purge'[q].done \subseteq purge[q].todo \cup purge[q].done
      BY <2>1
  <2>4. capture[s] = "done" /\ (shots[s].status = "deleted" \/ Past(shots[s].until))
      BY <2>1
  <2>5. StoredCanBeViewed'
      BY <2>1, <2>4
  <2> QED BY <2>1, <2>2, <2>3, <2>4, <2>5
<1>4. CASE PurgeCrash(r)
    BY <1>4 DEF PurgeCrash, NoPurge
<1> QED BY <1>1, <1>2, <1>3, <1>4 DEF PurgeStep

LEMMA ShotInvNext == ShotInv /\ [ShotNext]_shotVars => ShotInv'
<1> SUFFICES ASSUME ShotInv, [ShotNext]_shotVars PROVE ShotInv'
    OBVIOUS
<1>1. CASE UNCHANGED shotVars
    BY <1>1 DEF shotVars, ShotInv, StoredCanBeViewed, Past
<1>2. ASSUME NEW n \in RetentionDays, SetRetention(n)
      PROVE  ShotInv'
    BY <1>2, ScreenshotAssumption DEF SetRetention, ShotInv, StoredCanBeViewed, Past
<1>3. CASE ShotDayEnds
  <2>1. shotDay' = shotDay + 1 /\ UNCHANGED <<shots, blobs, capture, purge, keepDays>>
      BY <1>3 DEF ShotDayEnds
  <2>2. shotDay' \in Nat /\ \A u \in Int : u < shotDay => u < shotDay'
      BY <2>1 DEF ShotInv
  <2>3. \A s \in Shots : shots[s].until \in Int /\ None \in Int
      BY DEF ShotInv, Row, None
  <2>4. \A r \in Purges : \A s \in purge'[r].todo \cup purge'[r].done :
            capture'[s] = "done" /\ (shots'[s].status = "deleted" \/ Past(shots[s].until)')
      BY <2>1, <2>2, <2>3 DEF ShotInv, Past, PurgeRun
  <2>5. StoredCanBeViewed'
      BY <2>1, <2>2, <2>3 DEF ShotInv, StoredCanBeViewed, Past
  <2> QED BY <2>1, <2>2, <2>4, <2>5 DEF ShotInv
<1> QED BY <1>1, <1>2, <1>3, ShotInvAgent, ShotInvPurge DEF ShotNext

\* StoredCanBeViewed: a stored screenshot whose retention is not over has its
\* blob, for any number of captures and runs and any changes of retention.
THEOREM StoredCanBeViewedAlways == ShotSpec => []StoredCanBeViewed
<1>1. ShotInv => StoredCanBeViewed
    BY DEF ShotInv
<1> QED BY <1>1, ShotInvInit, ShotInvNext, PTL DEF ShotSpec
=============================================================================
