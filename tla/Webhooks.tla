------------------------------ MODULE Webhooks ------------------------------
(***************************************************************************)
(* webhooks/service.py and router.py, of one organization.  emit queues a  *)
(* delivery for every subscribed webhook in the transaction of the caller; *)
(* deliver_pending, every Celery beat, posts what is pending one by one    *)
(* and commits once at the end.  Runs overlap when one takes longer than   *)
(* the beat.  A post cannot be rolled back.                                *)
(***************************************************************************)
EXTENDS Integers, FiniteSets, Sequences

CONSTANTS Hooks, HookEvents,   \* WEBHOOK_EVENTS
          Deliverers,          \* bound: runs of deliver_pending at a time
          MaxAttempts,         \* max_attempts (5)
          MaxDeliveries,       \* bound: deliveries queued
          MaxCrashes           \* bound: runs that die before their commit

ASSUME WebhookAssumption == /\ IsFiniteSet(Hooks) /\ MaxAttempts \in Nat \ {0}
                            /\ MaxDeliveries \in Nat /\ MaxCrashes \in Nat

VARIABLES
    hooks,        \* webhook -> its events, {} while there is no row
    deliveries,   \* rows of webhook_deliveries
    run,          \* run -> the deliveries it has read, by number
    posts,        \* history: delivery -> posts made (up to MaxAttempts), accepted
    crashes

hookVars == <<hooks, deliveries, run, posts, crashes>>

Ids == 1..MaxDeliveries
WebhookDelivery == [hook: Hooks, event: HookEvents, attempts: Nat,
                    status: {"pending", "delivered", "failed"}]

\* A run that is not going on has read nothing.
NoRun == <<>>
Nothing == [made |-> 0, accepted |-> FALSE]

-----------------------------------------------------------------------------
CreateWebhook(h, evs) ==
    /\ hooks[h] = {} /\ evs # {}
    /\ hooks' = [hooks EXCEPT ![h] = evs]
    /\ UNCHANGED <<deliveries, run, posts, crashes>>

Subscribed(ev) == {h \in Hooks : ev \in hooks[h]}

Pending(h, ev) == [hook |-> h, event |-> ev, attempts |-> 0, status |-> "pending"]

\* The subscribed webhooks, each once, in the order of the query.
Selected(ev) == {q \in [1..Cardinality(Subscribed(ev)) -> Subscribed(ev)] :
                    \A h \in Subscribed(ev) : \E i \in DOMAIN q : q[i] = h}

\* emit: one pending delivery for every subscribed webhook, with the commit
\* of the shift transition, or of the test endpoint, that calls it.
Emit(ev) ==
    /\ Subscribed(ev) # {}
    /\ \E q \in Selected(ev) :
          /\ Len(deliveries) + Len(q) =< MaxDeliveries
          /\ deliveries' = deliveries \o [i \in DOMAIN q |-> Pending(q[i], ev)]
    /\ UNCHANGED <<hooks, run, posts, crashes>>

-----------------------------------------------------------------------------
(* deliver_pending *)

PendingIds == {i \in DOMAIN deliveries : deliveries[i].status = "pending"}

\* The rows as read, and whether this run has still to post them.
DeliverStart(r) ==
    /\ run[r] = NoRun /\ PendingIds # {}
    /\ run' = [run EXCEPT ![r] = [i \in PendingIds |->
                  [attempts |-> deliveries[i].attempts, status |-> "pending", todo |-> TRUE]]]
    /\ UNCHANGED <<hooks, deliveries, posts, crashes>>

\* Mutant: any answer counts as a delivery.
AnyAnswer(attempts, answer) ==
    IF answer # "exception" THEN "delivered"
    ELSE IF attempts >= MaxAttempts THEN "failed" ELSE "pending"

\* Mutant: the limit is compared before the attempt is counted twice.
OneTooFew(attempts, answer) ==
    IF answer = "2xx" THEN "delivered"
    ELSE IF attempts + 1 >= MaxAttempts THEN "failed" ELSE "pending"

StatusAfter(attempts, answer) ==
    IF answer = "2xx" THEN "delivered"
    ELSE IF attempts >= MaxAttempts THEN "failed" ELSE "pending"

\* One POST.  After an exception (a timeout) the receiver may have it.
Deliver(r, i, answer, got) ==
    /\ i \in DOMAIN run[r] /\ run[r][i].todo
    /\ answer = "2xx" => got
    /\ answer = "other" => ~ got
    /\ run' = [run EXCEPT ![r][i] =
                  [attempts |-> @.attempts + 1, todo |-> FALSE,
                   status |-> StatusAfter(@.attempts + 1, answer)]]
    /\ posts' = [posts EXCEPT ![i] =
                  [made |-> IF @.made < MaxAttempts THEN @.made + 1 ELSE @.made,
                   accepted |-> @.accepted \/ got]]
    /\ UNCHANGED <<hooks, deliveries, crashes>>

\* Mutant: the count is lost unless the delivery ends.
StatusOnly(r) ==
    /\ run[r] # NoRun /\ \A i \in DOMAIN run[r] : ~ run[r][i].todo
    /\ deliveries' = [i \in DOMAIN deliveries |->
          IF i \notin DOMAIN run[r] \/ run[r][i].status = "pending" THEN deliveries[i]
          ELSE [deliveries[i] EXCEPT !.attempts = run[r][i].attempts, !.status = run[r][i].status]]
    /\ run' = [run EXCEPT ![r] = NoRun]
    /\ UNCHANGED <<hooks, posts, crashes>>

\* attempts is written as read plus one, over what other runs wrote;
\* status only when it is no longer pending.
DeliverCommit(r) ==
    /\ run[r] # NoRun /\ \A i \in DOMAIN run[r] : ~ run[r][i].todo
    /\ deliveries' = [i \in DOMAIN deliveries |->
          IF i \notin DOMAIN run[r] THEN deliveries[i]
          ELSE [deliveries[i] EXCEPT !.attempts = run[r][i].attempts,
                    !.status = IF run[r][i].status = "pending" THEN @ ELSE run[r][i].status]]
    /\ run' = [run EXCEPT ![r] = NoRun]
    /\ UNCHANGED <<hooks, posts, crashes>>

\* The worker dies, or its commit fails: the posts were made all the same.
DeliverCrash(r) ==
    /\ run[r] # NoRun /\ crashes < MaxCrashes
    /\ run' = [run EXCEPT ![r] = NoRun]
    /\ crashes' = crashes + 1
    /\ UNCHANGED <<hooks, deliveries, posts>>

HookInit == /\ hooks = [h \in Hooks |-> {}]
            /\ deliveries = <<>>
            /\ run = [r \in Deliverers |-> NoRun]
            /\ posts = [i \in Ids |-> Nothing]
            /\ crashes = 0

DeliverStep(r) ==
    \/ DeliverCommit(r)
    \/ \E i \in Ids, answer \in {"2xx", "other", "exception"}, got \in BOOLEAN :
          Deliver(r, i, answer, got)

HookNext ==
    \/ \E h \in Hooks, evs \in SUBSET HookEvents : CreateWebhook(h, evs)
    \/ \E ev \in HookEvents : Emit(ev)
    \/ \E r \in Deliverers : DeliverStart(r) \/ DeliverStep(r) \/ DeliverCrash(r)

HookSpec == HookInit /\ [][HookNext]_hookVars

\* Celery beat starts a run again and again, and a run ends.
HookFairness == \A r \in Deliverers : /\ WF_hookVars(DeliverStart(r))
                                      /\ WF_hookVars(DeliverStep(r))

-----------------------------------------------------------------------------
(* Properties *)

\* A delivery that shows as delivered was accepted by its receiver, whatever
\* runs overlapped or died.
DeliveredWasAccepted ==
    \A i \in DOMAIN deliveries : deliveries[i].status = "delivered" => posts[i].accepted

\* A delivery is given up only after max_attempts posts were really made:
\* lost counts make more posts, never fewer.
NotGivenUpEarly ==
    \A i \in DOMAIN deliveries : deliveries[i].status = "failed" => posts[i].made >= MaxAttempts

\* With beat and workers running, a delivery does not stay pending for ever,
\* though overlapping runs may set its count of attempts back.
DeliveryEnds ==
    \A i \in Ids : i \in PendingIds ~> i \notin PendingIds
=============================================================================
