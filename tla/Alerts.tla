------------------------------- MODULE Alerts -------------------------------
(***************************************************************************)
(* alerts/engine.py, alerts/router.py and notifications/service.py, of one *)
(* organization.  evaluate_org runs every Celery beat over today's         *)
(* attendance and productivity rows.  It raises an alert for every rule    *)
(* and employee whose dedup key has none yet, sends the notifications of   *)
(* the rule's channels, and commits once.                                  *)
(***************************************************************************)
EXTENDS Integers, Sequences, FiniteSets

CONSTANTS Watched,        \* employees
          RuleKeys,       \* late_arrival, excessive_idle, ...
          Thresholded,    \* the keys that compare with threshold_seconds
          Rules,          \* rows of alert_rules: [key, threshold, channels]
          Levels,         \* bound: late, idle, ... seconds, by order of size
          Evaluations,    \* bound: runs of evaluate_org at a time
          Decisions,      \* the statuses users set
          LastDay,        \* bound: days
          MaxAlertFaults  \* bound: runs that die

ASSUME AlertAssumption ==
    /\ Levels \subseteq Nat /\ 0 \in Levels /\ LastDay \in Nat /\ MaxAlertFaults \in Nat
    /\ Decisions \subseteq {"acknowledged", "resolved"}
    /\ Rules \subseteq [key: RuleKeys, threshold: Nat, channels: Seq({"in_app", "email"})]

VARIABLES
    rules,        \* rules created
    level,        \* employee -> key -> what today's rows say, 0 without rows
    today,
    alerts,       \* dedup key -> rows of alerts
    notices,      \* dedup key -> number of rows in notifications
    evaluation,   \* run -> what it has read and flushed
    alertFaults

alertVars == <<rules, level, today, alerts, notices, evaluation, alertFaults>>

DedupKeys == RuleKeys \X Watched \X (0..LastDay)
Alert == {"open", "acknowledged", "resolved"}
Asleep == [on |-> FALSE, day |-> 0, todo |-> {}, raised |-> {},
           sent |-> [d \in DedupKeys |-> 0]]

-----------------------------------------------------------------------------
CreateRule(x) == /\ x \notin rules
                 /\ rules' = rules \cup {x}
                 /\ UNCHANGED <<level, today, alerts, notices, evaluation, alertFaults>>

\* derive_for_shift, compute_org_rollups: today's rows change.
RowsChange(e, k, n) ==
    /\ level[e][k] # n
    /\ level' = [level EXCEPT ![e][k] = n]
    /\ UNCHANGED <<rules, today, alerts, notices, evaluation, alertFaults>>

\* The beat passes now().date(): rows of yesterday are not looked at again.
NewDay == /\ today < LastDay
          /\ today' = today + 1
          /\ level' = [e \in Watched |-> [k \in RuleKeys |-> 0]]
          /\ UNCHANGED <<rules, alerts, notices, evaluation, alertFaults>>

-----------------------------------------------------------------------------
(* evaluate_org *)

\* early_departure and missed_shift have no threshold.
Fires(x, n) == IF x.key \in Thresholded THEN n > x.threshold ELSE n > 0

\* The rules and rows as the run reads them.
Evaluate(r) ==
    /\ ~ evaluation[r].on /\ rules # {}
    /\ evaluation' = [evaluation EXCEPT ![r] = [Asleep EXCEPT !.on = TRUE, !.day = today,
          !.todo = {c \in rules \X Watched : Fires(c[1], level[c[2]][c[1].key])}]]
    /\ UNCHANGED <<rules, level, today, alerts, notices, alertFaults>>

\* Mutant: the key does not name the day.
KeyWithoutDay(c, day) == <<c[1].key, c[2], 0>>

DedupKey(c, day) == <<c[1].key, c[2], day>>

\* _create_alert: an alert with the key, committed or of this run.
Existing(x, d) == d \in x.raised \/ alerts[d] # <<>>

\* dispatch goes through the list of channels, which may name one twice, and
\* inserts a row for every in_app; the others, as email, are only logged.
\* An empty list means in_app.
InApp(x) == IF x.channels = <<>> THEN 1
            ELSE Cardinality({i \in DOMAIN x.channels : x.channels[i] = "in_app"})

SentAfter(x, c, d) ==
    IF Existing(x, d) THEN x.sent ELSE [x.sent EXCEPT ![d] = @ + InApp(c[1])]

CreateAlert(r, c) ==
    LET x == evaluation[r]  d == DedupKey(c, x.day) IN
    /\ c \in x.todo
    /\ evaluation' = [evaluation EXCEPT ![r].todo = @ \ {c},
          ![r].raised = IF Existing(x, d) THEN @ ELSE @ \cup {d},
          ![r].sent = SentAfter(x, c, d)]
    /\ UNCHANGED <<rules, level, today, alerts, notices, alertFaults>>

\* Mutant: no unique index.
NoDedupIndex(x) == TRUE

\* uq_alert_dedup: no other run has committed one of the keys.
DedupIndexOK(x) == \A d \in x.raised : alerts[d] = <<>>

EvaluateCommit(r) ==
    LET x == evaluation[r] IN
    /\ x.on /\ x.todo = {} /\ DedupIndexOK(x)
    /\ alerts' = [d \in DedupKeys |-> IF d \in x.raised THEN Append(alerts[d], "open") ELSE alerts[d]]
    /\ notices' = [d \in DedupKeys |-> notices[d] + x.sent[d]]
    /\ evaluation' = [evaluation EXCEPT ![r] = Asleep]
    /\ UNCHANGED <<rules, level, today, alertFaults>>

\* IntegrityError at the flush: all alerts of the run are rolled back.
EvaluateRefused(r) ==
    /\ ~ DedupIndexOK(evaluation[r])
    /\ evaluation' = [evaluation EXCEPT ![r] = Asleep]
    /\ UNCHANGED <<rules, level, today, alerts, notices, alertFaults>>

EvaluateCrash(r) ==
    /\ evaluation[r].on /\ alertFaults < MaxAlertFaults
    /\ alertFaults' = alertFaults + 1
    /\ evaluation' = [evaluation EXCEPT ![r] = Asleep]
    /\ UNCHANGED <<rules, level, today, alerts, notices>>

\* _set_alert_status: from any status.
SetAlertStatus(d, status) ==
    /\ alerts[d] # <<>>
    /\ alerts' = [alerts EXCEPT ![d][1] = status]
    /\ UNCHANGED <<rules, level, today, notices, evaluation, alertFaults>>

AlertInit == /\ rules = {} /\ today = 0
             /\ level = [e \in Watched |-> [k \in RuleKeys |-> 0]]
             /\ alerts = [d \in DedupKeys |-> <<>>]
             /\ notices = [d \in DedupKeys |-> 0]
             /\ evaluation = [r \in Evaluations |-> Asleep]
             /\ alertFaults = 0

EvaluateStep(r) == \/ \E c \in evaluation[r].todo : CreateAlert(r, c)
                   \/ EvaluateCommit(r) \/ EvaluateRefused(r)

AlertNext ==
    \/ \E x \in Rules : CreateRule(x)
    \/ \E e \in Watched, k \in RuleKeys, n \in Levels : RowsChange(e, k, n)
    \/ NewDay
    \/ \E r \in Evaluations : Evaluate(r) \/ EvaluateStep(r) \/ EvaluateCrash(r)
    \/ \E d \in DedupKeys, s \in Decisions : SetAlertStatus(d, s)

AlertSpec == AlertInit /\ [][AlertNext]_alertVars

\* Celery beat starts a run again and again, and a run ends.
AlertFairness == \A r \in Evaluations : /\ WF_alertVars(Evaluate(r))
                                        /\ WF_alertVars(EvaluateStep(r))

-----------------------------------------------------------------------------
(* Properties *)

\* "idempotent: already alerted for this occurrence" (engine.py): a kind of
\* rule, an employee and a day have at most one alert, and with it all the
\* notifications of one rule of the kind, and no others: also when runs
\* overlap, are refused, die or find the alert resolved.
AlertedOnce ==
    \A d \in DedupKeys :
        /\ Len(alerts[d]) =< 1
        /\ IF alerts[d] = <<>> THEN notices[d] = 0
           ELSE \E x \in rules : x.key = d[1] /\ notices[d] = InApp(x)

\* A rule fires on what today's rows say of the employee.
Overdue(e, k) == \E x \in rules : x.key = k /\ Fires(x, level[e][k])

\* What is over its threshold is alerted on the same day, unless the day
\* ends or the rows change first.
OverdueIsAlerted ==
    \A e \in Watched, k \in RuleKeys, day \in 0..LastDay :
        (today = day /\ Overdue(e, k))
            ~> (today # day \/ ~ Overdue(e, k) \/ alerts[<<k, e, day>>] # <<>>)
=============================================================================
