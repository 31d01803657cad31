----------------------------- MODULE MCProgress -----------------------------
(***************************************************************************)
(* Instance of the parts in which something must happen in the end: the    *)
(* way of events to the backend, webhook deliveries, alerts and the        *)
(* retention of screenshots.  A behaviour is one of one of them; they      *)
(* share no state, and the others stay as they were.                       *)
(***************************************************************************)
EXTENDS OfflineSync, Webhooks, Alerts, Screenshots

CONSTANTS Parts, e1
VARIABLE part

OneShift == {<<e1, 1>>}
IdleRules == {[key |-> "excessive_idle", threshold |-> 1, channels |-> <<"email">>]}

ProgressInit ==
    /\ part \in Parts
    /\ Init /\ HookInit /\ AlertInit /\ ShotInit
    /\ part # "screenshots" => keepDays = CHOOSE n \in RetentionDays : TRUE

ProgressNext ==
    /\ UNCHANGED part
    /\ \/ part = "sync" /\ Next /\ UNCHANGED <<hookVars, alertVars, shotVars>>
       \/ part = "webhooks" /\ HookNext /\ UNCHANGED <<vars, alertVars, shotVars>>
       \/ part = "alerts" /\ AlertNext /\ UNCHANGED <<vars, hookVars, shotVars>>
       \/ part = "screenshots" /\ ShotNext /\ UNCHANGED <<vars, hookVars, alertVars>>

\* Of the fair actions only ShotDayEnds is enabled in a part that stays as
\* it was.
ProgressSpec == /\ ProgressInit
                /\ [][ProgressNext]_<<part, vars, hookVars, alertVars, shotVars>>
                /\ Fairness /\ HookFairness /\ AlertFairness /\ PurgeFairness
                /\ WF_shotVars(part = "screenshots" /\ ShotDayEnds)
=============================================================================
