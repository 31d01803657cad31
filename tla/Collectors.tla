----------------------------- MODULE Collectors -----------------------------
(***************************************************************************)
(* CollectionWorker.cs and its collectors.  Each minute in which the       *)
(* cached state is WORKING, ActivityCollector reports the interval since   *)
(* its last pass and ActiveWindowCollector the span of an application that *)
(* has lost the foreground.  Hooks count input all the time, on threads of *)
(* their own.  All of it is in memory only.                                *)
(***************************************************************************)
EXTENDS Integers, Sequences

CONSTANTS Apps, Browsers,     \* process names; Browsers is a subset
          Configs,            \* monitoring: [idle, input, applications, websites]
          Minutes,            \* bound: the clock
          MaxInput,           \* bound: input events
          MaxRestarts         \* bound: restarts of the agent

ASSUME CollectorAssumption ==
    /\ Browsers \subseteq Apps /\ Minutes \in Nat /\ MaxInput \in Nat /\ MaxRestarts \in Nat
    /\ Configs \subseteq [idle: BOOLEAN, input: BOOLEAN, applications: BOOLEAN, websites: BOOLEAN]

NoApp == "none"               \* nothing in the foreground, or no span yet

VARIABLES
    working,        \* the shift is WORKING on the server
    monitoring,     \* AgentState.MonitoringActive: the cached state is WORKING
    config,         \* the shift's monitoring config
    minute,
    passed,         \* the pass of this minute is over
    foreground,     \* the application in front
    span,           \* _currentApp, _spanStart
    intervalStart,
    counter,        \* _keys and _mouse together
    reports,        \* events handed to the queue
    pressed,        \* input events so far
    agentStarts

collectVars == <<working, monitoring, config, minute, passed, foreground, span, intervalStart,
                 counter, reports, pressed, agentStarts>>
outside == <<config, pressed, agentStarts>>
memory == <<span, intervalStart, counter, reports>>

Report(kind, from, to, input) == [kind |-> kind, from |-> from, to |-> to, input |-> input]

-----------------------------------------------------------------------------
ShiftChanges == /\ working' = ~ working
                /\ UNCHANGED <<monitoring, minute, passed, foreground, memory, outside>>

\* HeartbeatWorker: the cached state becomes the server's.
HeartbeatView ==
    /\ monitoring' = working
    /\ UNCHANGED <<working, minute, passed, foreground, memory, outside>>

SwitchApp(a) == /\ a # foreground
                /\ foreground' = a
                /\ UNCHANGED <<working, monitoring, minute, passed, memory, outside>>

\* KbdCallback, MouseCallback: whatever the state of the shift.
Input == /\ pressed < MaxInput
         /\ pressed' = pressed + 1 /\ counter' = counter + 1
         /\ UNCHANGED <<working, monitoring, config, minute, passed, foreground, span,
                        intervalStart, reports, agentStarts>>

-----------------------------------------------------------------------------
(* A pass of CollectionWorker *)

\* What is in the counters after the pass: SampleAndReset, unless idle.
SampleAndReset(idle) == IF ~ idle /\ config.input THEN 0 ELSE counter

ActivityReports(idle) ==
    IF idle THEN <<Report("idle", intervalStart, minute, 0)>>
    ELSE IF config.input THEN <<Report("activity", intervalStart, minute, counter)>>
    ELSE <<>>

\* Mutant: an idle interval does not move the start of the next one.
StartAfterActivity(idle) == IF idle THEN intervalStart ELSE minute

IntervalStartAfter(idle) == minute

\* The span ends when a pass finds another application in front; site: the
\* title it began with names a domain.
SpanEnds == foreground # NoApp /\ foreground # span.app

SpanReports(site) ==
    IF ~ SpanEnds \/ span.app = NoApp THEN <<>>
    ELSE (IF config.applications THEN <<Report("app", span.start, minute, 0)>> ELSE <<>>)
      \o (IF config.websites /\ span.app \in Browsers /\ site
          THEN <<Report("web", span.start, minute, 0)>> ELSE <<>>)

\* Idle means no input for the policy's threshold: how long ago the last
\* input was is left open.  An exception (the queue's database) costs the
\* reports of one collector.
CollectPass(idle, activityKept, spanKept, site) ==
    /\ monitoring /\ ~ passed
    /\ idle => config.idle
    /\ reports' = reports \o (IF activityKept THEN ActivityReports(idle) ELSE <<>>)
                          \o (IF spanKept THEN SpanReports(site) ELSE <<>>)
    /\ counter' = SampleAndReset(idle)
    /\ intervalStart' = IntervalStartAfter(idle)
    /\ span' = IF SpanEnds THEN [app |-> foreground, start |-> minute] ELSE span
    /\ passed' = TRUE
    /\ UNCHANGED <<working, monitoring, minute, foreground, outside>>

\* Task.Delay(60 s), with or without a pass.
NextMinute == /\ minute < Minutes
              /\ minute' = minute + 1 /\ passed' = FALSE
              /\ UNCHANGED <<working, monitoring, foreground, memory, outside>>

AgentStops ==
    /\ agentStarts < MaxRestarts
    /\ agentStarts' = agentStarts + 1
    /\ monitoring' = FALSE
    /\ span' = [app |-> NoApp, start |-> minute] /\ intervalStart' = minute
    /\ counter' = 0
    /\ UNCHANGED <<working, config, minute, passed, foreground, reports, pressed>>

CollectInit ==
    /\ working = FALSE /\ monitoring = FALSE /\ config \in Configs
    /\ minute = 0 /\ passed = FALSE /\ foreground = NoApp
    /\ span = [app |-> NoApp, start |-> 0] /\ intervalStart = 0 /\ counter = 0
    /\ reports = <<>> /\ pressed = 0 /\ agentStarts = 0

CollectNext ==
    \/ ShiftChanges \/ HeartbeatView \/ Input \/ NextMinute \/ AgentStops
    \/ \E a \in Apps \cup {NoApp} : SwitchApp(a)
    \/ \E idle, activityKept, spanKept, site \in BOOLEAN :
          CollectPass(idle, activityKept, spanKept, site)

CollectSpec == CollectInit /\ [][CollectNext]_collectVars

-----------------------------------------------------------------------------
(* Properties *)

Kinds == {{"idle", "activity"}, {"app"}, {"web"}}

\* No moment is reported twice by one collector: idle and active intervals
\* do not overlap, nor do the spans of applications, across breaks, idle
\* passes, lost reports and restarts.
TimeReportedOnce ==
    \A i, j \in DOMAIN reports, k \in Kinds :
        i < j /\ {reports[i].kind, reports[j].kind} \subseteq k => reports[i].to =< reports[j].from
=============================================================================
