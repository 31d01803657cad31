------------------------- MODULE Collectors_proofs -------------------------
(***************************************************************************)
(* Proof that no collector reports a moment twice, for any applications,   *)
(* monitoring settings and numbers of minutes, inputs and restarts.        *)
(***************************************************************************)
EXTENDS Collectors, TLAPS

EventReport == [kind: {"idle", "activity", "app", "web"}, from: 0..Minutes, to: 0..Minutes, input: Nat]
OfActivity == {"idle", "activity"}

CollectTypeOK ==
    /\ reports \in Seq(EventReport)
    /\ minute \in 0..Minutes /\ intervalStart \in 0..Minutes
    /\ span \in [app: Apps \cup {NoApp}, start: 0..Minutes]
    /\ foreground \in Apps \cup {NoApp}
    /\ counter \in Nat /\ config \in Configs

\* Every report of a collector ends where its next one begins, or before.
CollectInv ==
    /\ CollectTypeOK
    /\ intervalStart =< minute /\ span.start =< minute
    /\ \A i \in DOMAIN reports :
          reports[i].to =< IF reports[i].kind \in OfActivity THEN intervalStart ELSE span.start
    /\ TimeReportedOnce

LEMMA CollectInvInit == CollectInit => CollectInv
BY CollectorAssumption DEF CollectInit, CollectInv, CollectTypeOK, TimeReportedOnce

LEMMA ReportedWithin ==
    ASSUME NEW rs \in Seq(EventReport), NEW i \in DOMAIN rs
    PROVE  rs[i].to \in 0..Minutes
<1>1. rs[i] \in EventReport
    OBVIOUS
<1> QED BY <1>1 DEF EventReport

\* What an iteration of the loop adds begins where the collector's last
\* report ended, and ends with the minute.
LEMMA PassReports ==
    ASSUME CollectInv, NEW idle \in BOOLEAN, NEW site \in BOOLEAN
    PROVE  /\ ActivityReports(idle) \in Seq(EventReport) /\ Len(ActivityReports(idle)) =< 1
           /\ \A i \in DOMAIN ActivityReports(idle) :
                 /\ ActivityReports(idle)[i].kind \in OfActivity
                 /\ ActivityReports(idle)[i].from = intervalStart
                 /\ ActivityReports(idle)[i].to = minute
           /\ SpanReports(site) \in Seq(EventReport)
           /\ \A i \in DOMAIN SpanReports(site) :
                 /\ SpanEnds
                 /\ SpanReports(site)[i].kind \notin OfActivity
                 /\ SpanReports(site)[i].from = span.start /\ SpanReports(site)[i].to = minute
           /\ \A i, j \in DOMAIN SpanReports(site) : i < j => SpanReports(site)[i].kind # SpanReports(site)[j].kind
<1>1. /\ Report("idle", intervalStart, minute, 0) \in EventReport
      /\ Report("activity", intervalStart, minute, counter) \in EventReport
      /\ Report("app", span.start, minute, 0) \in EventReport
      /\ Report("web", span.start, minute, 0) \in EventReport
    BY DEF Report, EventReport, CollectInv, CollectTypeOK
<1>2. /\ ActivityReports(idle) \in Seq(EventReport) /\ Len(ActivityReports(idle)) =< 1
      /\ \A i \in DOMAIN ActivityReports(idle) :
            /\ ActivityReports(idle)[i].kind \in OfActivity
            /\ ActivityReports(idle)[i].from = intervalStart
            /\ ActivityReports(idle)[i].to = minute
    BY <1>1 DEF ActivityReports, Report, OfActivity
<1> DEFINE apps == IF config.applications THEN <<Report("app", span.start, minute, 0)>> ELSE <<>>
           webs == IF config.websites /\ span.app \in Browsers /\ site
                   THEN <<Report("web", span.start, minute, 0)>> ELSE <<>>
<1>3. /\ apps \in Seq(EventReport) /\ Len(apps) =< 1
      /\ webs \in Seq(EventReport) /\ Len(webs) =< 1
      /\ \A i \in DOMAIN apps : /\ apps[i].kind = "app" /\ apps[i].from = span.start
                                /\ apps[i].to = minute
      /\ \A i \in DOMAIN webs : /\ webs[i].kind = "web" /\ webs[i].from = span.start
                                /\ webs[i].to = minute
    BY <1>1 DEF Report
<1>4. SpanReports(site) = IF ~ SpanEnds \/ span.app = NoApp THEN <<>> ELSE apps \o webs
    BY DEF SpanReports
<1> HIDE DEF apps, webs
<1> DEFINE both == apps \o webs
<1>5. /\ both \in Seq(EventReport)
      /\ \A i \in DOMAIN both : /\ both[i].kind \notin OfActivity
                                /\ both[i].from = span.start /\ both[i].to = minute
      /\ \A i, j \in DOMAIN both : i < j => both[i].kind # both[j].kind
    BY <1>3 DEF OfActivity
<1> HIDE DEF both
<1>6. /\ SpanReports(site) \in Seq(EventReport)
      /\ \A i \in DOMAIN SpanReports(site) :
            /\ SpanEnds
            /\ SpanReports(site)[i].kind \notin OfActivity
            /\ SpanReports(site)[i].from = span.start /\ SpanReports(site)[i].to = minute
      /\ \A i, j \in DOMAIN SpanReports(site) :
            i < j => SpanReports(site)[i].kind # SpanReports(site)[j].kind
  <2>1. CASE ~ SpanEnds \/ span.app = NoApp
    <3>1. SpanReports(site) = <<>>
        BY <1>4, <2>1
    <3> QED BY <3>1
  <2>2. CASE SpanEnds /\ span.app # NoApp
    <3>1. SpanReports(site) = both
        BY <1>4, <2>2 DEF both
    <3>2. SpanEnds
        BY <2>2
    <3> QED BY <1>5, <3>1, <3>2
  <2> QED BY <2>1, <2>2
<1> QED BY <1>2, <1>6

\* Reports that begin where their collector stands can be appended.
LEMMA Appended ==
    ASSUME NEW rs \in Seq(EventReport), NEW new \in Seq(EventReport),
           \A i, j \in DOMAIN rs, k \in Kinds :
              i < j /\ {rs[i].kind, rs[j].kind} \subseteq k => rs[i].to =< rs[j].from,
           \A i \in DOMAIN rs, j \in DOMAIN new, k \in Kinds :
              {rs[i].kind, new[j].kind} \subseteq k => rs[i].to =< new[j].from,
           \A i, j \in DOMAIN new, k \in Kinds :
              i < j /\ {new[i].kind, new[j].kind} \subseteq k => new[i].to =< new[j].from
    PROVE  /\ rs \o new \in Seq(EventReport)
           /\ \A i \in DOMAIN (rs \o new) : \/ \E j \in DOMAIN rs : (rs \o new)[i] = rs[j]
                                            \/ \E j \in DOMAIN new : (rs \o new)[i] = new[j]
           /\ \A i, j \in DOMAIN (rs \o new), k \in Kinds :
                 i < j /\ {(rs \o new)[i].kind, (rs \o new)[j].kind} \subseteq k
                     => (rs \o new)[i].to =< (rs \o new)[j].from
<1> DEFINE es == rs \o new
<1>1. /\ es \in Seq(EventReport) /\ Len(es) = Len(rs) + Len(new)
      /\ \A i \in 1..Len(es) : es[i] = IF i =< Len(rs) THEN rs[i] ELSE new[i - Len(rs)]
    OBVIOUS
<1> HIDE DEF es
<1>2. \A i \in DOMAIN es : \/ i \in DOMAIN rs /\ es[i] = rs[i]
                           \/ i - Len(rs) \in DOMAIN new /\ i > Len(rs) /\ es[i] = new[i - Len(rs)]
    BY <1>1
<1>3. ASSUME NEW i \in DOMAIN es, NEW j \in DOMAIN es, NEW k \in Kinds, i < j,
             {es[i].kind, es[j].kind} \subseteq k
      PROVE  es[i].to =< es[j].from
  <2>1. CASE i \in DOMAIN rs /\ es[i] = rs[i] /\ j \in DOMAIN rs /\ es[j] = rs[j]
      BY <2>1, <1>3
  <2>2. CASE i \in DOMAIN rs /\ es[i] = rs[i] /\ j > Len(rs)
      BY <2>2, <1>2, <1>3
  <2>3. CASE i > Len(rs) /\ j > Len(rs)
    <3> DEFINE u == i - Len(rs)
               v == j - Len(rs)
    <3>1. u \in DOMAIN new /\ v \in DOMAIN new /\ u < v /\ es[i] = new[u] /\ es[j] = new[v]
        BY <2>3, <1>1, <1>2, <1>3
    <3> HIDE DEF u, v
    <3> QED BY <3>1, <1>3
  <2> QED BY <2>1, <2>2, <2>3, <1>1, <1>2, <1>3
<1> QED BY <1>1, <1>2, <1>3 DEF es

LEMMA CollectInvPass ==
    ASSUME CollectInv, NEW idle \in BOOLEAN, NEW ak \in BOOLEAN, NEW sk \in BOOLEAN,
           NEW site \in BOOLEAN, CollectPass(idle, ak, sk, site)
    PROVE  CollectInv'
<1> DEFINE first == IF ak THEN ActivityReports(idle) ELSE <<>>
           second == IF sk THEN SpanReports(site) ELSE <<>>
<1>1. /\ reports' = (reports \o first) \o second
      /\ counter' = SampleAndReset(idle)
      /\ intervalStart' = minute
      /\ span' = IF SpanEnds THEN [app |-> foreground, start |-> minute] ELSE span
      /\ UNCHANGED <<minute, foreground, config>>
    BY DEF CollectPass, IntervalStartAfter, outside
<1>2. /\ reports \in Seq(EventReport) /\ minute \in 0..Minutes /\ Minutes \in Nat
      /\ intervalStart \in 0..Minutes /\ intervalStart =< minute
      /\ span.start \in 0..Minutes /\ span.start =< minute
    BY CollectorAssumption DEF CollectInv, CollectTypeOK
<1>3. /\ first \in Seq(EventReport) /\ Len(first) =< 1
      /\ \A i \in DOMAIN first : /\ first[i].kind \in OfActivity
                                 /\ first[i].from = intervalStart /\ first[i].to = minute
    BY PassReports
<1>4. /\ second \in Seq(EventReport)
      /\ \A i \in DOMAIN second : /\ SpanEnds /\ second[i].kind \notin OfActivity
                                  /\ second[i].from = span.start /\ second[i].to = minute
      /\ \A i, j \in DOMAIN second : i < j => second[i].kind # second[j].kind
    BY PassReports
<1> HIDE DEF first, second
<1>6. /\ \A a, b, k : k \in Kinds /\ {a, b} \subseteq k => (a \in OfActivity <=> b \in OfActivity)
      /\ \A a, b, k : k \in Kinds /\ {a, b} \subseteq k /\ a \notin OfActivity => a = b
    BY DEF Kinds, OfActivity
<1> DEFINE mid == reports \o first
<1>7. /\ mid \in Seq(EventReport)
      /\ \A i \in DOMAIN mid : \/ \E j \in DOMAIN reports : mid[i] = reports[j]
                               \/ \E j \in DOMAIN first : mid[i] = first[j]
      /\ \A i, j \in DOMAIN mid, k \in Kinds :
            i < j /\ {mid[i].kind, mid[j].kind} \subseteq k => mid[i].to =< mid[j].from
  <2>1. \A i, j \in DOMAIN reports, k \in Kinds :
           i < j /\ {reports[i].kind, reports[j].kind} \subseteq k => reports[i].to =< reports[j].from
      BY DEF CollectInv, TimeReportedOnce
  <2>2. \A i \in DOMAIN reports, j \in DOMAIN first, k \in Kinds :
           {reports[i].kind, first[j].kind} \subseteq k => reports[i].to =< first[j].from
      BY <1>3, <1>6 DEF CollectInv
  <2>3. \A i, j \in DOMAIN first : ~ (i < j)
      BY <1>3
  <2> QED BY <1>2, <1>3, <2>1, <2>2, <2>3, Appended
<1> HIDE DEF mid
<1>8. \A i \in DOMAIN mid : mid[i].kind \notin OfActivity => mid[i].to =< span.start
    BY <1>3, <1>7 DEF CollectInv
<1>9. \A i \in DOMAIN mid : mid[i].to =< minute
  <2>1. \A i \in DOMAIN reports : reports[i].to =< minute
    <3>1. \A i \in DOMAIN reports : reports[i].to \in 0..Minutes
        BY <1>2, ReportedWithin
    <3> QED BY <1>2, <3>1 DEF CollectInv
  <2> QED BY <1>2, <1>3, <1>7, <2>1
<1>10. /\ reports' \in Seq(EventReport)
       /\ \A i \in DOMAIN reports' : \/ \E j \in DOMAIN mid : reports'[i] = mid[j]
                                     \/ \E j \in DOMAIN second : reports'[i] = second[j]
       /\ \A i, j \in DOMAIN reports', k \in Kinds :
             i < j /\ {reports'[i].kind, reports'[j].kind} \subseteq k => reports'[i].to =< reports'[j].from
  <2>1. reports' = mid \o second
      BY <1>1 DEF mid
  <2>2. \A i \in DOMAIN mid, j \in DOMAIN second, k \in Kinds :
           {mid[i].kind, second[j].kind} \subseteq k => mid[i].to =< second[j].from
      BY <1>4, <1>6, <1>8
  <2>3. \A i, j \in DOMAIN second, k \in Kinds :
           i < j /\ {second[i].kind, second[j].kind} \subseteq k => second[i].to =< second[j].from
      BY <1>4, <1>6
  <2>4. /\ mid \o second \in Seq(EventReport)
        /\ \A i \in DOMAIN (mid \o second) : \/ \E j \in DOMAIN mid : (mid \o second)[i] = mid[j]
                                             \/ \E j \in DOMAIN second : (mid \o second)[i] = second[j]
        /\ \A i, j \in DOMAIN (mid \o second), k \in Kinds :
              i < j /\ {(mid \o second)[i].kind, (mid \o second)[j].kind} \subseteq k
                  => (mid \o second)[i].to =< (mid \o second)[j].from
    <3>1. second \in Seq(EventReport) /\ mid \in Seq(EventReport)
        BY <1>4, <1>7
    <3>2. \A i, j \in DOMAIN mid, k \in Kinds :
             i < j /\ {mid[i].kind, mid[j].kind} \subseteq k => mid[i].to =< mid[j].from
        BY <1>7
    <3> QED BY ONLY <3>1, <3>2, <2>2, <2>3, Appended
  <2> QED BY <2>1, <2>4
<1>11. \A i \in DOMAIN reports' : reports'[i].to =< IF reports'[i].kind \in OfActivity THEN intervalStart'
                                                    ELSE span'.start
  <2> SUFFICES ASSUME NEW i \in DOMAIN reports'
               PROVE  reports'[i].to =< IF reports'[i].kind \in OfActivity THEN intervalStart'
                                        ELSE span'.start
      OBVIOUS
  <2>1. CASE \E j \in DOMAIN mid : reports'[i] = mid[j]
      BY <2>1, <1>1, <1>8, <1>9
  <2>2. CASE \E j \in DOMAIN second : reports'[i] = second[j]
      BY <2>2, <1>1, <1>2, <1>4
  <2> QED BY <2>1, <2>2, <1>10
<1>12. CollectTypeOK' /\ intervalStart' =< minute' /\ span'.start =< minute'
    BY <1>1, <1>2, <1>10 DEF CollectInv, CollectTypeOK, SampleAndReset
<1>13. TimeReportedOnce'
    BY <1>10 DEF TimeReportedOnce
<1> QED BY <1>11, <1>12, <1>13 DEF CollectInv

LEMMA CollectInvNext == CollectInv /\ [CollectNext]_collectVars => CollectInv'
<1> SUFFICES ASSUME CollectInv, [CollectNext]_collectVars PROVE CollectInv'
    OBVIOUS
<1>1. ASSUME UNCHANGED <<reports, minute, intervalStart, span, config>>,
             foreground' \in Apps \cup {NoApp}, counter' \in Nat
      PROVE  CollectInv'
    BY <1>1 DEF CollectInv, CollectTypeOK, TimeReportedOnce
<1>2. /\ foreground \in Apps \cup {NoApp} /\ counter \in Nat /\ minute \in 0..Minutes
      /\ Minutes \in Nat /\ intervalStart \in 0..Minutes /\ span.start \in 0..Minutes
    BY CollectorAssumption DEF CollectInv, CollectTypeOK
<1>3. CASE UNCHANGED collectVars \/ ShiftChanges \/ HeartbeatView \/ Input
    BY <1>1, <1>2, <1>3 DEF collectVars, ShiftChanges, HeartbeatView, Input, memory, outside
<1>4. ASSUME NEW a \in Apps \cup {NoApp}, SwitchApp(a)
      PROVE  CollectInv'
    BY <1>1, <1>2, <1>4 DEF SwitchApp, memory, outside
<1>5. CASE NextMinute
  <2>1. /\ minute' = minute + 1 /\ minute' \in 0..Minutes
        /\ UNCHANGED <<reports, intervalStart, span, config, foreground, counter>>
      BY <1>2, <1>5 DEF NextMinute, memory, outside
  <2> QED BY <1>2, <2>1 DEF CollectInv, CollectTypeOK, TimeReportedOnce
<1>6. CASE AgentStops
  <2>1. /\ span' = [app |-> NoApp, start |-> minute] /\ intervalStart' = minute /\ counter' = 0
        /\ UNCHANGED <<reports, minute, config, foreground>>
      BY <1>6 DEF AgentStops
  <2>2. \A i \in DOMAIN reports : reports[i].to =< minute
    <3>1. \A i \in DOMAIN reports : reports[i].to \in 0..Minutes
        BY ReportedWithin DEF CollectInv, CollectTypeOK
    <3> QED BY <1>2, <3>1 DEF CollectInv
  <2> QED BY <1>2, <2>1, <2>2 DEF CollectInv, CollectTypeOK, TimeReportedOnce
<1> QED BY <1>3, <1>4, <1>5, <1>6, CollectInvPass DEF CollectNext

\* TimeReportedOnce: the intervals and spans one collector reports never
\* overlap, across breaks, idle passes, lost reports and restarts.
THEOREM TimeReportedOnceAlways == CollectSpec => []TimeReportedOnce
<1>1. CollectInv => TimeReportedOnce
    BY DEF CollectInv
<1> QED BY <1>1, CollectInvInit, CollectInvNext, PTL DEF CollectSpec
=============================================================================
