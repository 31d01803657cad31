----------------------------- MODULE EventStream -----------------------------
(***************************************************************************)
(* What the agent and the backend promise together about monitoring        *)
(* events, without queue, batches, requests or faults: the backend's table *)
(* is a prefix of what was captured, and catches up.                       *)
(***************************************************************************)
EXTENDS Naturals

CONSTANT MaxEvents      \* bound: events captured

VARIABLES captured,     \* events 1..captured have been captured
          received      \* the events the backend has

Prefix(S) == \A n \in S : 1..n \subseteq S

Init == captured = 0 /\ received = {}

Capture == /\ captured < MaxEvents
           /\ captured' = captured + 1
           /\ UNCHANGED received

Deliver == /\ received' \in SUBSET (1..captured)
           /\ received \subseteq received' /\ received # received'
           /\ Prefix(received')
           /\ UNCHANGED captured

Spec == Init /\ [][Capture \/ Deliver]_<<captured, received>>
FairSpec == Spec /\ WF_<<captured, received>>(Deliver)
=============================================================================
