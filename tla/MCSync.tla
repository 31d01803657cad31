-------------------------------- MODULE MCSync --------------------------------
(***************************************************************************)
(* Instance of OfflineSync for TLC: one employee whose shifts are waiting, *)
(* working or over.                                                        *)
(***************************************************************************)
EXTENDS OfflineSync, TLC

CONSTANTS e1, h1, h2

TwoShifts == {<<e1, 1>>, <<e1, 2>>}

\* Bound: with the second shift, the outage between two shifts, two events
\* and one fault; without it all of them.
OutageBound == state[<<e1, 2>>] = NoShift \/ (last =< 2 /\ faults =< 1)

\* Sound for the invariants and the refinement: handlers are alike.
HandlerSymmetry == Permutations({h1, h2})
=============================================================================
