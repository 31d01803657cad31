------------------------------ MODULE MCPolicy ------------------------------
(***************************************************************************)
(* Instance of policy assignments for TLC: two policies on any level above *)
(* the employee and on the employee, and one for a team of others.         *)
(***************************************************************************)
EXTENDS Policies

CONSTANTS p1, p2

AssignedPolicies ==
    [level: {"organization", "department", "employee"}, mine: {TRUE}, policy: {p1, p2},
     allow: BOOLEAN, priority: {0, 1}]
    \cup [level: {"team"}, mine: {FALSE}, policy: {p1}, allow: {TRUE}, priority: {0}]
=============================================================================
