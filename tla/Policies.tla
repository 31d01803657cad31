------------------------------ MODULE Policies ------------------------------
(***************************************************************************)
(* policy/router.py and policy/resolver.py, for one employee and one kind  *)
(* of policy: policies are created and assigned to levels, never removed;  *)
(* the effective policy is found by walking the levels.  A policy carries  *)
(* all fields, so the effective one is one policy, or the default.         *)
(***************************************************************************)
EXTENDS Integers, FiniteSets, SequencesExt

CONSTANTS PolicyIds, PolicyDefault,
          Assignable,      \* rows of policy_assignments to choose from
          MaxAssignments   \* bound: rows

LEVEL_ORDER == <<"organization", "department", "team", "employee">>

ASSUME PolicyAssumption ==
    /\ PolicyDefault \notin PolicyIds /\ MaxAssignments \in Nat
    /\ Assignable \subseteq [level: ToSet(LEVEL_ORDER), mine: BOOLEAN, policy: PolicyIds,
                             allow: BOOLEAN, priority: Nat]

VARIABLES policies, assignments
policyVars == <<policies, assignments>>

\* create_shift_policy, create_monitoring_policy
CreatePolicy(p) == /\ p \notin policies
                   /\ policies' = policies \cup {p}
                   /\ UNCHANGED assignments

\* assign_policy: the policy need not exist.
AssignPolicy(a) == /\ a \notin assignments /\ Cardinality(assignments) < MaxAssignments
                   /\ assignments' = assignments \cup {a}
                   /\ UNCHANGED policies

PolicyInit == policies = {} /\ assignments = {}

PolicyNext == \/ \E p \in PolicyIds : CreatePolicy(p)
              \/ \E a \in Assignable : AssignPolicy(a)

PolicySpec == PolicyInit /\ [][PolicyNext]_policyVars

-----------------------------------------------------------------------------
(* _resolve_kind *)

NoAssignment == [policy |-> PolicyDefault]

\* mine: the target is the employee's organization, department, team or self.
ByLevel(l) == {a \in assignments : a.level = l /\ a.mine}

\* Highest priority wins; of equal ones the first row the query returns.
ChosenAt(l) == IF ByLevel(l) = {} THEN {NoAssignment}
               ELSE {a \in ByLevel(l) : \A b \in ByLevel(l) : b.priority =< a.priority}

Picks == {f \in [ToSet(LEVEL_ORDER) -> UNION {ChosenAt(l) : l \in ToSet(LEVEL_ORDER)}] :
               \A l \in ToSet(LEVEL_ORDER) : f[l] \in ChosenAt(l)}

Baseline == [policy |-> PolicyDefault, allowed |-> TRUE]

\* Mutant: the assignment's own flag decides whether it overrides.
OwnFlag(st, a) ==
    IF a.policy \notin policies THEN st
    ELSE [policy |-> IF a.allow THEN a.policy ELSE st.policy, allowed |-> a.allow]

\* effective.update if the previous level allows it; then this level's flag
\* counts for the next one, whether it was applied or not.
ApplyLevel(st, a) ==
    IF a.policy \notin policies THEN st
    ELSE [policy |-> IF st.allowed THEN a.policy ELSE st.policy, allowed |-> a.allow]

ResolveKind(f) ==
    LET effective[n \in 0..Len(LEVEL_ORDER)] ==
            IF n = 0 THEN Baseline ELSE ApplyLevel(effective[n - 1], f[LEVEL_ORDER[n]])
    IN  effective[Len(LEVEL_ORDER)].policy

-----------------------------------------------------------------------------
(* Properties *)

\* The docstring: a more specific level overrides "only when the inherited
\* assignment permits override; otherwise the inherited value stands", and
\* with it the assignment it came from.
Inherit(st, a) == IF a.policy \notin policies \/ ~ st.allowed THEN st
                  ELSE [policy |-> a.policy, allowed |-> a.allow]

Documented(f) ==
    LET inherited[n \in 0..Len(LEVEL_ORDER)] ==
            IF n = 0 THEN Baseline ELSE Inherit(inherited[n - 1], f[LEVEL_ORDER[n]])
    IN  inherited[Len(LEVEL_ORDER)].policy

\* The inherited value stands, whatever is assigned below a level that
\* forbids to override it (resolver.py:5).
InheritedValueStands == \A f \in Picks : ResolveKind(f) = Documented(f)

\* What the code keeps of it, for every chain of levels, priorities and
\* policies that do not exist: it goes wrong only below an assignment that
\* was itself not to be applied and yet permits override.
KnownIn(f) == {l \in ToSet(LEVEL_ORDER) : f[l].policy \in policies}

ResolvedAsDocumented ==
    \A f \in Picks :
        \/ ResolveKind(f) = Documented(f)
        \/ \E i, j \in 1..Len(LEVEL_ORDER) :
              /\ i < j /\ {LEVEL_ORDER[i], LEVEL_ORDER[j]} \subseteq KnownIn(f)
              /\ ~ f[LEVEL_ORDER[i]].allow /\ f[LEVEL_ORDER[j]].allow
=============================================================================
