------------------------------ MODULE Tenancy ------------------------------
(***************************************************************************)
(* core/tenant.py under directory/router.py and provisioning_router.py:    *)
(* requests of several organizations on one database, each a session that  *)
(* may run several transactions.  PostgreSQL filters every statement by    *)
(* app.current_org, a setting that ends with its transaction.              *)
(***************************************************************************)
EXTENDS Integers, FiniteSets

CONSTANTS Orgs, NoOrg, Sessions,
          RowKeys,      \* emails, employee codes, names
          MaxSessions,  \* bound: sessions opened
          MaxAdded      \* bound: rows inserted by a transaction

ASSUME TenancyAssumption == NoOrg \notin Orgs /\ MaxSessions \in Nat /\ MaxAdded \in Nat

VARIABLES organizations,   \* committed, by slug
          rows,            \* committed rows of the tenant's tables
          sessionOrg,      \* the organization a session was opened for
          currentOrg,      \* app.current_org in its transaction, NoOrg outside
          added,           \* rows its transaction has inserted
          seen,            \* what its last query returned
          opened
tenantVars == <<organizations, rows, sessionOrg, currentOrg, added, seen, opened>>

TenantInit == /\ organizations = {} /\ rows = {} /\ opened = 0
              /\ sessionOrg = [s \in Sessions |-> NoOrg]
              /\ currentOrg = [s \in Sessions |-> NoOrg]
              /\ added = [s \in Sessions |-> {}]
              /\ seen = [s \in Sessions |-> {}]

-----------------------------------------------------------------------------

\* Mutant: the organization is set when the session is opened, and only then.
SetOnce(s) == currentOrg[s]

\* The after_begin listener: a statement outside a transaction begins one,
\* and the setting is applied again.
OrgOfStatement(s) == IF currentOrg[s] = NoOrg THEN sessionOrg[s] ELSE currentOrg[s]

\* tenant_isolation, USING: what a query of the session returns.
Visible(s) == {r \in rows \cup added[s] : r.org = OrgOfStatement(s)}

\* uq_user_org_email, uq_employee_org_code
Indexed == {"users", "employees"}
Conflicts(r) == r.kind \in Indexed /\ r \in rows

Gone(s) == /\ sessionOrg' = [sessionOrg EXCEPT ![s] = NoOrg]
           /\ currentOrg' = [currentOrg EXCEPT ![s] = NoOrg]
           /\ added' = [added EXCEPT ![s] = {}]
           /\ seen' = [seen EXCEPT ![s] = {}]
           /\ UNCHANGED opened

\* open_tenant_session, for the organization of a token.
OpenTenantSession(s, o) ==
    /\ sessionOrg[s] = NoOrg /\ o \in organizations /\ opened < MaxSessions
    /\ sessionOrg' = [sessionOrg EXCEPT ![s] = o]
    /\ currentOrg' = [currentOrg EXCEPT ![s] = o]
    /\ opened' = opened + 1
    /\ UNCHANGED <<organizations, rows, added, seen>>

\* list_users, list_employees, ...
Query(s) == /\ sessionOrg[s] # NoOrg
            /\ seen' = [seen EXCEPT ![s] = Visible(s)]
            /\ currentOrg' = [currentOrg EXCEPT ![s] = OrgOfStatement(s)]
            /\ UNCHANGED <<organizations, rows, sessionOrg, added, opened>>

\* INSERT of a row of the token's organization.
Insert(s, r) ==
    /\ sessionOrg[s] # NoOrg /\ ~ Conflicts(r) /\ Cardinality(added[s]) < MaxAdded
    /\ OrgOfStatement(s) = r.org          \* WITH CHECK
    /\ added' = [added EXCEPT ![s] = @ \cup {r}]
    /\ currentOrg' = [currentOrg EXCEPT ![s] = OrgOfStatement(s)]
    /\ UNCHANGED <<organizations, rows, sessionOrg, seen, opened>>

RowOf(s, kind, key) == [org |-> sessionOrg[s], kind |-> kind, key |-> key]

\* 409 for an email that a query finds.
CreateUser(s, key) == /\ RowOf(s, "users", key) \notin Visible(s)
                      /\ Insert(s, RowOf(s, "users", key))

CreateDepartment(s, key) == Insert(s, RowOf(s, "departments", key))

CreateTeam(s, key) == Insert(s, RowOf(s, "teams", key))

CreateEmployee(s, key) == Insert(s, RowOf(s, "employees", key))

\* The handler commits; it may go on, in another transaction.  At a conflict
\* the database refuses and the request ends in Close.
Commit(s) == /\ sessionOrg[s] # NoOrg /\ currentOrg[s] # NoOrg
             /\ \A r \in added[s] : ~ Conflicts(r)
             /\ rows' = rows \cup added[s]
             /\ added' = [added EXCEPT ![s] = {}]
             /\ currentOrg' = [currentOrg EXCEPT ![s] = NoOrg]
             /\ UNCHANGED <<organizations, sessionOrg, seen, opened>>

\* The request ends, by an exception or not: the rest is rolled back.
Close(s) == /\ sessionOrg[s] # NoOrg
            /\ Gone(s)
            /\ UNCHANGED <<organizations, rows>>

\* provision_organization: one transaction, set_current_org once.  409 for a
\* slug that exists.
ProvisionOrganization(o, key) ==
    /\ o \notin organizations
    /\ organizations' = organizations \cup {o}
    /\ rows' = rows \cup {[org |-> o, kind |-> "users", key |-> key]}
    /\ UNCHANGED <<sessionOrg, currentOrg, added, seen, opened>>

TenantNext ==
    \/ \E s \in Sessions, o \in Orgs : OpenTenantSession(s, o)
    \/ \E s \in Sessions : Query(s) \/ Commit(s) \/ Close(s)
    \/ \E s \in Sessions, x \in RowKeys : CreateUser(s, x) \/ CreateDepartment(s, x)
                                       \/ CreateTeam(s, x) \/ CreateEmployee(s, x)
    \/ \E o \in Orgs, x \in RowKeys : ProvisionOrganization(o, x)

TenantSpec == TenantInit /\ [][TenantNext]_tenantVars

-----------------------------------------------------------------------------
(* Properties *)

\* Every query of a session, also one after a commit, returns the rows of
\* its organization, all of them and no others.
SeesItsOrganization ==
    [][\A s \in Sessions : Query(s) =>
          seen'[s] = {r \in rows \cup added[s] : r.org = sessionOrg[s]}]_tenantVars
=============================================================================
