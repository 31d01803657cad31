------------------------------- MODULE Devices -------------------------------
(***************************************************************************)
(* devices/router.py, agent/auth_router.py, agent/deps.py and the agent's  *)
(* start: one device is enrolled, approved and revoked; the secret of an   *)
(* approval is brought to its machine by hand and exchanged for a device   *)
(* token; each call is authorized in one transaction and handled in        *)
(* another.  Decisions write the columns whose value differs from the one  *)
(* they have read.                                                         *)
(***************************************************************************)
EXTENDS Integers

CONSTANTS Deciders,      \* bound: approvals and revocations at work at a time
          MaxApprovals,  \* bound: secrets issued
          TokenDays,     \* refresh_token_expire_days (14)
          LastTokenDay   \* bound: days

ASSUME DeviceAssumption ==
    MaxApprovals \in Nat /\ TokenDays \in Nat \ {0} /\ LastTokenDay \in Nat

NoSecret == 0            \* null; the n-th approval issues secret n
NoToken == -1

VARIABLES
    device,       \* its row, status "none" before it is enrolled
    decision,     \* request -> what approve or revoke has read
    issued,       \* secrets issued so far
    store,        \* the machine's files: signing_secret, expiry of device_token
    process,      \* what the running agent has loaded of them
    call,         \* the agent's call: none or authorized
    tokenDay,
    last,         \* history: the decision committed last
    crossed,      \* history: it overlapped another one
    secretOfLast  \* history: secret of the last approval to commit

deviceVars == <<device, decision, issued, store, process, call, tokenDay,
                last, crossed, secretOfLast>>
decisionsMade == <<last, crossed, secretOfLast>>
machine == <<store, process>>

Device == [status: {"none", "pending", "approved", "revoked"}, secret: Nat,
           revokedAt: BOOLEAN, seen: BOOLEAN]
Undecided == [op |-> "idle", status |-> "none", secret |-> NoSecret, revokedAt |-> FALSE,
              overlaps |-> FALSE]
Credentials(secret, token) == [secret |-> secret, token |-> token]

-----------------------------------------------------------------------------
\* enroll_device, enroll: a pending row.
Enroll == /\ device.status = "none"
          /\ device' = [device EXCEPT !.status = "pending"]
          /\ UNCHANGED <<decision, issued, machine, call, tokenDay, decisionsMade>>

\* _get_device
DecisionLoad(t, op) ==
    /\ decision[t] = Undecided /\ device.status # "none"
    /\ LET others == {u \in Deciders : decision[u] # Undecided}
       IN  decision' = [u \in Deciders |->
               IF u = t THEN [op |-> op, status |-> device.status, secret |-> device.secret,
                              revokedAt |-> device.revokedAt, overlaps |-> others # {}]
               ELSE IF u \in others THEN [decision[u] EXCEPT !.overlaps = TRUE] ELSE decision[u]]
    /\ UNCHANGED <<device, issued, machine, call, tokenDay, decisionsMade>>

\* UPDATE names a column when its value is not the one that was read.
Set(now, seen, new) == IF new = seen THEN now ELSE new

\* Mutant: a secret that is there is kept.
ReApproved(row, x, secret) ==
    [row EXCEPT !.status = Set(@, x.status, "approved"),
                !.revokedAt = Set(@, x.revokedAt, FALSE),
                !.secret = IF x.secret = NoSecret THEN secret ELSE @]

Approved(row, x, secret) ==
    [row EXCEPT !.status = Set(@, x.status, "approved"),
                !.revokedAt = Set(@, x.revokedAt, FALSE),
                !.secret = secret]

\* Mutant: the secret stays.
RevokedOnly(row, x) == [row EXCEPT !.status = Set(@, x.status, "revoked"), !.revokedAt = TRUE]

Revoked(row, x) == [row EXCEPT !.status = Set(@, x.status, "revoked"), !.revokedAt = TRUE,
                               !.secret = Set(@, x.secret, NoSecret)]

DecisionEnd(t) ==
    /\ decision' = [decision EXCEPT ![t] = Undecided]
    /\ last' = decision[t].op
    /\ crossed' = decision[t].overlaps
    /\ UNCHANGED <<machine, call, tokenDay>>

ApproveDevice(t) ==
    /\ decision[t].op = "approve" /\ issued < MaxApprovals
    /\ issued' = issued + 1
    /\ device' = Approved(device, decision[t], issued')
    /\ secretOfLast' = issued'
    /\ DecisionEnd(t)

RevokeDevice(t) ==
    /\ decision[t].op = "revoke"
    /\ device' = Revoked(device, decision[t])
    /\ DecisionEnd(t)
    /\ UNCHANGED <<issued, secretOfLast>>

DecisionAborts(t) ==
    /\ decision[t] # Undecided
    /\ decision' = [decision EXCEPT ![t] = Undecided]
    /\ UNCHANGED <<device, issued, machine, call, tokenDay, decisionsMade>>

-----------------------------------------------------------------------------
(* The machine and its agent *)

\* The secret is shown once, with the answer to an approval.
StoreSecret(s) ==
    /\ s \in 1..issued
    /\ store' = [store EXCEPT !.secret = s]
    /\ UNCHANGED <<device, decision, issued, process, call, tokenDay, decisionsMade>>

\* The row as issue_token and get_device_principal want it.
Accepts(secret) == device.status = "approved" /\ secret = device.secret /\ secret # NoSecret

\* POST /auth/agent/token, sent by the operator: no code of the agent calls it.
IssueToken ==
    /\ Accepts(store.secret)
    /\ store' = [store EXCEPT !.token = tokenDay + TokenDays]
    /\ UNCHANGED <<device, decision, issued, process, call, tokenDay, decisionsMade>>

\* Program.cs: the secrets are read once.
StartAgent ==
    /\ process # store
    /\ process' = store
    /\ call' = "none"
    /\ UNCHANGED <<device, decision, issued, store, tokenDay, decisionsMade>>

\* get_device_principal
Authorize ==
    /\ call = "none" /\ process.token >= tokenDay /\ Accepts(process.secret)
    /\ call' = "authorized"
    /\ UNCHANGED <<device, decision, issued, machine, tokenDay, decisionsMade>>

\* heartbeat, in a session of its own: the status is not looked at again.
HandleHeartbeat ==
    /\ call = "authorized"
    /\ call' = "none"
    /\ device' = [device EXCEPT !.seen = TRUE]
    /\ UNCHANGED <<decision, issued, machine, tokenDay, decisionsMade>>

TokenDayEnds == /\ tokenDay < LastTokenDay
                /\ tokenDay' = tokenDay + 1
                /\ UNCHANGED <<device, decision, issued, machine, call, decisionsMade>>

DeviceInit ==
    /\ device = [status |-> "none", secret |-> NoSecret, revokedAt |-> FALSE, seen |-> FALSE]
    /\ decision = [t \in Deciders |-> Undecided]
    /\ issued = 0 /\ tokenDay = 0 /\ call = "none"
    /\ store = Credentials(NoSecret, NoToken) /\ process = Credentials(NoSecret, NoToken)
    /\ last = "none" /\ crossed = FALSE /\ secretOfLast = NoSecret

DeviceNext ==
    \/ Enroll \/ IssueToken \/ StartAgent \/ Authorize \/ HandleHeartbeat \/ TokenDayEnds
    \/ \E s \in 1..MaxApprovals : StoreSecret(s)
    \/ \E t \in Deciders : \/ \E op \in {"approve", "revoke"} : DecisionLoad(t, op)
                           \/ ApproveDevice(t) \/ RevokeDevice(t) \/ DecisionAborts(t)

DeviceSpec == DeviceInit /\ [][DeviceNext]_deviceVars

-----------------------------------------------------------------------------
(* Properties *)

\* "Invalidate signing on revocation" (router.py): a device whose last
\* decision was a revocation that no other decision overlapped is revoked,
\* has no secret, and accepts none.
RevocationHolds ==
    last = "revoke" /\ ~ crossed =>
        /\ device.status = "revoked" /\ device.secret = NoSecret
        /\ \A s \in 0..issued : ~ Accepts(s)

\* A device approved again leaves its old secrets behind: only that of the
\* last approval to commit is ever accepted, however decisions overlap.
OnlyLastSecretWorks == \A s \in 0..issued : Accepts(s) => s = secretOfLast
=============================================================================
