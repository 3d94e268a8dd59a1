------------------------------- MODULE Access -------------------------------
(***************************************************************************)
(* Staff access control: IdentityService.access and bootstrapAdmin         *)
(* (apps/commerce-api/src/identity/service.ts and bootstrap.ts) over the   *)
(* tables of database/migrations/0001_identity.sql.  Every writer holds    *)
(* the advisory access lock (2002,1) from its first statement to the end   *)
(* of its transaction; these endpoints have no idempotency key.            *)
(*                                                                         *)
(* One slot is one connection and the request it serves.  The transaction  *)
(* writes one account and its role assignments; until COMMIT they are the  *)
(* draft of the session.                                                   *)
(***************************************************************************)
EXTENDS Naturals

CONSTANTS
    Slots,         \* connections
    Staff,         \* identities that may become staff accounts
    Roles,         \* active roles
    ManagerRoles,  \* the roles that carry access.manage
    Horizon,       \* bound: the database clock runs from 0 to Horizon
    MaxVersion,    \* bound on the version of an account
    None

ASSUME AccessConstants ==
    /\ ManagerRoles \subseteq Roles /\ ManagerRoles # {}
    /\ Horizon \in Nat
    /\ MaxVersion \in Nat \ {0}

(* A grant is the time its assignment ends; one without ends_at is later    *)
(* than any time, and 0 stands for no unrevoked assignment of the role.     *)
NoGrant == 0
Permanent == Horizon + 1
Grants == NoGrant..Permanent

VARIABLES
    account,    \* committed staff_accounts with their unrevoked assignments
    opened,     \* the irreversible bootstrap marker
    audit,      \* committed audit rows of access changes
    now,        \* the clock that both the API and the database read
    session     \* what each connection is doing

vars == <<account, opened, audit, now, session>>

(* permission_epoch is left out: it always equals the version.              *)
Accounts == [status: {"absent", "active", "disabled"}, version: 0..MaxVersion, roles: [Roles -> Grants]]
Absent == [status |-> "absent", version |-> 0, roles |-> [r \in Roles |-> NoGrant]]

Created == [status |-> "active", version |-> 1, roles |-> [r \in Roles |-> NoGrant]]

(* The bodies of the four write endpoints.                                  *)
Changes ==
    [kind: {"create"}] \cup
    [kind: {"grant"}, role: Roles, ends: Grants \ {NoGrant}] \cup
    [kind: {"revoke"}, role: Roles] \cup
    [kind: {"status"}, status: {"active", "disabled"}]

Entries == [actor: Staff, target: Staff, version: 1..MaxVersion]

Requests == [actor: Staff, target: Staff, expected: 1..MaxVersion, change: Changes]
Idle == [at |-> "idle", request |-> None, draft |-> None]
Sessions == [at: {"idle", "begun", "locked", "authorized", "drafted", "checked"},
             request: Requests \cup {None}, draft: Accounts \cup {None}]

AccessTypeOK ==
    /\ account \in [Staff -> Accounts]
    /\ opened \in BOOLEAN
    /\ audit \subseteq Entries
    /\ now \in 0..Horizon
    /\ session \in [Slots -> Sessions]

Init ==
    /\ account = [a \in Staff |-> Absent]
    /\ opened = FALSE
    /\ audit = {}
    /\ now = 0
    /\ session = [s \in Slots |-> Idle]
-----------------------------------------------------------------------------
(* Mutant of HoldsAccess: the lock ends with the statement that took it, as *)
(* on a connection of its own, and not with the transaction.                *)
HeldForTheCheck(s) == session[s].at = "locked"

HoldsAccess(s) == session[s].at \in {"locked", "authorized", "drafted", "checked"}
AccessFree == \A s \in Slots: ~HoldsAccess(s)

(* permissions(): the account is active and a grant has not run out.        *)
MayManage(a) ==
    /\ account[a].status = "active"
    /\ \E r \in ManagerRoles: account[a].roles[r] > now

(* Deployment only: the first account, with the manager roles, once ever.   *)
Bootstrap(a) ==
    /\ AccessFree
    /\ ~opened
    /\ \A b \in Staff: account[b] = Absent
    /\ opened' = TRUE
    /\ account' = [account EXCEPT ![a] = [Created EXCEPT !.roles =
                       [r \in Roles |-> IF r \in ManagerRoles THEN Permanent ELSE NoGrant]]]
    /\ audit' = audit \cup {[actor |-> a, target |-> a, version |-> 1]}
    /\ UNCHANGED <<now, session>>

(* A validated request whose transaction begins: If-Match is a version its  *)
(* author may have seen, and a timed grant ends later (the API compares it  *)
(* with its clock, a CHECK with the start of the transaction).              *)
Receive(s, request) ==
    /\ session[s].at = "idle"
    /\ account[request.actor] # Absent
    /\ request.change.kind # "create" => request.expected <= account[request.target].version
    /\ request.change.kind = "create" => request.expected = 1
    /\ request.change.kind = "grant" => request.change.ends > now
    /\ session' = [session EXCEPT ![s] = [Idle EXCEPT !.at = "begun", !.request = request]]
    /\ UNCHANGED <<account, opened, audit, now>>

Move(s, stage) ==
    /\ session' = [session EXCEPT ![s].at = stage]
    /\ UNCHANGED <<account, opened, audit, now>>

(* Mutant of TakeAccessLock: the lock is asked for and not waited for.      *)
ProceedWithoutLock(s) ==
    /\ session[s].at = "begun"
    /\ Move(s, "locked")

TakeAccessLock(s) ==
    /\ session[s].at = "begun"
    /\ AccessFree
    /\ Move(s, "locked")

Authorize(s) ==
    /\ session[s].at = "locked"
    /\ MayManage(session[s].request.actor)
    /\ Move(s, "authorized")

(* The account after the change; None when the request is refused: another  *)
(* status than needed, a role already or not assigned.                      *)
Changed(old, change) ==
    CASE change.kind = "grant" /\ old.status = "active" /\ old.roles[change.role] = NoGrant ->
            [old EXCEPT !.roles[change.role] = change.ends]
      [] change.kind = "revoke" /\ old.roles[change.role] # NoGrant ->
            [old EXCEPT !.roles[change.role] = NoGrant]
      [] change.kind = "status" /\ old.status # change.status ->
            [old EXCEPT !.status = change.status]
      [] OTHER -> None

(* SELECT ... FOR UPDATE of the target waits for a draft of the same row.   *)
TargetFree(s) ==
    \A t \in Slots \ {s}:
        session[t].draft # None => session[t].request.target # session[s].request.target

(* The row is locked, changed, and given its next version.                  *)
Draft(s) ==
    LET request == session[s].request
        old == account[request.target]
        new == Changed(old, request.change)
    IN  /\ session[s].at = "authorized"
        /\ request.change.kind # "create"
        /\ TargetFree(s)
        /\ old # Absent
        /\ request.actor # request.target
        /\ old.version = request.expected
        /\ new # None
        /\ old.version < MaxVersion
        /\ session' = [session EXCEPT ![s].at = "drafted",
                           ![s].draft = [new EXCEPT !.version = @ + 1]]
        /\ UNCHANGED <<account, opened, audit, now>>

(* A new account has no roles and needs no check of the remaining managers. *)
DraftAccount(s) ==
    /\ session[s].at = "authorized"
    /\ session[s].request.change.kind = "create"
    /\ TargetFree(s)
    /\ account[session[s].request.target] = Absent
    /\ session' = [session EXCEPT ![s].at = "checked", ![s].draft = Created]
    /\ UNCHANGED <<account, opened, audit, now>>

(* What this transaction sees: the committed accounts with its own draft.   *)
Seen(s) == [account EXCEPT ![session[s].request.target] = session[s].draft]

PermanentManager(accounts) ==
    \E a \in Staff: accounts[a].status = "active" /\ \E r \in ManagerRoles: accounts[a].roles[r] = Permanent

(* Mutant of CheckRemaining: a manager whose grant will end counts too.     *)
CheckAnyManager(s) ==
    /\ session[s].at = "drafted"
    /\ \E a \in Staff: Seen(s)[a].status = "active" /\ \E r \in ManagerRoles: Seen(s)[a].roles[r] > now
    /\ Move(s, "checked")

Entry(s) == [actor |-> session[s].request.actor, target |-> session[s].request.target,
             version |-> session[s].draft.version]

(* Mutant of CheckRemaining: the audit row that follows is written on a     *)
(* connection of its own and stays when the transaction fails.              *)
AuditOutside(s) ==
    /\ session[s].at = "drafted"
    /\ PermanentManager(Seen(s))
    /\ session' = [session EXCEPT ![s].at = "checked"]
    /\ audit' = audit \cup {Entry(s)}
    /\ UNCHANGED <<account, opened, now>>

CheckRemaining(s) ==
    /\ session[s].at = "drafted"
    /\ PermanentManager(Seen(s))
    /\ Move(s, "checked")

Commit(s) ==
    /\ session[s].at = "checked"
    /\ account' = Seen(s)
    /\ audit' = audit \cup {Entry(s)}
    /\ session' = [session EXCEPT ![s] = Idle]
    /\ UNCHANGED <<opened, now>>

(* A refusal, a timeout, a lost connection: the transaction is rolled back. *)
Fail(s) ==
    /\ session[s].at # "idle"
    /\ session' = [session EXCEPT ![s] = Idle]
    /\ UNCHANGED <<account, opened, audit, now>>

Tick ==
    /\ now < Horizon
    /\ now' = now + 1
    /\ UNCHANGED <<account, opened, audit, session>>

Next ==
    \/ \E a \in Staff: Bootstrap(a)
    \/ \E s \in Slots, request \in Requests: Receive(s, request)
    \/ \E s \in Slots:
        \/ TakeAccessLock(s)
        \/ Authorize(s)
        \/ Draft(s)
        \/ DraftAccount(s)
        \/ CheckRemaining(s)
        \/ Commit(s)
        \/ Fail(s)
    \/ Tick

Spec == Init /\ [][Next]_vars
-----------------------------------------------------------------------------
(* Nobody can lock everyone out: once bootstrapped, some active account     *)
(* holds a manager role without end date, whoever revokes or disables whom  *)
(* at the same time and whichever timed grants run out meanwhile.           *)
PermanentManagerRemains == opened => PermanentManager(account)

(* The audit trail of an account is its history: every version it has had   *)
(* was audited, once, with one actor.                                       *)
AuditTrailComplete ==
    /\ \A a \in Staff: {e.version: e \in {f \in audit: f.target = a}} = 1..account[a].version
    /\ \A e, f \in audit: e.target = f.target /\ e.version = f.version => e = f

(* Revocation and disabling cannot be overtaken: whoever changes an account *)
(* is, at the moment the change commits, still active and still assigned a  *)
(* manager role (one that may have run out since the request was allowed).  *)
InOffice(a) ==
    account[a].status = "active" /\ \E r \in ManagerRoles: account[a].roles[r] # NoGrant

ActorsAreInOffice ==
    [][opened => \A e \in audit' \ audit: InOffice(e.actor)]_audit

(* Statement by statement, a change amounts to one decision of Office, made *)
(* by somebody in office about somebody else.                               *)
Standing(a) ==
    IF account[a].status = "active" /\ \E r \in ManagerRoles: account[a].roles[r] = Permanent THEN "permanent"
    ELSE IF InOffice(a) THEN "acting"
    ELSE "out"

Administration ==
    INSTANCE Office WITH standing <- [a \in Staff |-> Standing(a)],
                         version <- [a \in Staff |-> account[a].version], decisions <- audit

OfficeSpec == Administration!Spec
-----------------------------------------------------------------------------
(* The inductive invariant behind the properties above.                     *)
NobodyBefore == ~opened => audit = {} /\ \A a \in Staff: account[a] = Absent

LockExcludes == \A s, t \in Slots: HoldsAccess(s) /\ HoldsAccess(t) => s = t

SessionKnows(s) ==
    LET request == session[s].request
        draft == session[s].draft
    IN  /\ session[s].at # "idle" => request \in Requests
        /\ session[s].at \in {"authorized", "drafted", "checked"} => InOffice(request.actor)
        /\ session[s].at \in {"drafted", "checked"} =>
            /\ request.actor # request.target
            /\ draft \in Accounts /\ draft.version = account[request.target].version + 1
        /\ session[s].at = "checked" /\ opened => PermanentManager(Seen(s))

(* Why all that is so.  One connection at a time is past the access lock,   *)
(* so what it has checked, that its actor is in office, that a manager      *)
(* remains, which version comes next, is still true when it commits         *)
(* (service.ts:121-153, bootstrap.ts:11-15).                                *)
AccessInv ==
    /\ AccessTypeOK
    /\ PermanentManagerRemains
    /\ AuditTrailComplete
    /\ NobodyBefore
    /\ LockExcludes
    /\ \A s \in Slots: SessionKnows(s)
=============================================================================
