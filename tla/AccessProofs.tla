---------------------------- MODULE AccessProofs ----------------------------
(* Proofs about access administration, for any staff, any roles, any number *)
(* of connections and any course of the clock.                              *)
EXTENDS Access, TLAPS

USE AccessConstants

(* Constants of the model that are values of its types.                     *)
LEMMA ConstantsTyped ==
    /\ Permanent \in Nat /\ Permanent > 0 /\ NoGrant \in Grants /\ Permanent \in Grants
    /\ Absent \in Accounts /\ Created \in Accounts
    /\ Idle \in Sessions
  BY DEF Permanent, NoGrant, Grants, Absent, Created, Accounts, Idle, Sessions

(* Before the bootstrap nobody is in office and nothing has been audited.   *)
LEMMA AccessInit == Init => AccessInv
  <1> SUFFICES ASSUME Init PROVE AccessInv
    OBVIOUS
  <1>1. AccessTypeOK
    <2>1. account \in [Staff -> Accounts] /\ session \in [Slots -> Sessions]
      BY ConstantsTyped DEF Init
    <2>2. opened \in BOOLEAN /\ audit \subseteq Entries
      BY DEF Init
    <2>3. now \in 0..Horizon
      BY DEF Init
    <2> QED
      BY <2>1, <2>2, <2>3 DEF AccessTypeOK
  <1>2. AuditTrailComplete
    BY DEF Init, AuditTrailComplete, Absent
  <1> QED
    BY <1>1, <1>2 DEF Init, AccessInv, PermanentManagerRemains, NobodyBefore, LockExcludes, HoldsAccess, SessionKnows, Idle

(* The changes of the write endpoints make an account of an account.        *)
LEMMA ChangedTyped ==
    ASSUME NEW old \in Accounts, NEW change \in Changes, Changed(old, change) # None
    PROVE  /\ Changed(old, change) \in Accounts
           /\ Changed(old, change).version = old.version
  <1>1. CASE change.kind = "grant" /\ old.status = "active" /\ old.roles[change.role] = NoGrant
    <2>1. Changed(old, change) = [old EXCEPT !.roles[change.role] = change.ends]
      BY <1>1 DEF Changed
    <2>2. change.ends \in Grants
      BY <1>1 DEF Changes
    <2> QED
      BY <2>1, <2>2 DEF Accounts
  <1>2. CASE change.kind = "revoke" /\ old.roles[change.role] # NoGrant
    <2>1. Changed(old, change) = [old EXCEPT !.roles[change.role] = NoGrant]
      BY <1>2 DEF Changed
    <2> QED
      BY <2>1, ConstantsTyped DEF Accounts
  <1>3. CASE change.kind = "status" /\ old.status # change.status
    <2>1. Changed(old, change) = [old EXCEPT !.status = change.status]
      BY <1>3 DEF Changed
    <2>2. change.status \in {"active", "disabled"}
      BY <1>3 DEF Changes
    <2> QED
      BY <2>1, <2>2 DEF Accounts
  <1> QED
    BY <1>1, <1>2, <1>3 DEF Changed

(* A step of a session that keeps the committed state is a matter of that   *)
(* session alone.                                                           *)
LEMMA SessionMoves ==
    ASSUME AccessInv, NEW s \in Slots, NEW new \in Sessions,
           session' = [session EXCEPT ![s] = new],
           UNCHANGED <<account, opened, audit, now>>,
           HoldsAccess(s)' => HoldsAccess(s) \/ AccessFree,
           SessionKnows(s)'
    PROVE  AccessInv'
  <1>1. AccessTypeOK'
    BY DEF AccessInv, AccessTypeOK
  <1>2. \A t \in Slots \ {s}: session'[t] = session[t]
    BY DEF AccessInv, AccessTypeOK
  <1>3. LockExcludes'
    BY <1>2 DEF AccessInv, LockExcludes, HoldsAccess, AccessFree
  <1>4. ASSUME NEW t \in Slots \ {s} PROVE SessionKnows(t)'
    <2>1. SessionKnows(t)
      BY DEF AccessInv
    <2> QED
      BY <1>2, <2>1 DEF SessionKnows, InOffice, PermanentManager, Seen
  <1>5. PermanentManagerRemains' /\ AuditTrailComplete' /\ NobodyBefore'
    BY DEF AccessInv, PermanentManagerRemains, PermanentManager, AuditTrailComplete, NobodyBefore
  <1> QED
    BY <1>1, <1>3, <1>4, <1>5 DEF AccessInv

(* An audited new version of an account keeps the trail complete.           *)
LEMMA TrailGrows ==
    ASSUME AccessTypeOK, AuditTrailComplete, NEW a \in Staff, NEW new \in Accounts, NEW e \in Entries,
           new.version = account[a].version + 1, e.target = a, e.version = new.version,
           account' = [account EXCEPT ![a] = new], audit' = audit \cup {e}
    PROVE  AuditTrailComplete'
  <1>1. \A f \in audit: f.target \in Staff /\ f.version \in 1..account[f.target].version
    BY DEF AuditTrailComplete, AccessTypeOK, Entries
  <1>2. account[a].version \in Nat
    BY DEF AccessTypeOK, Accounts
  <1>3. ASSUME NEW b \in Staff
        PROVE  {f.version: f \in {g \in audit': g.target = b}} = 1..account'[b].version
    <2>1. {f.version: f \in {g \in audit: g.target = b}} = 1..account[b].version
      BY DEF AuditTrailComplete
    <2>2. CASE b = a
      <3>1. account'[b].version = account[a].version + 1
        BY <2>2 DEF AccessTypeOK
      <3>2. {f.version: f \in {g \in audit': g.target = b}}
              = {f.version: f \in {g \in audit: g.target = b}} \cup {e.version}
        BY <2>2
      <3>3. 1..(account[a].version + 1) = 1..account[a].version \cup {account[a].version + 1}
        BY <1>2
      <3> QED
        BY <2>1, <2>2, <3>1, <3>2, <3>3
    <2>3. CASE b # a
      <3>1. account'[b] = account[b]
        BY <2>3 DEF AccessTypeOK
      <3>2. {g \in audit': g.target = b} = {g \in audit: g.target = b}
        BY <2>3
      <3> QED
        BY <2>1, <3>1, <3>2
    <2> QED
      BY <2>2, <2>3
  <1>4. ASSUME NEW f \in audit', NEW g \in audit', f.target = g.target, f.version = g.version
        PROVE  f = g
    <2>1. \A h \in audit: h.target = a => h.version # e.version
      BY <1>1, <1>2
    <2> QED
      BY <1>4, <2>1 DEF AuditTrailComplete
  <1> QED
    BY <1>3, <1>4 DEF AuditTrailComplete

(* Somebody is in office only after the bootstrap.                          *)
LEMMA OfficeIsOpened ==
    ASSUME AccessInv, NEW a \in Staff, InOffice(a)
    PROVE  opened
  BY DEF AccessInv, NobodyBefore, InOffice, Absent

(* COMMIT of a change.                                                      *)
LEMMA CommitKeeps ==
    ASSUME AccessInv, NEW s \in Slots, Commit(s)
    PROVE  AccessInv'
  <1> DEFINE a == session[s].request.target
             new == session[s].draft
  <1>1. /\ session[s].at = "checked" /\ session[s].request \in Requests
        /\ new \in Accounts /\ new.version = account[a].version + 1
        /\ InOffice(session[s].request.actor) /\ (opened => PermanentManager(Seen(s)))
    BY DEF AccessInv, Commit, SessionKnows
  <1>2. a \in Staff /\ session[s].request.actor \in Staff
    BY <1>1 DEF Requests
  <1>3. account' = [account EXCEPT ![a] = new] /\ audit' = audit \cup {Entry(s)}
    BY DEF Commit, Seen
  <1>4. Entry(s) \in Entries /\ Entry(s).target = a /\ Entry(s).version = new.version
    BY <1>1, <1>2 DEF Entry, Entries, AccessInv, AccessTypeOK, Accounts
  <1>5. AccessTypeOK'
    BY <1>1, <1>2, <1>3, <1>4, ConstantsTyped DEF AccessInv, AccessTypeOK, Commit
  <1>6. AuditTrailComplete'
    BY <1>1, <1>2, <1>3, <1>4, TrailGrows DEF AccessInv
  <1>7. PermanentManagerRemains'
    BY <1>1 DEF Commit, PermanentManagerRemains
  <1>8. ASSUME NEW t \in Slots PROVE ~HoldsAccess(t)' /\ SessionKnows(t)'
    <2>1. CASE t = s
      <3>1. session'[t] = Idle
        BY <2>1 DEF Commit, AccessInv, AccessTypeOK
      <3> QED
        BY <3>1 DEF Idle, HoldsAccess, SessionKnows
    <2>2. CASE t # s
      <3>1. session'[t] = session[t]
        BY <2>2 DEF Commit, AccessInv, AccessTypeOK
      <3>2. HoldsAccess(s) /\ ~HoldsAccess(t)
        BY <1>1, <2>2 DEF HoldsAccess, AccessInv, LockExcludes
      <3>3. SessionKnows(t)
        BY DEF AccessInv
      <3> QED
        BY <3>1, <3>2, <3>3 DEF HoldsAccess, SessionKnows
    <2> QED
      BY <2>1, <2>2
  <1>9. LockExcludes'
    BY <1>8 DEF LockExcludes
  <1>10. NobodyBefore'
    BY <1>1, <1>2, OfficeIsOpened DEF Commit, NobodyBefore
  <1> QED
    BY <1>5, <1>6, <1>7, <1>8, <1>9, <1>10 DEF AccessInv

(* The bootstrap: no account and no session past the lock is there yet.     *)
LEMMA BootstrapKeeps ==
    ASSUME AccessInv, NEW a \in Staff, Bootstrap(a)
    PROVE  AccessInv'
  <1> DEFINE new == [Created EXCEPT !.roles = [r \in Roles |-> IF r \in ManagerRoles THEN Permanent ELSE NoGrant]]
             e == [actor |-> a, target |-> a, version |-> 1]
  <1>1. new \in Accounts /\ new.version = 1 /\ new.status = "active"
        /\ \A r \in ManagerRoles: new.roles[r] = Permanent
    BY ConstantsTyped DEF Created, Accounts
  <1>2. e \in Entries /\ e.target = a /\ e.version = 1
    BY DEF Entries
  <1>3. account' = [account EXCEPT ![a] = new] /\ audit' = audit \cup {e} /\ opened' /\ UNCHANGED <<now, session>>
    BY DEF Bootstrap
  <1>4. account[a].version = 0
    BY DEF Bootstrap, Absent
  <1> HIDE DEF new, e
  <1>5. AccessTypeOK'
    <2>1. account' \in [Staff -> Accounts]
      BY <1>1, <1>3 DEF AccessInv, AccessTypeOK
    <2>2. audit' \subseteq Entries
      BY <1>2, <1>3 DEF AccessInv, AccessTypeOK
    <2>3. opened' \in BOOLEAN
      BY DEF Bootstrap
    <2>4. now' \in 0..Horizon /\ session' \in [Slots -> Sessions]
      BY <1>3 DEF AccessInv, AccessTypeOK
    <2> QED
      BY <2>1, <2>2, <2>3, <2>4, Zenon DEF AccessTypeOK
  <1>6. AuditTrailComplete'
    <2>1. new.version = account[a].version + 1 /\ e.version = new.version
      BY <1>1, <1>2, <1>4
    <2> QED
      BY <1>1, <1>2, <1>3, <2>1, TrailGrows DEF AccessInv
  <1>7. PermanentManagerRemains'
    <2>1. account'[a] = new
      BY <1>3 DEF AccessInv, AccessTypeOK
    <2> QED
      BY <1>1, <2>1 DEF PermanentManagerRemains, PermanentManager
  <1>8. ASSUME NEW t \in Slots PROVE ~HoldsAccess(t)' /\ SessionKnows(t)'
    <2>1. ~HoldsAccess(t) /\ SessionKnows(t)
      BY DEF Bootstrap, AccessFree, AccessInv
    <2> QED
      BY <1>3, <2>1 DEF HoldsAccess, SessionKnows
  <1>9. LockExcludes'
    BY <1>8 DEF LockExcludes
  <1> QED
    BY <1>3, <1>5, <1>6, <1>7, <1>8, <1>9 DEF AccessInv, NobodyBefore

(* A statement that only moves its session to its next stage.               *)
LEMMA StageTyped ==
    ASSUME AccessTypeOK, NEW s \in Slots,
           NEW stage \in {"begun", "locked", "authorized", "drafted", "checked"}
    PROVE  [session[s] EXCEPT !.at = stage] \in Sessions
  BY DEF AccessTypeOK, Sessions

(* Every step keeps the invariant.                                          *)
LEMMA AccessStep == AccessInv /\ [Next]_vars => AccessInv'
  <1> SUFFICES ASSUME AccessInv, [Next]_vars PROVE AccessInv'
    OBVIOUS
  <1>0. AccessTypeOK /\ \A s \in Slots: session[s] \in Sessions /\ SessionKnows(s)
    BY DEF AccessInv, AccessTypeOK
  <1>1. ASSUME NEW s \in Slots, NEW request \in Requests, Receive(s, request) PROVE AccessInv'
    <2> DEFINE new == [Idle EXCEPT !.at = "begun", !.request = request]
    <2>1. new \in Sessions /\ new.at = "begun" /\ new.request = request
      BY DEF Idle, Sessions
    <2>2. session' = [session EXCEPT ![s] = new] /\ UNCHANGED <<account, opened, audit, now>>
      BY <1>1 DEF Receive
    <2> HIDE DEF new
    <2>3. session'[s] = new
      BY <1>0, <2>2 DEF AccessTypeOK
    <2>4. ~HoldsAccess(s)' /\ SessionKnows(s)'
      BY <2>1, <2>3 DEF HoldsAccess, SessionKnows
    <2> QED
      BY <2>1, <2>2, <2>4, SessionMoves
  <1>2. ASSUME NEW s \in Slots, NEW stage \in {"locked", "authorized", "checked"}, Move(s, stage),
               session[s].at # "idle", HoldsAccess(s) \/ AccessFree,
               stage # "locked" => InOffice(session[s].request.actor),
               stage = "checked" => /\ session[s].at = "drafted"
                                    /\ opened => PermanentManager(Seen(s))
        PROVE  AccessInv'
    <2> DEFINE new == [session[s] EXCEPT !.at = stage]
    <2>1. new \in Sessions /\ new.at = stage /\ new.request = session[s].request /\ new.draft = session[s].draft
      BY <1>0, StageTyped DEF Sessions
    <2>2. session' = [session EXCEPT ![s] = new] /\ UNCHANGED <<account, opened, audit, now>>
      BY <1>2 DEF Move
    <2> HIDE DEF new
    <2>3. session'[s] = new
      BY <1>0, <2>2 DEF AccessTypeOK
    <2>4. SessionKnows(s)'
      BY <1>0, <1>2, <2>1, <2>2, <2>3 DEF SessionKnows, InOffice, PermanentManager, Seen
    <2> QED
      BY <1>2, <2>1, <2>2, <2>4, SessionMoves
  <1>3. ASSUME NEW s \in Slots, TakeAccessLock(s) PROVE AccessInv'
    BY <1>2, <1>3 DEF TakeAccessLock
  <1>4. ASSUME NEW s \in Slots, Authorize(s) PROVE AccessInv'
    <2>1. session[s].request.actor \in Staff
      BY <1>0, <1>4 DEF Authorize, SessionKnows, Requests
    <2>2. InOffice(session[s].request.actor)
      BY <1>0, <1>4, <2>1 DEF Authorize, MayManage, InOffice, AccessTypeOK, NoGrant, Accounts, Grants
    <2> QED
      BY <1>2, <1>4, <2>2 DEF Authorize, HoldsAccess
  <1>5. ASSUME NEW s \in Slots, CheckRemaining(s) PROVE AccessInv'
    BY <1>0, <1>2, <1>5 DEF CheckRemaining, HoldsAccess, SessionKnows
  <1>6. ASSUME NEW s \in Slots, NEW stage \in {"drafted", "checked"}, NEW draft \in Accounts,
               session[s].request.actor # session[s].request.target,
               session' = [session EXCEPT ![s].at = stage, ![s].draft = draft],
               UNCHANGED <<account, opened, audit, now>>,
               session[s].at = "authorized",
               draft.version = account[session[s].request.target].version + 1,
               stage = "checked" /\ opened =>
                   PermanentManager([account EXCEPT ![session[s].request.target] = draft])
        PROVE  AccessInv'
    <2> DEFINE new == [session[s] EXCEPT !.at = stage, !.draft = draft]
    <2>1. new \in Sessions /\ new.at = stage /\ new.request = session[s].request /\ new.draft = draft
      BY <1>0 DEF Sessions
    <2>2. session' = [session EXCEPT ![s] = new]
      BY <1>6
    <2> HIDE DEF new
    <2>3. session'[s] = new
      BY <1>0, <2>2 DEF AccessTypeOK
    <2>4. SessionKnows(s)'
      <3>1. session[s].request \in Requests /\ InOffice(session[s].request.actor)
        BY <1>0, <1>6 DEF SessionKnows
      <3>2. stage = "checked" /\ opened' => PermanentManager(Seen(s))'
        BY <1>6, <2>1, <2>3 DEF PermanentManager, Seen
      <3> QED
        BY <1>6, <2>1, <2>3, <3>1, <3>2 DEF SessionKnows, InOffice
    <2> QED
      BY <1>6, <2>1, <2>2, <2>4, SessionMoves DEF HoldsAccess
  <1>7. ASSUME NEW s \in Slots, Draft(s) PROVE AccessInv'
    <2> DEFINE request == session[s].request
               old == account[request.target]
               new == Changed(old, request.change)
    <2>1. request \in Requests
      BY <1>0, <1>7 DEF Draft, SessionKnows
    <2>2. old \in Accounts /\ request.change \in Changes /\ old.version \in Nat
      BY <1>0, <2>1 DEF AccessTypeOK, Requests, Accounts
    <2>3. new \in Accounts /\ new.version = old.version
      BY <1>7, <2>2, ChangedTyped DEF Draft
    <2>4. old.version < MaxVersion
      BY <1>7 DEF Draft
    <2> DEFINE draft == [new EXCEPT !.version = @ + 1]
    <2>5. draft \in Accounts /\ draft.version = old.version + 1
      <3> HIDE DEF new
      <3>1. old.version + 1 \in 0..MaxVersion
        BY <2>2, <2>4
      <3> QED
        BY <2>3, <3>1 DEF Accounts
    <2>6. /\ session' = [session EXCEPT ![s].at = "drafted", ![s].draft = draft]
          /\ UNCHANGED <<account, opened, audit, now>> /\ session[s].at = "authorized"
          /\ request.actor # request.target
      BY <1>7 DEF Draft
    <2> QED
      BY <1>6, <2>5, <2>6
  <1>8. ASSUME NEW s \in Slots, DraftAccount(s) PROVE AccessInv'
    <2> DEFINE a == session[s].request.target
    <2>1. a \in Staff /\ account[a] = Absent
      BY <1>0, <1>8 DEF DraftAccount, SessionKnows, Requests
    <2>2. Created.version = account[a].version + 1
      BY <2>1 DEF Created, Absent
    <2>3. ASSUME opened PROVE PermanentManager([account EXCEPT ![a] = Created])
      <3>1. PICK b \in Staff: account[b].status = "active"
                              /\ \E r \in ManagerRoles: account[b].roles[r] = Permanent
        BY <2>3 DEF AccessInv, PermanentManagerRemains, PermanentManager
      <3>2. b # a
        BY <2>1, <3>1 DEF Absent
      <3>3. [account EXCEPT ![a] = Created][b] = account[b]
        BY <1>0, <3>2 DEF AccessTypeOK
      <3> QED
        BY <3>1, <3>3 DEF PermanentManager
    <2>4. /\ session' = [session EXCEPT ![s].at = "checked", ![s].draft = Created]
          /\ UNCHANGED <<account, opened, audit, now>> /\ session[s].at = "authorized"
      BY <1>8 DEF DraftAccount
    <2>5. session[s].request.actor # a
      BY <1>0, <2>1, <2>4 DEF SessionKnows, InOffice, Absent
    <2> QED
      BY <1>6, <2>2, <2>3, <2>4, <2>5, ConstantsTyped
  <1>9. ASSUME NEW s \in Slots, Fail(s) PROVE AccessInv'
    <2>1. session'[s] = Idle
      BY <1>0, <1>9 DEF Fail, AccessTypeOK
    <2>2. ~HoldsAccess(s)' /\ SessionKnows(s)'
      BY <2>1 DEF Idle, HoldsAccess, SessionKnows
    <2> QED
      BY <1>9, <2>2, ConstantsTyped, SessionMoves DEF Fail
  <1>10. ASSUME Tick \/ UNCHANGED vars PROVE AccessInv'
    <2>1. UNCHANGED <<account, opened, audit, session>> /\ now' \in 0..Horizon
      BY <1>0, <1>10 DEF Tick, vars, AccessTypeOK
    <2>2. AccessTypeOK'
      BY <1>0, <2>1 DEF AccessTypeOK
    <2>3. PermanentManagerRemains' /\ AuditTrailComplete' /\ NobodyBefore' /\ LockExcludes'
      BY <2>1 DEF AccessInv, PermanentManagerRemains, PermanentManager, AuditTrailComplete,
                  NobodyBefore, LockExcludes, HoldsAccess
    <2>4. \A s \in Slots: SessionKnows(s)'
      BY <1>0, <2>1 DEF SessionKnows, InOffice, PermanentManager, Seen
    <2> QED
      BY <2>2, <2>3, <2>4 DEF AccessInv
  <1> QED
    BY <1>1, <1>3, <1>4, <1>5, <1>7, <1>8, <1>9, <1>10, BootstrapKeeps, CommitKeeps DEF Next

(* One connection at a time is past the access lock, and what it has        *)
(* checked is still true when it commits.                                   *)
THEOREM AccessInvariant == Spec => []AccessInv
  <1>1. Init => AccessInv
    BY AccessInit
  <1>2. AccessInv /\ [Next]_vars => AccessInv'
    BY AccessStep
  <1> QED
    BY <1>1, <1>2, PTL DEF Spec

(* Nobody can lock everyone out of access administration (service.ts:153).  *)
THEOREM ManagerRemains == Spec => []PermanentManagerRemains
  <1>1. AccessInv => PermanentManagerRemains
    BY DEF AccessInv
  <1> QED
    BY <1>1, AccessInvariant, PTL

(* The audit trail has every version of every account, once.                *)
THEOREM TrailComplete == Spec => []AuditTrailComplete
  <1>1. AccessInv => AuditTrailComplete
    BY DEF AccessInv
  <1> QED
    BY <1>1, AccessInvariant, PTL

(* Whoever changes an account is in office when the change commits: a       *)
(* revocation cannot be overtaken (service.ts:26-35, 121).                  *)
THEOREM ActorsInOffice == Spec => ActorsAreInOffice
  <1> DEFINE Act == opened => \A e \in audit' \ audit: InOffice(e.actor)
  <1>1. AccessInv /\ [Next]_vars => [Act]_audit
    <2> SUFFICES ASSUME AccessInv, [Next]_vars, audit' # audit, opened,
                        NEW e \in audit' \ audit
                 PROVE  InOffice(e.actor)
      OBVIOUS
    <2>1. PICK s \in Slots: Commit(s)
      BY DEF Next, vars, Bootstrap, Receive, TakeAccessLock, Authorize, Draft, DraftAccount,
             CheckRemaining, Fail, Tick, Move
    <2>2. e = Entry(s) /\ session[s].at = "checked"
      BY <2>1 DEF Commit
    <2> QED
      BY <2>2 DEF AccessInv, SessionKnows, Entry
  <1> QED
    BY <1>1, AccessInvariant, PTL DEF Spec, ActorsAreInOffice

(* What a commit writes is one decision.                                    *)
LEMMA CommitDecides ==
    ASSUME AccessInv, NEW s \in Slots, Commit(s)
    PROVE  Administration!Next
  <1> DEFINE new == session[s].draft
  <1>1. /\ session[s].at = "checked" /\ session[s].request \in Requests
        /\ session[s].request.actor # session[s].request.target
        /\ new.version = account[session[s].request.target].version + 1
        /\ InOffice(session[s].request.actor) /\ (opened => PermanentManager(Seen(s)))
    BY DEF AccessInv, Commit, SessionKnows
  <1>2. PICK a \in Staff, actor \in Staff:
            a = session[s].request.target /\ actor = session[s].request.actor
    BY <1>1 DEF Requests
  <1>3. account' = [account EXCEPT ![a] = new] /\ audit' = audit \cup {Entry(s)} /\ account \in [Staff -> Accounts]
    BY <1>2 DEF Commit, Seen, AccessInv, AccessTypeOK
  <1>4. Standing(actor) # "out"
    BY <1>1, <1>2 DEF Standing
  <1>5. PICK b \in Staff: Standing(b)' = "permanent"
    <2>1. PermanentManager(account')
      BY <1>1, <1>2, OfficeIsOpened DEF Commit
    <2> QED
      BY <2>1 DEF PermanentManager, Standing
  <1>6. ASSUME NEW c \in Staff, c # a
        PROVE  Standing(c)' = Standing(c) /\ account'[c].version = account[c].version
    BY <1>3, <1>6 DEF Standing, InOffice
  <1>7. PICK given \in {"permanent", "acting", "out"}: Standing(a)' = given
    BY DEF Standing
  <1>8. account'[a].version = account[a].version + 1
    BY <1>1, <1>2, <1>3
  <1>9. Entry(s) = [actor |-> actor, target |-> a, version |-> account[a].version + 1]
    BY <1>1, <1>2 DEF Entry
  <1> DEFINE standing == [c \in Staff |-> Standing(c)]
             version == [c \in Staff |-> account[c].version]
  <1>10. standing' = [standing EXCEPT ![a] = given]
    <2>1. ASSUME NEW c \in Staff PROVE standing'[c] = [standing EXCEPT ![a] = given][c]
      <3>1. /\ standing'[c] = Standing(c)' /\ standing[c] = Standing(c)
            /\ [standing EXCEPT ![a] = given][c] = IF c = a THEN given ELSE standing[c]
        OBVIOUS
      <3> HIDE DEF standing
      <3> QED
        BY <1>6, <1>7, <3>1
    <2> QED
      BY <2>1
  <1>11. version' = [version EXCEPT ![a] = @ + 1]
    <2>1. \A c \in Staff: account'[c].version = IF c = a THEN version[c] + 1 ELSE version[c]
      BY <1>6, <1>8
    <2> QED
      BY <1>2, <2>1
  <1>12. Administration!Record(actor, a)
    BY <1>2, <1>3, <1>9, <1>11 DEF Administration!Record
  <1>13. standing'[b] = "permanent"
    BY <1>5
  <1>14. Administration!Decide(actor, a, given)
    BY <1>1, <1>2, <1>4, <1>10, <1>12, <1>13 DEF Administration!Decide
  <1> QED
    BY <1>14 DEF Administration!Next

(* The bootstrap founds the office.                                         *)
LEMMA BootstrapFounds ==
    ASSUME AccessInv, NEW a \in Staff, Bootstrap(a)
    PROVE  Administration!Found(a)
  <1> DEFINE new == [Created EXCEPT !.roles = [r \in Roles |-> IF r \in ManagerRoles THEN Permanent ELSE NoGrant]]
             standing == [c \in Staff |-> Standing(c)]
             version == [c \in Staff |-> account[c].version]
  <1>1. new.version = 1 /\ new.status = "active" /\ \A r \in ManagerRoles: new.roles[r] = Permanent
    BY ConstantsTyped DEF Created
  <1>2. /\ account' = [account EXCEPT ![a] = new] /\ account \in [Staff -> Accounts]
        /\ audit' = audit \cup {[actor |-> a, target |-> a, version |-> 1]}
        /\ audit = {} /\ account[a].version = 0
    BY DEF Bootstrap, AccessInv, AccessTypeOK, NobodyBefore, Absent
  <1> HIDE DEF new
  <1>3. Standing(a)' = "permanent"
    BY <1>1, <1>2 DEF Standing
  <1>4. \A c \in Staff \ {a}: Standing(c)' = Standing(c) /\ account'[c].version = account[c].version
    BY <1>2 DEF Standing, InOffice
  <1>5. standing' = [standing EXCEPT ![a] = "permanent"]
    BY <1>3, <1>4
  <1>6. version' = [version EXCEPT ![a] = @ + 1]
    <2>1. \A c \in Staff: account'[c].version = IF c = a THEN version[c] + 1 ELSE version[c]
      BY <1>1, <1>2, <1>4
    <2> QED
      BY <2>1
  <1>7. Administration!Record(a, a)
    BY <1>2, <1>6 DEF Administration!Record
  <1> QED
    BY <1>2, <1>5, <1>7 DEF Administration!Found

(* Requests, locks, statements and the clock amount to single decisions, by *)
(* somebody in office about somebody else (service.ts:107-161,              *)
(* bootstrap.ts).                                                           *)
THEOREM AccessImplementsOffice == Spec => OfficeSpec
  <1>1. Init => Administration!Init
    <2> SUFFICES ASSUME Init PROVE Administration!Init
      OBVIOUS
    <2>1. \A a \in Staff: Standing(a) = "out" /\ account[a].version = 0
      BY DEF Init, Absent, Standing, InOffice
    <2> QED
      BY <2>1 DEF Init, Administration!Init
  <1>2. AccessInv /\ [Next]_vars => [Administration!Next]_(Administration!vars)
    <2> SUFFICES ASSUME AccessInv, [Next]_vars PROVE [Administration!Next]_(Administration!vars)
      OBVIOUS
    <2>1. CASE UNCHANGED <<account, audit>>
      BY <2>1 DEF Administration!vars, Standing, InOffice
    <2>2. ASSUME NEW a \in Staff, Bootstrap(a) PROVE Administration!Next
      BY <2>2, BootstrapFounds DEF Administration!Next
    <2>3. ASSUME NEW s \in Slots, Commit(s) PROVE Administration!Next
      BY <2>3, CommitDecides
    <2>4. \/ UNCHANGED <<account, audit>>
          \/ \E a \in Staff: Bootstrap(a)
          \/ \E s \in Slots: Commit(s)
      BY DEF Next, vars, Receive, TakeAccessLock, Authorize, Draft, DraftAccount, CheckRemaining,
             Fail, Tick, Move
    <2> QED
      BY <2>1, <2>2, <2>3, <2>4
  <1> QED
    BY <1>1, <1>2, AccessInvariant, PTL DEF Spec, OfficeSpec, Administration!Spec
=============================================================================
