----------------------------- MODULE StockProofs -----------------------------
(* Proofs about stock adjustments run by the command engine, for any        *)
(* connections, scopes, inputs, staff and positions, and any widths of      *)
(* quantities and versions.                                                 *)
EXTENDS StockCommands, CommandsProofs

USE StockConstants, NoneIsNoMovement

(* Empty ledger, empty stock.                                               *)
LEMMA StockInvInit == StockInit => StockInv
  <1> SUFFICES ASSUME StockInit PROVE StockInv
    OBVIOUS
  <1>1. EngineInv
    BY EngineInvInit DEF StockInit
  <1>2. StockTypeOK
    <2>1. stock \in [Positions -> [sellable: 0..MaxQuantity, version: 1..MaxVersion]]
      BY DEF StockInit
    <2> QED
      BY <2>1 DEF StockInit, StockTypeOK
  <1>3. AccessExcludes
    BY DEF StockInit, Init, Idle, AccessExcludes, AccessStages, LockedStages
  <1>4. ASSUME NEW s \in Slots PROVE WorkOK(s)
    BY DEF StockInit, Init, Idle, WorkOK, AccessStages, LockedStages
  <1>5. RecordsInTheLedger
    BY DEF StockInit, Init, RecordsInTheLedger
  <1>6. LedgerExplainsStock
    BY DEF StockInit, LedgerExplainsStock, MovementsOf
  <1>7. OneMovementPerOperation
    BY DEF StockInit, Init, OneMovementPerOperation
  <1>8. EvidenceMatchesVersions
    BY DEF StockInit, EvidenceMatchesVersions
  <1> QED
    BY <1>1, <1>2, <1>3, <1>4, <1>5, <1>6, <1>7, <1>8 DEF StockInv

(* What a session is serving, and what its transaction has inserted.        *)
LEMMA SessionFacts ==
    ASSUME StockInv, NEW s \in Slots
    PROVE  /\ session[s] \in Sessions /\ SessionOK(s) /\ WorkOK(s) /\ work[s] \in Movements \cup {None}
           /\ session[s].at # "idle" => session[s].key \in Keys /\ session[s].digest \in Digests
  BY DEF StockInv, EngineInv, TypeOK, SessionsOK, SessionOK, Serving, StockTypeOK

(* Answers of an adjustment are results of the engine.                      *)
LEMMA AnswersTyped ==
    ASSUME StockInv, NEW s \in Slots
    PROVE  /\ session[s].at = "wrote" =>
                /\ work[s] \in Movements
                /\ Created(work[s].version, work[s].after) \in Successes
           /\ Rejection(s) # None =>
                Refusal(Rejection(s)) \in Refusals /\ Refusal(Rejection(s)).code # "CREATED"
  <1>1. ASSUME session[s].at = "wrote"
        PROVE  work[s] \in Movements /\ Created(work[s].version, work[s].after) \in Successes
    <2>1. work[s] \in Movements
      BY <1>1, SessionFacts DEF SessionOK, RecordOpen, WorkOK
    <2>2. work[s].version \in 1..MaxVersion /\ work[s].after \in 0..MaxQuantity
      BY <2>1 DEF Movements
    <2> QED
      BY <2>1, <2>2
  <1>2. ASSUME Rejection(s) # None
        PROVE  Refusal(Rejection(s)) \in Refusals /\ Refusal(Rejection(s)).code # "CREATED"
    <2>1. Rejection(s) \in {"NOT_FOUND", "PRECONDITION_FAILED", "CONFLICT"}
      BY <1>2 DEF Rejection
    <2> QED
      BY <2>1 DEF Refusal
  <1> QED
    BY <1>1, <1>2

(* Every step of stock is a step of the engine, or leaves it alone.         *)
LEMMA StockStepIsEngineStep == StockInv /\ [StockNext]_allVars => [Next]_vars
  <1> SUFFICES ASSUME StockInv, [StockNext]_allVars PROVE [Next]_vars
    OBVIOUS
  <1>1. ASSUME NEW s \in Slots, StockStep(s) PROVE Next
    <2>1. CASE EngineOnly(s) \/ AuthorizeStaff(s) \/ InsertMovement(s) \/ Discard(s) \/ CommitAdjust(s)
      <3>1. Step(s)
        BY <2>1 DEF EngineOnly, AuthorizeStaff, InsertMovement, Discard, CommitAdjust, Step
      <3> QED
        BY <3>1 DEF Next
    <2>2. CASE FinishAdjust(s)
      <3>1. Created(work[s].version, work[s].after) \in Successes
        BY <2>2, AnswersTyped DEF FinishAdjust, Succeed
      <3> QED
        BY <2>2, <3>1 DEF FinishAdjust, Step, Next
    <2>3. CASE RefuseAdjust(s)
      <3>1. Refusal(Rejection(s)) \in Refusals
        BY <2>3, AnswersTyped DEF RefuseAdjust
      <3> QED
        BY <2>3, <3>1 DEF RefuseAdjust, Step, Next
    <2> QED
      BY <1>1, <2>1, <2>2, <2>3 DEF StockStep
  <1>2. ASSUME NEW s \in Slots, NEW k \in Keys, NEW d \in Digests, ReceiveAdjust(s, k, d) PROVE Next
    BY <1>2 DEF ReceiveAdjust, Next
  <1>3. ASSUME NEW a \in Staff, Revoke(a) \/ Grant(a) \/ Lapse(a) PROVE UNCHANGED vars
    BY <1>3 DEF Revoke, Grant, Lapse
  <1>4. ASSUME NEW k \in AgeingKeys, Ageing(k) PROVE Next
    BY <1>4 DEF Ageing, Next
  <1>5. ASSUME UNCHANGED allVars PROVE UNCHANGED vars
    BY <1>5 DEF allVars
  <1> QED
    BY <1>1, <1>2, <1>3, <1>4, <1>5 DEF StockNext

(* Without a movement committed, the ledger and its evidence stay.          *)
LEMMA LedgerStays ==
    ASSUME StockInv, UNCHANGED <<stockVars, records, applied>>
    PROVE  RecordsInTheLedger' /\ LedgerExplainsStock' /\ OneMovementPerOperation' /\ EvidenceMatchesVersions'
  <1>1. RecordsInTheLedger'
    BY DEF StockInv, RecordsInTheLedger, InTheLedger, stockVars
  <1>2. LedgerExplainsStock'
    BY DEF StockInv, LedgerExplainsStock, MovementsOf, stockVars
  <1>3. OneMovementPerOperation'
    BY DEF StockInv, OneMovementPerOperation, stockVars
  <1>4. EvidenceMatchesVersions'
    BY DEF StockInv, EvidenceMatchesVersions, stockVars
  <1> QED
    BY <1>1, <1>2, <1>3, <1>4

(* What a session knows depends on its own part of the state, on its        *)
(* position, on the ledger and on the grant of its actor.                   *)
LEMMA WorkStays ==
    ASSUME NEW t \in Slots, WorkOK(t), UNCHANGED <<session[t], work[t]>>,
           work[t] # None => UNCHANGED <<stock, movements>>,
           session[t].at \in AccessStages =>
               (grants[KeyStaff[session[t].key]] # "revoked" => grants'[KeyStaff[session[t].key]] # "revoked")
    PROVE  WorkOK(t)'
  BY DEF WorkOK, MovementOf, Target, After, Rejection, StaleVersion, OutOfRange, LocationUnavailable,
         OpeningAllowed, OperationUsed

(* A statement of one session before its COMMIT takes effect.               *)
LEMMA SessionStep ==
    ASSUME StockInv, EngineInv', StockTypeOK', NEW s \in Slots,
           \A t \in Slots \ {s}: session'[t] = session[t] /\ work'[t] = work[t],
           UNCHANGED <<stockVars, grants, records, applied>>,
           session'[s].at \in AccessStages => session[s].at \in AccessStages \/ ~AccessLocked,
           WorkOK(s)'
    PROVE  StockInv'
  <1>1. AccessExcludes'
    BY DEF StockInv, AccessExcludes, AccessLocked
  <1>2. ASSUME NEW t \in Slots \ {s} PROVE WorkOK(t)'
    BY WorkStays, SessionFacts DEF stockVars
  <1>3. RecordsInTheLedger' /\ LedgerExplainsStock' /\ OneMovementPerOperation' /\ EvidenceMatchesVersions'
    BY LedgerStays
  <1> QED
    BY <1>1, <1>2, <1>3 DEF StockInv

(* An insertion that nothing rejects is a row of the ledger.                *)
LEMMA MovementTyped ==
    ASSUME StockInv, NEW s \in Slots, session[s].at = "started",
           Rejection(s) = None, Target(s).version < MaxVersion
    PROVE  MovementOf(s) \in Movements
  <1>1. session[s].key \in Keys /\ session[s].digest \in Digests
    BY SessionFacts
  <1>2. session[s].digest.position \in Positions /\ ~OutOfRange(s)
    BY DEF Rejection
  <1>3. Target(s).version \in 1..MaxVersion
    BY <1>2 DEF Target, StockInv, StockTypeOK
  <1>4. Target(s).version + 1 \in 2..MaxVersion /\ After(s) \in 0..MaxQuantity
    BY <1>2, <1>3 DEF OutOfRange
  <1> QED
    BY <1>1, <1>2, <1>4 DEF MovementOf, Movements

(* COMMIT of a movement: the next of its position, and the only one of its  *)
(* operation and of its scope.                                              *)
LEMMA ApplyKeeps ==
    ASSUME StockInv, NEW m \in Movements, Apply(m),
           m.version = stock[m.position].version + 1,
           m.after = stock[m.position].sellable + m.delta,
           m.key \in Openings => m.version = 2,
           \A n \in movements: n.op # m.op,
           applied[m.key] = 0, applied' = [applied EXCEPT ![m.key] = 1]
    PROVE  /\ stock' \in [Positions -> [sellable: 0..MaxQuantity, version: 1..MaxVersion]]
           /\ movements' \subseteq Movements
           /\ outbox' \subseteq Positions \X (2..MaxVersion)
           /\ audit' \subseteq Staff \X Positions \X (2..MaxVersion)
           /\ LedgerExplainsStock' /\ OneMovementPerOperation' /\ EvidenceMatchesVersions'
  <1> DEFINE p == m.position
  <1>0. StockTypeOK /\ LedgerExplainsStock /\ OneMovementPerOperation /\ EvidenceMatchesVersions
        /\ applied \in [Keys -> Nat]
    BY DEF StockInv, EngineInv, TypeOK
  <1>1. /\ p \in Positions /\ m.version \in 2..MaxVersion /\ m.after \in 0..MaxQuantity
        /\ m.delta \in Int /\ m.key \in Keys /\ m.actor \in Staff
    BY DEF Movements
  <1>2. /\ stock' = [stock EXCEPT ![p] = [sellable |-> m.after, version |-> m.version]]
        /\ movements' = movements \cup {m}
        /\ outbox' = outbox \cup {<<p, m.version>>}
        /\ audit' = audit \cup {<<m.actor, p, m.version>>}
    BY DEF Apply
  <1>3. /\ stock'[p].version = m.version /\ stock'[p].sellable = m.after
        /\ \A q \in Positions \ {p}: stock'[q] = stock[q]
    BY <1>0, <1>1, <1>2 DEF StockTypeOK
  <1>4. stock[p].version \in Nat /\ stock[p].sellable \in Nat
    BY <1>0, <1>1 DEF StockTypeOK
  <1>5. \A n \in movements: /\ n.position \in Positions /\ n.version \in Nat /\ n.after \in Nat
                             /\ n.version <= stock[n.position].version
    BY <1>0 DEF StockTypeOK, Movements, LedgerExplainsStock, MovementsOf
  <1>6. stock' \in [Positions -> [sellable: 0..MaxQuantity, version: 1..MaxVersion]]
    BY <1>0, <1>1, <1>2 DEF StockTypeOK
  <1>7. /\ movements' \subseteq Movements
        /\ outbox' \subseteq Positions \X (2..MaxVersion)
        /\ audit' \subseteq Staff \X Positions \X (2..MaxVersion)
    BY <1>0, <1>1, <1>2 DEF StockTypeOK
  <1>8. LedgerExplainsStock'
    <2> SUFFICES ASSUME NEW q \in Positions
                 PROVE  /\ \A a, b \in MovementsOf(q)': a.version = b.version => a = b
                        /\ \A a \in MovementsOf(q)': a.version <= stock'[q].version
                        /\ \A a \in MovementsOf(q)':
                               IF a.version = 2 THEN a.after = a.delta
                               ELSE \E b \in MovementsOf(q)': b.version + 1 = a.version /\ a.after = b.after + a.delta
                        /\ IF stock'[q].version = 1 THEN stock'[q].sellable = 0
                           ELSE \E a \in MovementsOf(q)': a.version = stock'[q].version /\ a.after = stock'[q].sellable
                        /\ \A a \in MovementsOf(q)': a.key \in Openings => a.version = 2 /\ a.after >= 0
      BY DEF LedgerExplainsStock
    <2>1. /\ \A a, b \in MovementsOf(q): a.version = b.version => a = b
          /\ \A a \in MovementsOf(q): a.version <= stock[q].version
          /\ \A a \in MovementsOf(q):
                 IF a.version = 2 THEN a.after = a.delta
                 ELSE \E b \in MovementsOf(q): b.version + 1 = a.version /\ a.after = b.after + a.delta
          /\ IF stock[q].version = 1 THEN stock[q].sellable = 0
             ELSE \E a \in MovementsOf(q): a.version = stock[q].version /\ a.after = stock[q].sellable
          /\ \A a \in MovementsOf(q): a.key \in Openings => a.version = 2 /\ a.after >= 0
      BY <1>0 DEF LedgerExplainsStock
    <2>2. CASE q # p
      <3>1. MovementsOf(q)' = MovementsOf(q) /\ stock'[q] = stock[q]
        BY <1>2, <1>3, <2>2 DEF MovementsOf
      <3> QED
        BY <2>1, <3>1
    <2>3. CASE q = p
      <3>1. MovementsOf(q)' = MovementsOf(q) \cup {m}
        BY <1>2, <2>3 DEF MovementsOf
      <3>2. \A a \in MovementsOf(q): a.version \in Nat /\ a.after \in Nat /\ a.version < m.version
        BY <1>1, <1>4, <1>5, <2>3 DEF MovementsOf
      <3>3. IF m.version = 2 THEN m.after = m.delta
            ELSE \E b \in MovementsOf(q): b.version + 1 = m.version /\ m.after = b.after + m.delta
        BY <1>1, <1>4, <2>1, <2>3
      <3>4. m.version # 1 /\ (m.key \in Openings => m.version = 2 /\ m.after >= 0)
        BY <1>1
      <3>5. \A a, b \in MovementsOf(q)': a.version = b.version => a = b
        BY <1>1, <2>1, <3>1, <3>2
      <3>6. \A a \in MovementsOf(q)': a.version <= stock'[q].version
        BY <1>1, <1>3, <2>3, <3>1, <3>2
      <3>7. \A a \in MovementsOf(q)':
                IF a.version = 2 THEN a.after = a.delta
                ELSE \E b \in MovementsOf(q)': b.version + 1 = a.version /\ a.after = b.after + a.delta
        BY <2>1, <3>1, <3>3
      <3>8. \A a \in MovementsOf(q)': a.key \in Openings => a.version = 2 /\ a.after >= 0
        BY <2>1, <3>1, <3>4
      <3> QED
        BY <1>3, <2>3, <3>1, <3>4, <3>5, <3>6, <3>7, <3>8
    <2> QED
      BY <2>2, <2>3
  <1>9. OneMovementPerOperation'
    <2>1. \A a, b \in movements': a.op = b.op => a = b
      BY <1>0, <1>2 DEF OneMovementPerOperation
    <2>2. \A n \in movements: n.key # m.key
      BY <1>0, <1>1 DEF OneMovementPerOperation
    <2>3. \A k \in Keys: applied'[k] = IF k = m.key THEN 1 ELSE applied[k]
      BY <1>0
    <2>4. ASSUME NEW k \in Keys
          PROVE  /\ applied'[k] = 1 <=> \E n \in movements': n.key = k
                 /\ \A a, b \in movements': a.key = k /\ b.key = k => a = b
      <3>1. /\ applied[k] = 1 <=> \E n \in movements: n.key = k
            /\ \A a, b \in movements: a.key = k /\ b.key = k => a = b
        BY <1>0 DEF OneMovementPerOperation
      <3>2. CASE k = m.key
        BY <1>2, <2>2, <2>3, <3>1, <3>2
      <3>3. CASE k # m.key
        BY <1>2, <2>3, <3>1, <3>3
      <3> QED
        BY <3>2, <3>3
    <2> QED
      BY <2>1, <2>4 DEF OneMovementPerOperation
  <1>10. EvidenceMatchesVersions'
    <2>1. /\ outbox = {e \in Positions \X (2..MaxVersion): e[2] <= stock[e[1]].version}
          /\ {<<a[2], a[3]>>: a \in audit} = outbox
          /\ \A a, b \in audit: a[2] = b[2] /\ a[3] = b[3] => a = b
      BY <1>0 DEF EvidenceMatchesVersions
    <2>2. outbox' = {e \in Positions \X (2..MaxVersion): e[2] <= stock'[e[1]].version}
      <3>1. ASSUME NEW e \in Positions \X (2..MaxVersion)
            PROVE  e[2] <= stock'[e[1]].version <=> e \in outbox \/ e = <<p, m.version>>
        <4>1. e[1] \in Positions /\ e[2] \in 2..MaxVersion /\ e = <<e[1], e[2]>>
          OBVIOUS
        <4>2. e \in outbox <=> e[2] <= stock[e[1]].version
          BY <2>1
        <4>3. CASE e[1] = p
          <5>1. e = <<p, m.version>> <=> e[2] = m.version
            BY <4>1, <4>3
          <5>2. e[2] <= m.version <=> e[2] <= stock[p].version \/ e[2] = m.version
            BY <1>1, <1>4, <4>1
          <5> QED
            BY <1>3, <4>2, <4>3, <5>1, <5>2
        <4>4. CASE e[1] # p
          <5>1. e # <<p, m.version>>
            BY <4>4
          <5> QED
            BY <1>3, <4>1, <4>2, <4>4, <5>1
        <4> QED
          BY <4>3, <4>4
      <3>2. <<p, m.version>> \in Positions \X (2..MaxVersion)
        BY <1>1
      <3> QED
        BY <1>2, <1>7, <3>1, <3>2
    <2>3. {<<a[2], a[3]>>: a \in audit'} = outbox'
      <3> DEFINE x == <<m.actor, p, m.version>>
      <3>1. x[2] = p /\ x[3] = m.version
        OBVIOUS
      <3>2. audit' = audit \cup {x}
        BY <1>2
      <3> HIDE DEF x
      <3>3. {<<a[2], a[3]>>: a \in audit'} = {<<a[2], a[3]>>: a \in audit} \cup {<<x[2], x[3]>>}
        BY <3>2
      <3> QED
        BY <1>2, <2>1, <3>1, <3>3
    <2>4. \A a \in audit: <<a[2], a[3]>> # <<p, m.version>>
      <3>1. <<p, m.version>> \notin outbox
        BY <1>1, <1>4, <2>1
      <3> QED
        BY <2>1, <3>1
    <2>5. \A a, b \in audit': a[2] = b[2] /\ a[3] = b[3] => a = b
      BY <1>2, <2>1, <2>4
    <2> QED
      BY <2>2, <2>3, <2>5 DEF EvidenceMatchesVersions
  <1> QED
    BY <1>6, <1>7, <1>8, <1>9, <1>10

(* COMMIT carried out: with a movement, or without one.                     *)
LEMMA CommitAdjustKeeps ==
    ASSUME StockInv, EngineInv', NEW s \in Slots, CommitAdjust(s)
    PROVE  StockInv'
  <1> DEFINE k == session[s].key
             d == session[s].digest
             m == work[s]
  <1>1. session[s].at \in {"committing", "orphan"} /\ Install(s)
    BY DEF CommitAdjust, Commit, OrphanCommits
  <1>2. /\ k \in Keys /\ d \in Digests /\ WorkOK(s) /\ m \in Movements \cup {None}
        /\ (Resolving(s) \/ Repeating(s))
    BY <1>1, SessionFacts DEF SessionOK, AtCommit
  <1>3. session' = [session EXCEPT ![s] = Idle] /\ work' = [work EXCEPT ![s] = None] /\ grants' = grants
    BY DEF CommitAdjust, Commit, OrphanCommits
  <1>4. /\ session \in [Slots -> Sessions] /\ StockTypeOK /\ DurableOK
        /\ records \in [Keys -> Rows \cup {None}] /\ applied \in [Keys -> Nat]
    BY DEF StockInv, EngineInv, TypeOK
  <1>5. session'[s] = Idle /\ work'[s] = None
        /\ \A t \in Slots \ {s}: session'[t] = session[t] /\ work'[t] = work[t]
    BY <1>3, <1>4 DEF StockTypeOK
  <1>6. session[s].at \in AccessStages /\ \A t \in Slots \ {s}: session[t].at \notin AccessStages
    <2>1. session[s].at \in AccessStages
      BY <1>1 DEF AccessStages, LockedStages
    <2> QED
      BY <2>1 DEF StockInv, AccessExcludes
  <1>7. \A t \in Slots \ {s}: work[t] = None
    <2> SUFFICES ASSUME NEW t \in Slots \ {s}, work[t] # None PROVE FALSE
      OBVIOUS
    <2>1. session[t].effect /\ session[t] \in Sessions /\ SessionOK(t)
      BY SessionFacts DEF WorkOK
    <2>2. session[t].at \notin {"idle", "begun", "locked"}
      BY <2>1 DEF SessionOK, BeforeRecord, Serving, Idle
    <2>3. session[t].at \in AccessStages
      BY <2>1, <2>2 DEF Sessions, Stages, AccessStages, LockedStages
    <2> QED
      BY <1>6, <2>3
  <1>8. AccessExcludes'
    BY <1>5 DEF StockInv, AccessExcludes, Idle, AccessStages, LockedStages
  <1>9. ASSUME NEW t \in Slots PROVE WorkOK(t)'
    <2>1. CASE t = s
      BY <1>5, <2>1 DEF WorkOK, Idle, AccessStages, LockedStages
    <2>2. CASE t # s
      BY <1>3, <1>5, <1>7, <2>2, WorkStays, SessionFacts
    <2> QED
      BY <2>1, <2>2
  <1>10. CASE m = None
    <2>1. UNCHANGED stockVars /\ session[s].effect = FALSE
      <3>1. session[s].effect \in BOOLEAN
        BY <1>4 DEF Sessions
      <3> QED
        BY <1>2, <1>10, <3>1 DEF CommitAdjust, WorkOK
    <2>2. applied' = applied
      BY <1>1, <2>1 DEF Install
    <2>3. StockTypeOK'
      BY <1>3, <1>4, <2>1 DEF StockTypeOK, stockVars
    <2>4. LedgerExplainsStock' /\ OneMovementPerOperation' /\ EvidenceMatchesVersions'
      BY <2>1, <2>2 DEF StockInv, LedgerExplainsStock, MovementsOf, OneMovementPerOperation,
                        EvidenceMatchesVersions, stockVars
    <2>5. RecordsInTheLedger'
      <3>1. CASE session[s].row = None
        BY <1>1, <2>1, <3>1 DEF Install, StockInv, RecordsInTheLedger, InTheLedger, stockVars
      <3>2. CASE session[s].row # None
        <4>1. records' = [records EXCEPT ![k] = CompletedRow(d, session[s].reply)]
          BY <1>1, <1>2, <3>2 DEF Install, Resolving, Repeating
        <4>2. session[s].reply.code # "CREATED"
          BY <1>1, <1>2, <1>10, <3>2 DEF WorkOK
        <4>3. ASSUME NEW j \in Keys, records'[j] # None
              PROVE  InTheLedger(j, records[j].digest, records[j].result)'
          <5>1. CASE j = k
            <6>1. records'[j].result = session[s].reply
              BY <1>4, <4>1, <5>1 DEF CompletedRow
            <6> QED
              BY <4>2, <6>1 DEF InTheLedger
          <5>2. CASE j # k
            <6>1. records'[j] = records[j]
              BY <1>4, <4>1, <5>2
            <6> QED
              BY <2>1, <4>3, <6>1 DEF StockInv, RecordsInTheLedger, InTheLedger, stockVars
          <5> QED
            BY <5>1, <5>2
        <4> QED
          BY <4>3 DEF RecordsInTheLedger
      <3> QED
        BY <3>1, <3>2
    <2> QED
      BY <1>8, <1>9, <2>3, <2>4, <2>5 DEF StockInv
  <1>11. CASE m # None
    <2>1. m \in Movements /\ m = MovementOf(s) /\ Rejection(s) = None /\ session[s].effect
      BY <1>2, <1>11 DEF WorkOK
    <2>2. Apply(m)
      BY <1>11 DEF CommitAdjust
    <2>3. Resolving(s)
      BY <1>2, <2>1 DEF Repeating
    <2>4. records[k] = None /\ records' = [records EXCEPT ![k] = CompletedRow(d, session[s].reply)]
      <3>1. session[s].row # None /\ session[s].row = CompletedRow(d, session[s].reply)
        <4>1. session[s].reply \in Results /\ session[s].row = CompletedRow(d, session[s].reply)
          BY <2>3 DEF Resolving
        <4>2. CompletedRow(d, session[s].reply) \in Rows
          BY <1>2, <4>1, RowsTyped
        <4> QED
          BY <4>1, <4>2, NoneIsNoValue
      <3> QED
        BY <1>1, <2>3, <3>1 DEF Install, Resolving
    <2>5. applied[k] = 0
      BY <1>2, <1>4, <2>4 DEF DurableOK
    <2>6. applied' = [applied EXCEPT ![k] = 1]
      BY <1>1, <1>2, <1>4, <2>1, <2>5 DEF Install
    <2>7. /\ m.key = k /\ m.position = d.position /\ m.delta = d.delta /\ m.op = d.op
          /\ m.version = stock[m.position].version + 1
          /\ m.after = stock[m.position].sellable + m.delta
      BY <2>1 DEF MovementOf, Target, After
    <2>8. ~StaleVersion(s) /\ OpeningAllowed(s) /\ ~OperationUsed(s)
      BY <2>1 DEF Rejection
    <2>9. /\ m.version = d.expected + 1
          /\ m.key \in Openings => m.version = 2
          /\ \A n \in movements: n.op # m.op
      BY <2>7, <2>8 DEF StaleVersion, OpeningAllowed, OperationUsed, Target
    <2>10. /\ stock' \in [Positions -> [sellable: 0..MaxQuantity, version: 1..MaxVersion]]
           /\ movements' \subseteq Movements
           /\ outbox' \subseteq Positions \X (2..MaxVersion)
           /\ audit' \subseteq Staff \X Positions \X (2..MaxVersion)
           /\ LedgerExplainsStock' /\ OneMovementPerOperation' /\ EvidenceMatchesVersions'
      BY <2>1, <2>2, <2>5, <2>6, <2>7, <2>9, ApplyKeeps
    <2>11. StockTypeOK'
      BY <1>3, <1>4, <2>10 DEF StockTypeOK
    <2>12. movements' = movements \cup {m}
      BY <2>2 DEF Apply
    <2>13. session[s].reply = Created(m.version, m.after)
      <3>1. session[s].row # None
        BY <1>2, <2>3, RowsTyped, NoneIsNoValue DEF Resolving
      <3> QED
        BY <1>1, <1>2, <1>11, <3>1 DEF WorkOK
    <2>14. RecordsInTheLedger'
      <3> SUFFICES ASSUME NEW j \in Keys, records'[j] # None
                   PROVE  InTheLedger(j, records[j].digest, records[j].result)'
        BY DEF RecordsInTheLedger
      <3>1. CASE j = k
        <4>1. records'[j].digest = d /\ records'[j].result = Created(m.version, m.after)
          BY <1>4, <2>4, <2>13, <3>1 DEF CompletedRow
        <4>2. m \in movements' /\ Created(m.version, m.after).version = m.version
              /\ Created(m.version, m.after).sellable = m.after
          BY <2>12 DEF Created
        <4> QED
          BY <2>7, <2>9, <3>1, <4>1, <4>2 DEF InTheLedger
      <3>2. CASE j # k
        <4>1. records'[j] = records[j]
          BY <1>4, <2>4, <3>2
        <4> QED
          BY <2>12, <4>1 DEF StockInv, RecordsInTheLedger, InTheLedger
      <3> QED
        BY <3>1, <3>2
    <2> QED
      BY <1>8, <1>9, <2>10, <2>11, <2>14 DEF StockInv
  <1> QED
    BY <1>10, <1>11

(* Every step keeps the invariant.                                          *)
LEMMA StockInvStep == StockInv /\ [StockNext]_allVars => StockInv'
  <1> SUFFICES ASSUME StockInv, [StockNext]_allVars PROVE StockInv'
    OBVIOUS
  <1>0. /\ EngineInv' /\ StockTypeOK /\ session \in [Slots -> Sessions]
        /\ work \in [Slots -> Movements \cup {None}]
    BY StockStepIsEngineStep, EngineInvStep DEF StockInv, EngineInv, TypeOK, StockTypeOK
  <1>1. ASSUME NEW s \in Slots,
               \A t \in Slots \ {s}: session'[t] = session[t],
               UNCHANGED <<stockVars, grants, work, records, applied>>,
               session'[s].at \in AccessStages => session[s].at \in AccessStages \/ ~AccessLocked,
               WorkOK(s)'
        PROVE  StockInv'
    <2>1. StockTypeOK'
      BY <1>0, <1>1 DEF StockTypeOK, stockVars
    <2> QED
      BY <1>0, <1>1, <2>1, SessionStep
  <1>2. ASSUME NEW s \in Slots, EngineOnly(s) PROVE StockInv'
    <2>1. UNCHANGED <<stockVars, grants, work, records, applied>>
      BY <1>2 DEF EngineOnly, TakeCommandLock, ReadRecord, AnswerFromRecord, Start, CommitLost, durable
    <2>2. \A t \in Slots \ {s}: session'[t] = session[t]
      BY <1>0, <1>2 DEF EngineOnly, TakeCommandLock, ReadRecord, AnswerFromRecord, Start, CommitLost
    <2>3. session'[s].key = session[s].key /\ session'[s].digest = session[s].digest
          /\ session'[s].effect = session[s].effect
      <3>1. CASE TakeCommandLock(s)
        BY <1>0, <3>1 DEF TakeCommandLock, Sessions
      <3>2. CASE ReadRecord(s)
        BY <1>0, <3>2 DEF ReadRecord, Sessions
      <3>3. CASE AnswerFromRecord(s)
        BY <1>0, <3>3 DEF AnswerFromRecord, Sessions
      <3>4. CASE Start(s)
        BY <1>0, <3>4 DEF Start, Sessions
      <3>5. CASE CommitLost(s)
        BY <1>0, <3>5 DEF CommitLost, Sessions
      <3> QED
        BY <1>2, <3>1, <3>2, <3>3, <3>4, <3>5 DEF EngineOnly
    <2>4. session'[s].at \in AccessStages => session[s].at \in AccessStages
      BY <1>0, <1>2 DEF EngineOnly, TakeCommandLock, ReadRecord, AnswerFromRecord, Start, CommitLost,
                        Sessions, AccessStages, LockedStages
    <2>5. session'[s].at \in {"committing", "orphan"} /\ session'[s].row # None =>
            /\ session[s].at \in {"committing", "orphan"} /\ session[s].row # None
            /\ session'[s].reply = session[s].reply
      <3>1. CASE AnswerFromRecord(s)
        <4>1. session'[s].row = session[s].row /\ session[s].row = None
          BY <1>0, <3>1, SessionFacts DEF AnswerFromRecord, SessionOK, BeforeRecord, Sessions
        <4> QED
          BY <4>1
      <3>2. CASE CommitLost(s)
        BY <1>0, <3>2 DEF CommitLost, Sessions
      <3>3. CASE TakeCommandLock(s) \/ ReadRecord(s) \/ Start(s)
        <4>1. session'[s].at \in {"locked", "read", "started"}
          <5>1. CASE TakeCommandLock(s)
            BY <1>0, <5>1 DEF TakeCommandLock, Sessions
          <5>2. CASE ReadRecord(s)
            BY <1>0, <5>2 DEF ReadRecord, Sessions
          <5>3. CASE Start(s)
            BY <1>0, <5>3 DEF Start, Sessions
          <5> QED
            BY <3>3, <5>1, <5>2, <5>3
        <4> QED
          BY <4>1
      <3> QED
        BY <1>2, <3>1, <3>2, <3>3 DEF EngineOnly
    <2>6. WorkOK(s)'
      <3>1. MovementOf(s)' = MovementOf(s) /\ Rejection(s)' = Rejection(s)
        BY <2>1, <2>3 DEF MovementOf, Target, After, Rejection, StaleVersion, OutOfRange, LocationUnavailable,
                          OpeningAllowed, OperationUsed, stockVars
      <3>2. work' = work /\ grants' = grants /\ WorkOK(s)
        BY <2>1, SessionFacts DEF stockVars
      <3> QED
        BY <2>3, <2>4, <2>5, <3>1, <3>2 DEF WorkOK
    <2> QED
      BY <1>1, <2>1, <2>2, <2>4, <2>6
  <1>3. ASSUME NEW s \in Slots, NEW new \in Sessions, session' = [session EXCEPT ![s] = new],
               new.at \in {"idle", "begun"}, new.effect = FALSE,
               work'[s] = None, \A t \in Slots \ {s}: work'[t] = work[t],
               work' \in [Slots -> Movements \cup {None}],
               UNCHANGED <<stockVars, grants, records, applied>>
        PROVE  StockInv'
    <2>1. session'[s] = new /\ \A t \in Slots \ {s}: session'[t] = session[t]
      BY <1>0, <1>3
    <2>2. session'[s].at \notin AccessStages
      BY <1>3, <2>1 DEF AccessStages, LockedStages
    <2>3. WorkOK(s)'
      BY <1>3, <2>1, <2>2 DEF WorkOK
    <2>4. StockTypeOK'
      BY <1>0, <1>3 DEF StockTypeOK, stockVars
    <2> QED
      BY <1>0, <1>3, <2>1, <2>2, <2>3, <2>4, SessionStep
  <1>4. ASSUME NEW s \in Slots, NEW k \in Keys, NEW d \in Digests, ReceiveAdjust(s, k, d) PROVE StockInv'
    <2> DEFINE new == [Idle EXCEPT !.at = "begun", !.key = k, !.digest = d]
    <2>1. new \in Sessions /\ new.at = "begun" /\ new.effect = FALSE
      BY DEF Idle, Sessions, Stages
    <2>2. session' = [session EXCEPT ![s] = new] /\ UNCHANGED <<stockVars, grants, work, records, applied>>
      BY <1>4 DEF ReceiveAdjust, Receive, durable
    <2> HIDE DEF new
    <2>3. session[s].effect = FALSE
      BY <1>4, SessionFacts DEF ReceiveAdjust, Receive, SessionOK, Serving, Idle
    <2>4. work[s] = None
      BY <2>3, SessionFacts DEF WorkOK
    <2> QED
      BY <1>0, <1>3, <2>1, <2>2, <2>4
  <1>5. ASSUME NEW s \in Slots, Discard(s) PROVE StockInv'
    <2>1. session' = [session EXCEPT ![s] = Idle] /\ UNCHANGED <<stockVars, grants, records, applied>>
          /\ work' = [work EXCEPT ![s] = None]
      BY <1>5 DEF Discard, Fail, CommitRefused, OrphanAborts, durable
    <2>2. Idle \in Sessions /\ Idle.at = "idle" /\ Idle.effect = FALSE
      BY IdleTyped DEF Idle
    <2> QED
      BY <1>0, <1>3, <2>1, <2>2
  <1>6. ASSUME NEW s \in Slots, AuthorizeStaff(s) PROVE StockInv'
    <2>1. /\ session[s].at = "locked" /\ session' = [session EXCEPT ![s].at = "authorized"]
          /\ ~AccessLocked /\ grants[KeyStaff[session[s].key]] = "held"
          /\ UNCHANGED <<stockVars, grants, work, records, applied>>
      BY <1>6 DEF AuthorizeStaff, Authorize, durable
    <2>2. /\ \A t \in Slots \ {s}: session'[t] = session[t]
          /\ session'[s].at = "authorized" /\ session'[s].effect = session[s].effect
          /\ session'[s].key = session[s].key
      BY <1>0, <2>1 DEF Sessions
    <2>3. session[s].effect = FALSE /\ work[s] = None
      BY <2>1, SessionFacts DEF SessionOK, BeforeRecord, WorkOK
    <2>4. WorkOK(s)'
      BY <2>1, <2>2, <2>3 DEF WorkOK
    <2> QED
      BY <1>1, <2>1, <2>2, <2>4
  <1>7. ASSUME NEW s \in Slots, InsertMovement(s) PROVE StockInv'
    <2>1. /\ session[s].at = "started"
          /\ session' = [session EXCEPT ![s] = [@ EXCEPT !.at = "wrote", !.effect = TRUE]]
          /\ Rejection(s) = None /\ Target(s).version < MaxVersion
          /\ work' = [work EXCEPT ![s] = MovementOf(s)]
          /\ UNCHANGED <<stockVars, grants, records, applied>>
      BY <1>7 DEF InsertMovement, Write, durable
    <2>2. MovementOf(s) \in Movements
      BY <2>1, MovementTyped
    <2>3. /\ \A t \in Slots \ {s}: session'[t] = session[t] /\ work'[t] = work[t]
          /\ session'[s].at = "wrote" /\ session'[s].effect = TRUE
          /\ session'[s].key = session[s].key /\ session'[s].digest = session[s].digest
          /\ work'[s] = MovementOf(s)
      BY <1>0, <2>1 DEF Sessions
    <2>4. session[s].at \in AccessStages
      BY <2>1 DEF AccessStages, LockedStages
    <2>5. MovementOf(s)' = MovementOf(s) /\ Rejection(s)' = Rejection(s)
      BY <2>1, <2>3 DEF MovementOf, Target, After, Rejection, StaleVersion, OutOfRange, LocationUnavailable,
                        OpeningAllowed, OperationUsed, stockVars
    <2>6. grants'[KeyStaff[session'[s].key]] # "revoked"
      BY <2>1, <2>3, <2>4, SessionFacts DEF WorkOK
    <2>7. work'[s] # None
      BY <2>2, <2>3
    <2>8. WorkOK(s)'
      BY <2>1, <2>3, <2>5, <2>6, <2>7 DEF WorkOK
    <2>9. StockTypeOK'
      BY <1>0, <2>1, <2>2 DEF StockTypeOK, stockVars
    <2> QED
      BY <1>0, <2>1, <2>3, <2>4, <2>8, <2>9, SessionStep
  <1>8. ASSUME NEW s \in Slots, FinishAdjust(s) \/ RefuseAdjust(s) PROVE StockInv'
    <2> DEFINE r == IF session[s].at = "wrote" THEN Created(work[s].version, work[s].after)
                    ELSE Refusal(Rejection(s))
               e == IF session[s].at = "wrote" THEN session[s].effect ELSE FALSE
    <2>1. /\ session[s].at \in {"started", "wrote"} /\ Complete(s, r, e)
          /\ UNCHANGED <<stockVars, grants, work, records, applied>>
          /\ session[s].at = "started" => Rejection(s) # None
      BY <1>8 DEF FinishAdjust, Succeed, RefuseAdjust, Refuse, durable
    <2>2. e = session[s].effect /\ (session[s].at = "wrote" <=> work[s] # None)
      BY <2>1, SessionFacts DEF SessionOK, RecordOpen, WorkOK, Sessions
    <2>3. IF work[s] = None THEN r.code # "CREATED" ELSE r = Created(work[s].version, work[s].after)
      BY <2>1, <2>2, AnswersTyped
    <2> HIDE DEF r, e
    <2>4. /\ \A t \in Slots \ {s}: session'[t] = session[t]
          /\ session'[s].at = "committing" /\ session'[s].effect = e /\ session'[s].reply = r
          /\ session'[s].key = session[s].key /\ session'[s].digest = session[s].digest
      BY <1>0, <2>1 DEF Complete, Sessions
    <2>5. session[s].at \in AccessStages
      BY <2>1 DEF AccessStages, LockedStages
    <2>6. MovementOf(s)' = MovementOf(s) /\ Rejection(s)' = Rejection(s)
      BY <2>1, <2>4 DEF MovementOf, Target, After, Rejection, StaleVersion, OutOfRange, LocationUnavailable,
                        OpeningAllowed, OperationUsed, stockVars
    <2>7. WorkOK(s)'
      BY <2>1, <2>2, <2>3, <2>4, <2>5, <2>6, SessionFacts DEF WorkOK
    <2> QED
      BY <1>1, <2>1, <2>4, <2>5, <2>7
  <1>9. ASSUME UNCHANGED <<session, work, stockVars, records, applied>>,
               grants' \in [Staff -> {"held", "revoked", "lapsed"}],
               \A s \in Slots: session[s].at \in AccessStages =>
                   (grants[KeyStaff[session[s].key]] # "revoked" => grants'[KeyStaff[session[s].key]] # "revoked")
        PROVE  StockInv'
    <2>1. \A s \in Slots: WorkOK(s)'
      BY <1>9, WorkStays, SessionFacts DEF stockVars
    <2>2. StockTypeOK'
      BY <1>0, <1>9 DEF StockTypeOK, stockVars
    <2>3. AccessExcludes'
      BY <1>9 DEF StockInv, AccessExcludes
    <2> QED
      BY <1>0, <1>9, <2>1, <2>2, <2>3, LedgerStays DEF StockInv
  <1>10. ASSUME NEW a \in Staff, Revoke(a) \/ Grant(a) \/ Lapse(a) PROVE StockInv'
    <2>1. UNCHANGED <<session, work, stockVars, records, applied>>
      BY <1>10 DEF Revoke, Grant, Lapse, vars, durable
    <2>2. grants' \in [Staff -> {"held", "revoked", "lapsed"}]
      BY <1>0, <1>10 DEF Revoke, Grant, Lapse, StockTypeOK
    <2>3. ASSUME NEW s \in Slots, session[s].at \in AccessStages,
                 grants[KeyStaff[session[s].key]] # "revoked"
          PROVE  grants'[KeyStaff[session[s].key]] # "revoked"
      <3>1. ~Revoke(a)
        BY <2>3 DEF Revoke, AccessLocked
      <3>2. KeyStaff[session[s].key] \in Staff
        <4>1. session[s].at # "idle"
          BY <2>3 DEF AccessStages, LockedStages
        <4> QED
          BY <4>1, SessionFacts
      <3> QED
        BY <1>0, <1>10, <2>3, <3>1, <3>2 DEF Grant, Lapse, StockTypeOK
    <2> QED
      BY <1>9, <2>1, <2>2, <2>3
  <1>11. ASSUME NEW k \in AgeingKeys, Ageing(k) PROVE StockInv'
    <2>1. UNCHANGED <<session, work, stockVars, records, applied>> /\ grants' = grants
      BY <1>11 DEF Ageing, ExpireRecord
    <2> QED
      BY <1>0, <1>9, <2>1 DEF StockTypeOK
  <1>12. ASSUME UNCHANGED allVars PROVE StockInv'
    <2>1. UNCHANGED <<session, work, stockVars, records, applied>> /\ grants' = grants
      BY <1>12 DEF allVars, vars, durable
    <2> QED
      BY <1>0, <1>9, <2>1 DEF StockTypeOK
  <1> QED
    BY <1>0, <1>2, <1>4, <1>5, <1>6, <1>7, <1>8, <1>10, <1>11, <1>12, CommitAdjustKeeps DEF StockNext, StockStep

(* Nothing that an adjustment has read is stale when it commits             *)
(* (inventory/service.ts:62-76).                                            *)
THEOREM StockInvariant == StockSpec => []StockInv
  <1>1. StockInit => StockInv
    BY StockInvInit
  <1>2. StockInv /\ [StockNext]_allVars => StockInv'
    BY StockInvStep
  <1> QED
    BY <1>1, <1>2, PTL DEF StockSpec

(* Adjustments implement the command engine, so what is proved of it holds  *)
(* of them (commands.ts:24-76).                                             *)
THEOREM StockImplementsEngine == StockSpec => Spec
  <1>1. StockInit => Init
    BY DEF StockInit
  <1>2. StockInv /\ [StockNext]_allVars => [Next]_vars
    BY StockStepIsEngineStep
  <1> QED
    BY <1>1, <1>2, StockInvariant, PTL DEF StockSpec, Spec

(* The balance of every position is what its ledger says, in every run.     *)
THEOREM LedgerExplains == StockSpec => []LedgerExplainsStock
  <1>1. StockInv => LedgerExplainsStock
    BY DEF StockInv
  <1> QED
    BY <1>1, StockInvariant, PTL

(* An operation key and an idempotency scope move stock once.               *)
THEOREM OneMovementEach == StockSpec => []OneMovementPerOperation
  <1>1. StockInv => OneMovementPerOperation
    BY DEF StockInv
  <1> QED
    BY <1>1, StockInvariant, PTL

(* Outbox and audit have every version of every position, and no other.     *)
THEOREM EvidenceMatches == StockSpec => []EvidenceMatchesVersions
  <1>1. StockInv => EvidenceMatchesVersions
    BY DEF StockInv
  <1> QED
    BY <1>1, StockInvariant, PTL

(* What a client was told it created is in the ledger as it was told.       *)
THEOREM ReceiptsHold == StockSpec => []ReceiptsAreInTheLedger
  <1>1. StockInv => ReceiptsAreInTheLedger
    <2> SUFFICES ASSUME StockInv, NEW k \in Keys, NEW a \in answers[k]
                 PROVE  InTheLedger(k, a[1], a[2])
      BY DEF ReceiptsAreInTheLedger
    <2>1. records[k] # None /\ a = <<records[k].digest, records[k].result>>
      BY DEF StockInv, EngineInv, DurableOK
    <2>2. InTheLedger(k, records[k].digest, records[k].result)
      BY <2>1 DEF StockInv, RecordsInTheLedger
    <2> QED
      BY <2>1, <2>2
  <1> QED
    BY <1>1, StockInvariant, PTL

(* No movement is committed by a member of staff whose grant was revoked    *)
(* before (identity/service.ts:26-35).                                      *)
THEOREM RevokedMoveNothing == StockSpec => RevokedStaffMoveNothing
  <1> DEFINE Act == \A m \in movements' \ movements: grants[m.actor] # "revoked"
  <1>1. StockInv /\ [StockNext]_allVars => [Act]_movements
    <2> SUFFICES ASSUME StockInv, [StockNext]_allVars, movements' # movements,
                        NEW m \in movements' \ movements
                 PROVE  grants[m.actor] # "revoked"
      OBVIOUS
    <2>1. PICK s \in Slots: CommitAdjust(s)
      BY DEF StockNext, StockStep, allVars, stockVars, EngineOnly, AuthorizeStaff, InsertMovement,
             FinishAdjust, RefuseAdjust, Discard, ReceiveAdjust, Revoke, Grant, Lapse, Ageing
    <2>2. work[s] # None /\ m = work[s]
      BY <2>1 DEF CommitAdjust, Apply, stockVars
    <2>3. session[s].at \in AccessStages
      <3>1. session[s].at \in {"committing", "orphan"}
        BY <2>1 DEF CommitAdjust, Commit, OrphanCommits
      <3> QED
        BY <3>1 DEF AccessStages, LockedStages
    <2>4. WorkOK(s)
      BY SessionFacts
    <2>5. MovementOf(s).actor = KeyStaff[session[s].key]
      BY DEF MovementOf
    <2>6. work[s].actor = KeyStaff[session[s].key] /\ grants[KeyStaff[session[s].key]] # "revoked"
      BY <2>2, <2>3, <2>4, <2>5 DEF WorkOK
    <2> QED
      BY <2>2, <2>6
  <1> QED
    BY <1>1, StockInvariant, PTL DEF StockSpec, RevokedStaffMoveNothing

(* What one more answer adds to the receipts.                               *)
LEMMA ReceiptsGrow ==
    ASSUME answers \in [Keys -> SUBSET (Digests \X Results)],
           NEW k \in Keys, NEW d, NEW r, answers' = [answers EXCEPT ![k] = @ \cup {<<d, r>>}]
    PROVE  Receipts' = Receipts \cup (IF r.code = "CREATED" THEN {Receipt(d, r)} ELSE {})
  <1> DEFINE all == UNION {answers[j]: j \in Keys}
             created == {b \in all: b[2].code = "CREATED"}
  <1>1. all' = all \cup {<<d, r>>}
    <2>1. \A j \in Keys: answers'[j] = IF j = k THEN answers[j] \cup {<<d, r>>} ELSE answers[j]
      OBVIOUS
    <2>2. \A a: a \in all' <=> \E j \in Keys: a \in answers'[j]
      OBVIOUS
    <2>3. \A a: a \in all <=> \E j \in Keys: a \in answers[j]
      OBVIOUS
    <2> HIDE DEF all
    <2>4. \A a: a \in all' <=> a \in all \/ a = <<d, r>>
      BY <2>1, <2>2, <2>3
    <2> QED
      BY <2>4
  <1>2. Receipts = {Receipt(a[1], a[2]): a \in created} /\ Receipts' = {Receipt(a[1], a[2]): a \in created'}
    BY DEF Receipts, Receipt
  <1>3. created' = created \cup (IF r.code = "CREATED" THEN {<<d, r>>} ELSE {})
    <2> HIDE DEF all
    <2>1. <<d, r>>[2] = r
      OBVIOUS
    <2> QED
      BY <1>1, <2>1
  <1> HIDE DEF created
  <1>4. CASE r.code = "CREATED"
    <2>1. created' = created \cup {<<d, r>>} /\ Receipt(<<d, r>>[1], <<d, r>>[2]) = Receipt(d, r)
      BY <1>3, <1>4
    <2> QED
      BY <1>2, <1>4, <2>1
  <1>5. CASE r.code # "CREATED"
    BY <1>2, <1>3, <1>5
  <1> QED
    BY <1>4, <1>5

(* A granted request moves the ledger's position on the version it names.   *)
LEMMA GrantIsAdjust ==
    ASSUME StockInv, NEW s \in Slots, CommitAdjust(s), work[s] # None
    PROVE  Book!Adjust(session[s].digest)
  <1> DEFINE k == session[s].key
             d == session[s].digest
             m == work[s]
  <1>1. session[s].at \in {"committing", "orphan"}
    BY DEF CommitAdjust, Commit, OrphanCommits
  <1>2. /\ k \in Keys /\ d \in Digests /\ m \in Movements /\ m = MovementOf(s) /\ Rejection(s) = None
        /\ session[s].effect
        /\ answers \in [Keys -> SUBSET (Digests \X Results)]
    BY <1>1, SessionFacts DEF WorkOK, SessionOK, StockInv, EngineInv, TypeOK
  <1>3. /\ session[s].row # None /\ session[s].reply = Created(m.version, m.after)
    <2>1. Resolving(s)
      BY <1>1, <1>2, SessionFacts DEF SessionOK, AtCommit, Repeating
    <2>2. session[s].row # None
      BY <1>2, <2>1, RowsTyped, NoneIsNoValue DEF Resolving
    <2> QED
      BY <1>1, <2>2, SessionFacts DEF WorkOK
  <1>4. /\ d.position \in Positions /\ stock[d.position].version = d.expected
        /\ stock[d.position].sellable + d.delta \in 0..MaxQuantity
        /\ \A n \in movements: n.op # d.op
    BY <1>2, StockConstants DEF Rejection, StaleVersion, OutOfRange, OperationUsed, Target, After
  <1>5. /\ m.position = d.position /\ m.version = d.expected + 1 /\ m.delta = d.delta
        /\ m.after = stock[d.position].sellable + d.delta /\ m.op = d.op
        /\ m.version - 1 = d.expected
    BY <1>2, <1>4, StockConstants DEF MovementOf, Target, After
  <1>6. /\ stock' = [stock EXCEPT ![m.position] = [sellable |-> m.after, version |-> m.version]]
        /\ movements' = movements \cup {m}
    BY DEF CommitAdjust, Apply
  <1> HIDE DEF m
  <1>7. Entry(m) = Book!EntryOf(d) /\ Receipt(d, session[s].reply) = Entry(m)
    BY <1>3, <1>5 DEF Entry, Book!EntryOf, Receipt, Created
  <1>8. {Entry(n): n \in movements}' = {Entry(n): n \in movements} \cup {Entry(m)}
    BY <1>6 DEF Entry
  <1>9. Receipts' \in {Receipts, Receipts \cup {Entry(m)}}
    <2>1. CASE answers' = answers
      BY <2>1 DEF Receipts, Receipt
    <2>2. CASE answers' = [answers EXCEPT ![k] = @ \cup {<<d, session[s].reply>>}]
      <3> DEFINE r == session[s].reply
      <3>1. answers' = [answers EXCEPT ![k] = @ \cup {<<d, r>>}]
        BY <2>2
      <3> HIDE DEF r, d, k
      <3>2. Receipts' = Receipts \cup (IF r.code = "CREATED" THEN {Receipt(d, r)} ELSE {})
        BY <1>2, <3>1, ReceiptsGrow
      <3>3. Receipt(d, r) = Entry(m)
        BY <1>7 DEF r
      <3> QED
        BY <3>2, <3>3
    <2> QED
      BY <2>1, <2>2 DEF CommitAdjust, Commit, OrphanCommits
  <1>10. Book!EntryOf(d).after = m.after /\ Book!EntryOf(d).version = m.version
    BY <1>5 DEF Book!EntryOf
  <1>11. \A e \in {Entry(n): n \in movements}: e.op # d.op
    BY <1>4 DEF Entry
  <1> QED
    BY <1>4, <1>5, <1>6, <1>7, <1>8, <1>9, <1>10, <1>11 DEF Book!Adjust

(* Every other answer repeats an entry or none.                             *)
LEMMA ReplayIsRepeat ==
    ASSUME StockInv, NEW s \in Slots, CommitAdjust(s), work[s] = None
    PROVE  [Book!Next]_(Book!vars)
  <1> DEFINE k == session[s].key
             d == session[s].digest
             r == session[s].reply
  <1>1. session[s].at \in {"committing", "orphan"}
    BY DEF CommitAdjust, Commit, OrphanCommits
  <1>2. /\ k \in Keys /\ d \in Digests /\ answers \in [Keys -> SUBSET (Digests \X Results)]
    BY <1>1, SessionFacts DEF SessionOK, StockInv, EngineInv, TypeOK
  <1>3. stock' = stock /\ movements' = movements
    BY DEF CommitAdjust, stockVars
  <1>4. {Entry(n): n \in movements}' = {Entry(n): n \in movements}
    BY <1>3 DEF Entry
  <1>5. CASE answers' = answers
    <2>1. Receipts' = Receipts
      BY <1>5 DEF Receipts, Receipt
    <2> QED
      BY <1>3, <1>4, <2>1 DEF Book!vars
  <1>6. CASE r # None /\ answers' = [answers EXCEPT ![k] = @ \cup {<<d, r>>}]
    <2>1. Receipts' = Receipts \cup (IF r.code = "CREATED" THEN {Receipt(d, r)} ELSE {})
      BY <1>2, <1>6, ReceiptsGrow
    <2>2. CASE r.code # "CREATED"
      BY <1>3, <1>4, <2>1, <2>2 DEF Book!vars
    <2>3. CASE r.code = "CREATED"
      <3>1. session[s].row = None
        BY <1>1, <2>3, SessionFacts DEF WorkOK
      <3>2. Repeating(s)
        <4>1. Resolving(s) => session[s].row # None
          BY <1>2, RowsTyped, NoneIsNoValue DEF Resolving
        <4> QED
          BY <1>1, <3>1, <4>1, SessionFacts DEF SessionOK, AtCommit
      <3>3. records[k] # None /\ records[k].digest = d /\ records[k].result = r
        BY <1>6, <3>2 DEF Repeating
      <3>4. PICK m \in movements: /\ m.position = d.position /\ m.delta = d.delta /\ m.op = d.op
                                  /\ m.version = d.expected + 1
                                  /\ m.version = r.version /\ m.after = r.sellable
        BY <1>2, <2>3, <3>3 DEF StockInv, RecordsInTheLedger, InTheLedger
      <3>5. Receipt(d, r) = Entry(m)
        <4>1. m.version - 1 = d.expected
          BY <1>2, <3>4, StockConstants
        <4> QED
          BY <3>4, <4>1 DEF Receipt, Entry
      <3>6. Book!Repeat(Entry(m))
        BY <1>3, <1>4, <2>1, <2>3, <3>5 DEF Book!Repeat
      <3> QED
        BY <3>6 DEF Book!Next
    <2> QED
      BY <2>2, <2>3
  <1> QED
    BY <1>5, <1>6 DEF CommitAdjust, Commit, OrphanCommits

(* The transaction of an adjustment, the retries and the lost COMMITs seem  *)
(* one step on the position (inventory/service.ts:62-76,                    *)
(* 0003_stock_cart.sql:37-47).                                              *)
THEOREM StockImplementsLedger == StockSpec => BookSpec
  <1>1. StockInit => Book!Init
    BY DEF StockInit, Init, Book!Init, Receipts, Receipt, Entry
  <1>2. StockInv /\ [StockNext]_allVars => [Book!Next]_(Book!vars)
    <2> SUFFICES ASSUME StockInv, [StockNext]_allVars PROVE [Book!Next]_(Book!vars)
      OBVIOUS
    <2>1. ASSUME NEW s \in Slots, CommitAdjust(s) PROVE [Book!Next]_(Book!vars)
      <3>1. CASE work[s] = None
        BY <2>1, <3>1, ReplayIsRepeat
      <3>2. CASE work[s] # None
        <4>1. Book!Adjust(session[s].digest)
          BY <2>1, <3>2, GrantIsAdjust
        <4>2. session[s].digest \in Digests
          <5>1. session[s].at # "idle"
            BY <2>1 DEF CommitAdjust, Commit, OrphanCommits
          <5> QED
            BY <5>1, SessionFacts DEF SessionOK, Serving
        <4> QED
          BY <4>1, <4>2 DEF Book!Next
      <3> QED
        BY <3>1, <3>2
    <2>2. CASE UNCHANGED <<stock, movements, answers>>
      BY <2>2 DEF Book!vars, Entry, Receipts, Receipt
    <2>3. \/ UNCHANGED <<stock, movements, answers>>
          \/ \E s \in Slots: CommitAdjust(s)
      BY DEF StockNext, StockStep, allVars, stockVars, vars, durable, EngineOnly, AuthorizeStaff,
             InsertMovement, FinishAdjust, RefuseAdjust, Discard, ReceiveAdjust, Revoke, Grant, Lapse, Ageing,
             Receive, TakeCommandLock, Authorize, ReadRecord, AnswerFromRecord, Start, Write, Succeed,
             Refuse, Fail, CommitRefused, CommitLost, OrphanAborts, ExpireRecord
    <2> QED
      BY <2>1, <2>2, <2>3
  <1> QED
    BY <1>1, <1>2, StockInvariant, PTL DEF StockSpec, BookSpec, Book!Spec
=============================================================================
