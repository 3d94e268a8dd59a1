--------------------------- MODULE CommandsProofs ---------------------------
(* Proofs about the command engine, for every number of connections, keys,  *)
(* inputs and outcomes.                                                     *)
EXTENDS Commands, TLAPS

USE ResultsAreDisjoint, NoneIsNoValue

(* A connection without a request is a session like any other.              *)
LEMMA IdleTyped == Idle \in Sessions
  BY DEF Idle, Sessions, Stages

(* The initial state, with nothing recorded, satisfies the invariant.       *)
LEMMA EngineInvInit == Init => EngineInv
  <1> SUFFICES ASSUME Init PROVE EngineInv
    OBVIOUS
  <1>1. TypeOK
    BY IdleTyped DEF Init, TypeOK
  <1>2. KeyMutex
    BY DEF Init, KeyMutex, Idle, LockedStages
  <1>3. SessionsOK
    BY DEF Init, SessionsOK, SessionOK, Serving, BeforeRecord, OldIsCurrent, RecordOpen, AtCommit, Idle
  <1>4. DurableOK
    BY DEF Init, DurableOK
  <1> QED
    BY <1>1, <1>2, <1>3, <1>4 DEF EngineInv

(* A step that gives one session a well-typed value keeps them all typed.   *)
LEMMA SessionTyped ==
    ASSUME session \in [Slots -> Sessions], NEW s \in Slots, NEW new \in Sessions,
           session' = [session EXCEPT ![s] = new]
    PROVE  session' \in [Slots -> Sessions]
  OBVIOUS

(* The records built by the engine are rows of the table.                   *)
LEMMA RowsTyped ==
    ASSUME NEW d \in Digests
    PROVE  /\ NewRow(d) \in Rows
           /\ \A r \in Results: CompletedRow(d, r) \in Rows
  BY DEF NewRow, CompletedRow, Rows

(* Every statement of a transaction keeps every variable in its type.       *)
LEMMA TypeStep == EngineInv /\ [Next]_vars => TypeOK'
  <1> SUFFICES ASSUME EngineInv, [Next]_vars PROVE TypeOK'
    OBVIOUS
  <1> USE DEF EngineInv, TypeOK, durable, vars
  <1>1. ASSUME NEW s \in Slots, NEW k \in Keys, NEW d \in Digests, Receive(s, k, d) PROVE TypeOK'
    <2>1. [Idle EXCEPT !.at = "begun", !.key = k, !.digest = d] \in Sessions
      BY DEF Idle, Sessions, Stages
    <2> QED
      BY <1>1, <2>1, SessionTyped, SMTT(30) DEF Receive
  <1>2. ASSUME NEW s \in Slots, TakeCommandLock(s) PROVE TypeOK'
    BY <1>2, SMTT(30) DEF TakeCommandLock, Sessions, Stages
  <1>3. ASSUME NEW s \in Slots, Authorize(s) PROVE TypeOK'
    BY <1>3, SMTT(30) DEF Authorize, Sessions, Stages
  <1>4. ASSUME NEW s \in Slots, ReadRecord(s) PROVE TypeOK'
    <2>1. session[s].key \in Keys
      BY <1>4 DEF ReadRecord, SessionsOK, SessionOK, Serving
    <2>2. ASSUME NEW o \in Rows \cup {None}, NEW b \in BOOLEAN
          PROVE  [session[s] EXCEPT !.at = "read", !.old = o, !.stale = b] \in Sessions
      <3>1. session[s] \in Sessions
        OBVIOUS
      <3> QED
        BY <3>1 DEF Sessions, Stages
    <2>3. PICK o \in Rows \cup {None}, b \in BOOLEAN:
            session' = [session EXCEPT ![s] = [session[s] EXCEPT !.at = "read", !.old = o, !.stale = b]]
      <3>1. records[session[s].key] \in Rows \cup {None}
        BY <2>1
      <3>2. (session[s].key \in expired) \in BOOLEAN
        OBVIOUS
      <3> QED
        BY <1>4, <3>1, <3>2 DEF ReadRecord
    <2> QED
      BY <1>4, <2>2, <2>3, SessionTyped DEF ReadRecord
  <1>5. ASSUME NEW s \in Slots, Deny(s) PROVE TypeOK'
    BY <1>5, SMTT(30) DEF Deny, Sessions, Stages
  <1>6. ASSUME NEW s \in Slots, AnswerFromRecord(s) PROVE TypeOK'
    <2>1. session[s].old.result \in Results \cup {None}
      BY <1>6 DEF AnswerFromRecord, Sessions, Rows
    <2>2. PICK r \in Results \cup {None}:
            session' = [session EXCEPT ![s] = [session[s] EXCEPT !.at = "committing", !.reply = r]]
      BY <1>6, <2>1 DEF AnswerFromRecord
    <2>3. [session[s] EXCEPT !.at = "committing", !.reply = r] \in Sessions
      <3>1. session[s] \in Sessions
        OBVIOUS
      <3> QED
        BY <3>1 DEF Sessions, Stages
    <2> QED
      BY <1>6, <2>2, <2>3, SessionTyped DEF AnswerFromRecord
  <1>7. ASSUME NEW s \in Slots, Start(s) PROVE TypeOK'
    <2> DEFINE new == [session[s] EXCEPT !.at = "started", !.row = NewRow(session[s].digest)]
    <2>1. NewRow(session[s].digest) \in Rows
      BY <1>7, RowsTyped DEF Start, SessionsOK, SessionOK, Serving
    <2>2. new \in Sessions
      BY <2>1, ZenonT(60) DEF Sessions, Stages
    <2>3. session' = [session EXCEPT ![s] = new]
      BY <1>7 DEF Start
    <2> QED
      BY <1>7, <2>2, <2>3, SessionTyped DEF Start
  <1>8. ASSUME NEW s \in Slots, Write(s) PROVE TypeOK'
    <2>1. [session[s] EXCEPT !.at = "wrote", !.effect = TRUE] \in Sessions
      BY ZenonT(60) DEF Sessions, Stages
    <2> QED
      BY <1>8, <2>1, SessionTyped DEF Write
  <1>9. ASSUME NEW s \in Slots, NEW r \in Results, NEW e \in BOOLEAN,
               session[s].at \in {"started", "wrote"}, Complete(s, r, e), UNCHANGED <<durable, answers>>
        PROVE  TypeOK'
    <2> DEFINE new == [session[s] EXCEPT !.at = "committing", !.reply = r, !.effect = e,
                                         !.row = CompletedRow(session[s].row.digest, r)]
    <2>1. session[s].row.digest = session[s].digest /\ session[s].digest \in Digests
      <3>1. session[s].row = NewRow(session[s].digest)
        BY <1>9 DEF SessionsOK, SessionOK, RecordOpen
      <3>2. session[s].digest \in Digests
        BY <1>9 DEF SessionsOK, SessionOK, Serving
      <3> QED
        BY <3>1, <3>2 DEF NewRow
    <2>2. new \in Sessions
      <3>1. session[s] \in Sessions /\ CompletedRow(session[s].row.digest, r) \in Rows
        BY <2>1, RowsTyped
      <3> QED
        BY <3>1 DEF Sessions, Stages
    <2>3. session' = [session EXCEPT ![s] = new]
      BY <1>9 DEF Complete
    <2> QED
      BY <1>9, <2>2, <2>3, SessionTyped
  <1>10. ASSUME NEW s \in Slots, session' = [session EXCEPT ![s] = Idle], UNCHANGED <<durable, answers>>
         PROVE  TypeOK'
    BY <1>10, IdleTyped, SessionTyped
  <1>11. ASSUME NEW s \in Slots, Install(s), session[s].at # "idle",
                session' = [session EXCEPT ![s] = Idle],
                \/ answers' = answers
                \/ /\ session[s].reply # None
                   /\ answers' = [answers EXCEPT ![session[s].key] =
                                    @ \cup {<<session[s].digest, session[s].reply>>}]
         PROVE  TypeOK'
    <2>1. session[s].key \in Keys /\ session[s].digest \in Digests
      BY <1>11 DEF SessionsOK, SessionOK, Serving
    <2>2. session[s].row \in Rows \cup {None} /\ session[s].reply \in Results \cup {None}
      BY DEF Sessions
    <2>3. records' \in [Keys -> Rows \cup {None}] /\ applied' \in [Keys -> Nat] /\ expired' = expired
      BY <1>11, <2>1, <2>2 DEF Install
    <2>4. answers' \in [Keys -> SUBSET (Digests \X Results)]
      BY <1>11, <2>1, <2>2
    <2> QED
      BY <1>11, <2>3, <2>4, IdleTyped, SessionTyped
  <1>12. ASSUME NEW s \in Slots, Fail(s) \/ CommitRefused(s) \/ OrphanAborts(s) PROVE TypeOK'
    BY <1>10, <1>12 DEF Fail, CommitRefused, OrphanAborts
  <1>13. ASSUME NEW s \in Slots, Commit(s) \/ OrphanCommits(s) PROVE TypeOK'
    BY <1>11, <1>13 DEF Commit, OrphanCommits
  <1>14. ASSUME NEW s \in Slots, CommitLost(s) PROVE TypeOK'
    BY <1>14, SMTT(30) DEF CommitLost, Sessions, Stages
  <1>15. ASSUME NEW s \in Slots, NEW r \in Successes, Succeed(s, r) PROVE TypeOK'
    <2>1. session[s].effect \in BOOLEAN
      BY DEF Sessions
    <2> QED
      BY <1>9, <1>15, <2>1 DEF Succeed, Results
  <1>16. ASSUME NEW s \in Slots, NEW r \in Refusals, Refuse(s, r) PROVE TypeOK'
    BY <1>9, <1>16 DEF Refuse, Results
  <1>17. ASSUME NEW k \in Keys, ExpireRecord(k) PROVE TypeOK'
    BY <1>17 DEF ExpireRecord
  <1>18. CASE UNCHANGED vars
    BY <1>18
  <1> QED
    BY <1>1, <1>2, <1>3, <1>4, <1>5, <1>6, <1>7, <1>8, <1>12, <1>13, <1>14, <1>15, <1>16,
       <1>17, <1>18 DEF Next, Step

(* Only a session that waited for the lock enters the locked stages, so the *)
(* lock's holders keep distinct keys.                                       *)
LEMMA KeyMutexStep == EngineInv /\ [Next]_vars => KeyMutex'
  <1> SUFFICES ASSUME EngineInv, [Next]_vars PROVE KeyMutex'
    OBVIOUS
  <1> USE DEF EngineInv, TypeOK, KeyMutex
  <1>1. ASSUME NEW s \in Slots, NEW new, session' = [session EXCEPT ![s] = new],
               new.at \in LockedStages => /\ session[s].at \in LockedStages
                                          /\ new.key = session[s].key
        PROVE  KeyMutex'
    BY <1>1
  <1>2. ASSUME NEW s \in Slots, TakeCommandLock(s) PROVE KeyMutex'
    <2> DEFINE new == [session[s] EXCEPT !.at = "locked"]
    <2>1. session' = [session EXCEPT ![s] = new] /\ new.key = session[s].key
      BY <1>2 DEF TakeCommandLock, Sessions
    <2>2. \A t \in Slots: session[t].at \in LockedStages => session[t].key # session[s].key
      BY <1>2 DEF TakeCommandLock, HoldsKey
    <2>3. \A t \in Slots \ {s}: session'[t] = session[t]
      BY <2>1
    <2>4. session'[s].key = session[s].key
      BY <2>1
    <2> QED
      BY <2>2, <2>3, <2>4
  <1>3. ASSUME NEW s \in Slots, NEW k \in Keys, NEW d \in Digests, Receive(s, k, d) PROVE KeyMutex'
    <2>1. [Idle EXCEPT !.at = "begun", !.key = k, !.digest = d].at \notin LockedStages
      BY DEF Idle, LockedStages
    <2> QED
      BY <1>1, <1>3, <2>1 DEF Receive
  <1>4. ASSUME NEW s \in Slots, session' = [session EXCEPT ![s] = Idle] PROVE KeyMutex'
    <2>1. Idle.at \notin LockedStages
      BY DEF Idle, LockedStages
    <2> QED
      BY <1>1, <1>4, <2>1
  <1>5. ASSUME NEW s \in Slots,
               Fail(s) \/ Commit(s) \/ CommitRefused(s) \/ OrphanCommits(s) \/ OrphanAborts(s)
        PROVE  KeyMutex'
    BY <1>4, <1>5 DEF Fail, Commit, CommitRefused, OrphanCommits, OrphanAborts
  <1>6. ASSUME NEW s \in Slots, NEW a \in Stages, session[s].at \in LockedStages,
               session' = [session EXCEPT ![s].at = a]
        PROVE  KeyMutex'
    <2>1. [session[s] EXCEPT !.at = a].key = session[s].key
      BY DEF Sessions
    <2> QED
      BY <1>1, <1>6, <2>1
  <1>7. ASSUME NEW s \in Slots, Authorize(s) \/ Deny(s) \/ CommitLost(s) PROVE KeyMutex'
    BY <1>6, <1>7 DEF Authorize, Deny, CommitLost, Stages, LockedStages
  <1>8. ASSUME NEW s \in Slots, session[s].at \in LockedStages,
               session'[s].key = session[s].key,
               session' = [session EXCEPT ![s] = session'[s]]
        PROVE  KeyMutex'
    BY <1>1, <1>8
  <1>9. ASSUME NEW s \in Slots, ReadRecord(s) \/ AnswerFromRecord(s) \/ Start(s) \/ Write(s)
        PROVE  KeyMutex'
    <2>1. session[s] \in Sessions
      OBVIOUS
    <2>2. session[s].at \in LockedStages
      BY <1>9 DEF ReadRecord, AnswerFromRecord, Start, Write, LockedStages
    <2>3. CASE ReadRecord(s)
      BY <1>8, <2>1, <2>2, <2>3 DEF ReadRecord, Sessions
    <2>4. CASE AnswerFromRecord(s)
      BY <1>8, <2>1, <2>2, <2>4 DEF AnswerFromRecord, Sessions
    <2>5. CASE Start(s)
      BY <1>8, <2>1, <2>2, <2>5 DEF Start, Sessions
    <2>6. CASE Write(s)
      BY <1>8, <2>1, <2>2, <2>6 DEF Write, Sessions
    <2> QED
      BY <1>9, <2>3, <2>4, <2>5, <2>6
  <1>10. ASSUME NEW s \in Slots, NEW r, Succeed(s, r) PROVE KeyMutex'
    <2>1. session[s] \in Sessions /\ session[s].at \in LockedStages
      BY <1>10 DEF Succeed, LockedStages
    <2> QED
      BY <1>8, <1>10, <2>1 DEF Succeed, Complete, Sessions
  <1>11. ASSUME NEW s \in Slots, NEW r, Refuse(s, r) PROVE KeyMutex'
    <2>1. session[s] \in Sessions /\ session[s].at \in LockedStages
      BY <1>11 DEF Refuse, LockedStages
    <2> QED
      BY <1>8, <1>11, <2>1 DEF Refuse, Complete, Sessions
  <1>12. CASE UNCHANGED session
    BY <1>12
  <1> QED
    BY <1>2, <1>3, <1>5, <1>7, <1>9, <1>10, <1>11, <1>12 DEF Next, Step, vars, ExpireRecord

(* A step of one session leaves the others consistent: what they know of    *)
(* the table concerns their own key, which their lock protects.             *)
LEMMA OthersKept ==
    ASSUME EngineInv, NEW s \in Slots, NEW new, session' = [session EXCEPT ![s] = new],
           \/ records' = records
           \/ /\ session[s].at \in LockedStages
              /\ \A k \in Keys \ {session[s].key}: records'[k] = records[k],
           NEW t \in Slots \ {s}
    PROVE  SessionOK(t)'
  <1> USE DEF EngineInv, TypeOK
  <1>1. session'[t] = session[t]
    OBVIOUS
  <1>2. SessionOK(t)
    BY DEF SessionsOK
  <1>3. session[t].at \in LockedStages => records'[session[t].key] = records[session[t].key]
    <2> SUFFICES ASSUME session[t].at \in LockedStages
                 PROVE  records'[session[t].key] = records[session[t].key]
      OBVIOUS
    <2>1. session[t].key \in Keys
      BY <1>2 DEF SessionOK, Serving, LockedStages
    <2>2. CASE records' = records
      BY <2>2
    <2>3. CASE /\ session[s].at \in LockedStages
               /\ \A k \in Keys \ {session[s].key}: records'[k] = records[k]
      <3>1. session[t].key # session[s].key
        BY <2>3 DEF KeyMutex
      <3> QED
        BY <2>1, <2>3, <3>1
    <2> QED
      BY <2>2, <2>3
  <1>4. (Serving(t) /\ BeforeRecord(t))'
    BY <1>1, <1>2 DEF SessionOK, Serving, BeforeRecord
  <1>5. OldIsCurrent(t)'
    BY <1>1, <1>2, <1>3 DEF SessionOK, OldIsCurrent, LockedStages
  <1>6. RecordOpen(t)'
    BY <1>1, <1>2, <1>3 DEF SessionOK, RecordOpen, LockedStages
  <1>7. AtCommit(t)'
    BY <1>1, <1>2, <1>3 DEF SessionOK, AtCommit, Resolving, Repeating, LockedStages
  <1> QED
    BY <1>4, <1>5, <1>6, <1>7 DEF SessionOK

(* Each statement leaves its own session in a state its stage allows.       *)
LEMMA SessionsStep == EngineInv /\ [Next]_vars => SessionsOK'
  <1> SUFFICES ASSUME EngineInv, [Next]_vars PROVE SessionsOK'
    OBVIOUS
  <1> USE DEF EngineInv, TypeOK, durable
  <1>a. \A s \in Slots: session[s] \in Sessions /\ SessionOK(s)
    BY DEF SessionsOK
  <1>b. ASSUME NEW s \in Slots, NEW new, session' = [session EXCEPT ![s] = new],
               \/ records' = records
               \/ /\ session[s].at \in LockedStages
                  /\ \A k \in Keys \ {session[s].key}: records'[k] = records[k],
               SessionOK(s)'
        PROVE  SessionsOK'
    BY <1>b, OthersKept DEF SessionsOK
  <1>1. ASSUME NEW s \in Slots, NEW k \in Keys, NEW d \in Digests, Receive(s, k, d) PROVE SessionsOK'
    <2>1. session'[s].at = "begun" /\ session'[s].key = k /\ session'[s].digest = d
          /\ session'[s].row = None /\ session'[s].effect = FALSE /\ session'[s].reply = None
      BY <1>1 DEF Receive, Idle
    <2>2. SessionOK(s)'
      BY <2>1 DEF SessionOK, Serving, BeforeRecord, OldIsCurrent, RecordOpen, AtCommit
    <2> QED
      BY <1>1, <1>b, <2>2 DEF Receive
  <1>2. ASSUME NEW s \in Slots, NEW a \in {"locked", "authorized"}, session[s].at \in {"begun", "locked"},
               session' = [session EXCEPT ![s].at = a], UNCHANGED durable
        PROVE  SessionsOK'
    <2>1. SessionOK(s)'
      BY <1>2, <1>a DEF SessionOK, Serving, BeforeRecord, OldIsCurrent, RecordOpen, AtCommit, Sessions
    <2> QED
      BY <1>2, <1>b, <2>1
  <1>3. ASSUME NEW s \in Slots, TakeCommandLock(s) \/ Authorize(s) PROVE SessionsOK'
    BY <1>2, <1>3 DEF TakeCommandLock, Authorize
  <1>4. ASSUME NEW s \in Slots, ReadRecord(s) PROVE SessionsOK'
    <2>1. session'[s].at = "read" /\ session'[s].old = records[session[s].key]
          /\ session'[s].key = session[s].key /\ session'[s].digest = session[s].digest
          /\ session'[s].row = session[s].row /\ session'[s].effect = session[s].effect
          /\ session'[s].reply = session[s].reply
      BY <1>4, <1>a DEF ReadRecord, Sessions
    <2>2. SessionOK(s)'
      BY <1>4, <1>a, <2>1
      DEF ReadRecord, SessionOK, Serving, BeforeRecord, OldIsCurrent, RecordOpen, AtCommit
    <2> QED
      BY <1>4, <1>b, <2>2 DEF ReadRecord
  <1>5. ASSUME NEW s \in Slots, Deny(s) PROVE SessionsOK'
    <2>1. SessionOK(s)'
      BY <1>5, <1>a
      DEF Deny, SessionOK, Serving, BeforeRecord, OldIsCurrent, RecordOpen, AtCommit, Repeating, Sessions
    <2> QED
      BY <1>5, <1>b, <2>1 DEF Deny
  <1>6. ASSUME NEW s \in Slots, AnswerFromRecord(s) PROVE SessionsOK'
    <2>1. session[s].row = None /\ session[s].effect = FALSE
          /\ session[s].old = records[session[s].key] /\ session[s].old # None
          /\ session[s].key \in Keys /\ session[s].digest \in Digests
      BY <1>6, <1>a DEF AnswerFromRecord, SessionOK, Serving, BeforeRecord, OldIsCurrent
    <2>2. session'[s].at = "committing" /\ session'[s].row = None /\ session'[s].effect = FALSE
          /\ session'[s].key = session[s].key /\ session'[s].digest = session[s].digest
      BY <1>6, <1>a, <2>1 DEF AnswerFromRecord, Sessions
    <2>3. session'[s].reply # None =>
            session[s].old.digest = session[s].digest /\ session'[s].reply = session[s].old.result
      BY <1>6, <1>a DEF AnswerFromRecord, Sessions
    <2>4. Repeating(s)'
      BY <1>6, <2>1, <2>2, <2>3 DEF Repeating, AnswerFromRecord
    <2>5. SessionOK(s)'
      BY <2>1, <2>2, <2>4 DEF SessionOK, Serving, BeforeRecord, OldIsCurrent, RecordOpen, AtCommit
    <2> QED
      BY <1>6, <1>b, <2>5 DEF AnswerFromRecord
  <1>7. ASSUME NEW s \in Slots, Start(s) PROVE SessionsOK'
    <2>1. session'[s].at = "started" /\ session'[s].row = NewRow(session[s].digest)
          /\ session'[s].key = session[s].key /\ session'[s].digest = session[s].digest
          /\ session'[s].effect = session[s].effect
      BY <1>7, <1>a DEF Start, Sessions
    <2>2. SessionOK(s)'
      BY <1>7, <1>a, <2>1
      DEF Start, SessionOK, Serving, BeforeRecord, OldIsCurrent, RecordOpen, AtCommit
    <2> QED
      BY <1>7, <1>b, <2>2 DEF Start
  <1>8. ASSUME NEW s \in Slots, Write(s) PROVE SessionsOK'
    <2>1. session'[s].at = "wrote" /\ session'[s].effect = TRUE /\ session'[s].row = session[s].row
          /\ session'[s].key = session[s].key /\ session'[s].digest = session[s].digest
      BY <1>8, <1>a DEF Write, Sessions
    <2>2. SessionOK(s)'
      BY <1>8, <1>a, <2>1
      DEF Write, SessionOK, Serving, BeforeRecord, OldIsCurrent, RecordOpen, AtCommit
    <2> QED
      BY <1>8, <1>b, <2>2 DEF Write
  <1>9. ASSUME NEW s \in Slots, NEW r \in Results, NEW e \in BOOLEAN, e <=> r \in Successes,
               session[s].at \in {"started", "wrote"}, UNCHANGED durable,
               session' = [session EXCEPT ![s] =
                   [session[s] EXCEPT !.at = "committing", !.reply = r, !.effect = e,
                                      !.row = CompletedRow(session[s].row.digest, r)]]
        PROVE  SessionsOK'
    <2>1. session[s].row.digest = session[s].digest /\ records[session[s].key] = None
          /\ session[s].key \in Keys /\ session[s].digest \in Digests
      <3>1. session[s].at \in {"started", "wrote"}
        BY <1>9
      <3>2. session[s].row = NewRow(session[s].digest) /\ records[session[s].key] = None
        BY <3>1, <1>a DEF SessionOK, RecordOpen
      <3>3. session[s].key \in Keys /\ session[s].digest \in Digests
        BY <3>1, <1>a DEF SessionOK, Serving
      <3> QED
        BY <3>2, <3>3 DEF NewRow
    <2>2. session'[s].at = "committing" /\ session'[s].reply = r /\ session'[s].effect = e
          /\ session'[s].row = CompletedRow(session[s].digest, r)
          /\ session'[s].key = session[s].key /\ session'[s].digest = session[s].digest
      BY <1>9, <1>a, <2>1 DEF Sessions
    <2>3. Resolving(s)'
      BY <1>9, <2>1, <2>2 DEF Resolving
    <2>4. SessionOK(s)'
      BY <2>1, <2>2, <2>3 DEF SessionOK, Serving, BeforeRecord, OldIsCurrent, RecordOpen, AtCommit
    <2> QED
      BY <1>9, <1>b, <2>4
  <1>10. ASSUME NEW s \in Slots, NEW r \in Successes, Succeed(s, r) PROVE SessionsOK'
    <2>1. session[s].effect = TRUE
      BY <1>10, <1>a DEF Succeed, SessionOK, RecordOpen
    <2> QED
      BY <1>9, <1>10, <2>1 DEF Succeed, Complete, Results
  <1>11. ASSUME NEW s \in Slots, NEW r \in Refusals, Refuse(s, r) PROVE SessionsOK'
    <2>1. r \in Results /\ r \notin Successes
      BY DEF Results
    <2> QED
      BY <1>9, <1>11, <2>1 DEF Refuse, Complete
  <1>12. ASSUME NEW s \in Slots, session' = [session EXCEPT ![s] = Idle],
                \/ records' = records
                \/ /\ session[s].at \in LockedStages
                   /\ \A k \in Keys \ {session[s].key}: records'[k] = records[k]
         PROVE  SessionsOK'
    <2>1. SessionOK(s)'
      BY <1>12 DEF SessionOK, Serving, BeforeRecord, OldIsCurrent, RecordOpen, AtCommit, Idle
    <2> QED
      BY <1>12, <1>b, <2>1
  <1>13. ASSUME NEW s \in Slots, Fail(s) \/ CommitRefused(s) \/ OrphanAborts(s) PROVE SessionsOK'
    BY <1>12, <1>13 DEF Fail, CommitRefused, OrphanAborts
  <1>14. ASSUME NEW s \in Slots, Commit(s) \/ OrphanCommits(s) PROVE SessionsOK'
    <2>1. session[s].at \in LockedStages
      BY <1>14 DEF Commit, OrphanCommits, LockedStages
    <2>2. \A k \in Keys \ {session[s].key}: records'[k] = records[k]
      BY <1>14 DEF Commit, OrphanCommits, Install
    <2> QED
      BY <1>12, <1>14, <2>1, <2>2 DEF Commit, OrphanCommits
  <1>15. ASSUME NEW s \in Slots, CommitLost(s) PROVE SessionsOK'
    <2>1. session'[s].at = "orphan" /\ session'[s].row = session[s].row
          /\ session'[s].effect = session[s].effect /\ session'[s].reply = session[s].reply
          /\ session'[s].key = session[s].key /\ session'[s].digest = session[s].digest
      BY <1>15, <1>a DEF CommitLost, Sessions
    <2>2. SessionOK(s)'
      BY <1>15, <1>a, <2>1
      DEF CommitLost, SessionOK, Serving, BeforeRecord, OldIsCurrent, RecordOpen, AtCommit, Resolving, Repeating
    <2> QED
      BY <1>15, <1>b, <2>2 DEF CommitLost
  <1>16. CASE UNCHANGED <<session, records>>
    BY <1>16 DEF SessionsOK, SessionOK, Serving, BeforeRecord, OldIsCurrent, RecordOpen, AtCommit,
                 Resolving, Repeating
  <1> QED
    BY <1>1, <1>3, <1>4, <1>5, <1>6, <1>7, <1>8, <1>10, <1>11, <1>13, <1>14, <1>15, <1>16
    DEF Next, Step, vars, ExpireRecord

(* What the server installs for a session is either a first resolution, or  *)
(* nothing at all (a denial, a 409, a replay).                              *)
LEMMA InstallCases ==
    ASSUME EngineInv, NEW s \in Slots, session[s].at \in {"committing", "orphan"}, Install(s)
    PROVE  /\ session[s].key \in Keys /\ session[s].digest \in Digests
           /\ \/ /\ Resolving(s)
                 /\ records' = [records EXCEPT ![session[s].key] =
                                  CompletedRow(session[s].digest, session[s].reply)]
                 /\ applied' = [applied EXCEPT ![session[s].key] =
                                  IF session[s].reply \in Successes THEN 1 ELSE 0]
              \/ Repeating(s) /\ records' = records /\ applied' = applied
  <1> USE DEF EngineInv, TypeOK
  <1>1. SessionOK(s)
    BY DEF SessionsOK
  <1>2. session[s].key \in Keys /\ session[s].digest \in Digests
    BY <1>1 DEF SessionOK, Serving
  <1>3. CASE Resolving(s)
    <2>1. applied[session[s].key] = 0
      BY <1>2, <1>3 DEF Resolving, DurableOK
    <2>2. session[s].row = CompletedRow(session[s].digest, session[s].reply)
      BY <1>3 DEF Resolving
    <2>3. session[s].row # None
      BY <1>2, <1>3, <2>2, RowsTyped DEF Resolving
    <2>4. session[s].effect <=> session[s].reply \in Successes
      BY <1>3 DEF Resolving
    <2>5. records' = [records EXCEPT ![session[s].key] =
                        CompletedRow(session[s].digest, session[s].reply)]
      BY <2>2, <2>3 DEF Install
    <2>6. applied' = [applied EXCEPT ![session[s].key] =
                        IF session[s].reply \in Successes THEN 1 ELSE 0]
      <3>1. CASE session[s].reply \in Successes
        BY <1>2, <2>1, <2>4, <3>1 DEF Install
      <3>2. CASE session[s].reply \notin Successes
        BY <1>2, <2>1, <2>4, <3>2 DEF Install
      <3> QED
        BY <3>1, <3>2
    <2> QED
      BY <1>2, <1>3, <2>5, <2>6
  <1>4. CASE Repeating(s)
    BY <1>2, <1>4 DEF Install, Repeating
  <1> QED
    BY <1>1, <1>3, <1>4 DEF SessionOK, AtCommit

(* The result a session answers at its COMMIT, if any.                      *)
Told(s) == IF session[s].reply = None THEN {} ELSE {<<session[s].digest, session[s].reply>>}

(* A COMMIT that is answered tells the caller exactly that.                 *)
LEMMA CommitAnswers ==
    ASSUME EngineInv, NEW s \in Slots, Commit(s)
    PROVE  answers' = [answers EXCEPT ![session[s].key] = @ \cup Told(s)]
  BY DEF Commit, Told, EngineInv, TypeOK

(* Committed records, effects and answers stay consistent with each other.  *)
LEMMA DurableStep == EngineInv /\ [Next]_vars => DurableOK'
  <1> SUFFICES ASSUME EngineInv, [Next]_vars PROVE DurableOK'
    OBVIOUS
  <1> USE DEF EngineInv, TypeOK
  <1>1. CASE UNCHANGED <<records, applied, answers>>
    BY <1>1 DEF DurableOK
  <1>2. ASSUME NEW s \in Slots, Commit(s) \/ OrphanCommits(s) PROVE DurableOK'
    <2> DEFINE k0 == session[s].key
    <2>1. session[s].at \in {"committing", "orphan"} /\ Install(s)
      BY <1>2 DEF Commit, OrphanCommits
    <2>2. k0 \in Keys /\ session[s].digest \in Digests
      BY <2>1, InstallCases
    <2>3. PICK told \in SUBSET Told(s): answers' = [answers EXCEPT ![k0] = @ \cup told]
      <3>1. CASE Commit(s)
        BY <3>1, CommitAnswers
      <3>2. CASE OrphanCommits(s)
        <4>1. answers' = [answers EXCEPT ![k0] = @ \cup {}]
          BY <3>2 DEF OrphanCommits
        <4> QED
          BY <4>1
      <3> QED
        BY <1>2, <3>1, <3>2
    <2>4. told \subseteq {<<session[s].digest, session[s].reply>>}
      BY DEF Told
    <2>5. session[s].reply = None => told = {}
      BY DEF Told
    <2>6. CASE /\ Resolving(s)
               /\ records' = [records EXCEPT ![k0] = CompletedRow(session[s].digest, session[s].reply)]
               /\ applied' = [applied EXCEPT ![k0] = IF session[s].reply \in Successes THEN 1 ELSE 0]
      <3>1. answers[k0] = {} /\ session[s].reply \in Results
        BY <2>2, <2>6 DEF Resolving, DurableOK
      <3>2. records'[k0] = CompletedRow(session[s].digest, session[s].reply) /\ records'[k0] # None
        BY <2>2, <2>6, <3>1, RowsTyped
      <3>3. answers'[k0] \subseteq {<<records'[k0].digest, records'[k0].result>>}
        BY <2>2, <2>3, <2>4, <3>1, <3>2 DEF CompletedRow
      <3>4. \A k \in Keys \ {k0}: records'[k] = records[k] /\ applied'[k] = applied[k] /\ answers'[k] = answers[k]
        BY <2>3, <2>6
      <3>5. applied'[k0] = (IF session[s].reply \in Successes THEN 1 ELSE 0)
        BY <2>2, <2>6
      <3> QED
        BY <3>1, <3>2, <3>3, <3>4, <3>5 DEF DurableOK, CompletedRow
    <2>7. CASE Repeating(s) /\ records' = records /\ applied' = applied
      <3>1. told # {} => records[k0] # None /\ told \subseteq {<<records[k0].digest, records[k0].result>>}
        BY <2>4, <2>5, <2>7 DEF Repeating
      <3>2. \A k \in Keys: answers'[k] = IF k = k0 THEN answers[k0] \cup told ELSE answers[k]
        BY <2>2, <2>3
      <3> QED
        BY <2>2, <2>7, <3>1, <3>2 DEF DurableOK
    <2> QED
      BY <2>1, <2>6, <2>7, InstallCases
  <1>3. [Next]_vars => \/ UNCHANGED <<records, applied, answers>>
                       \/ \E s \in Slots: Commit(s) \/ OrphanCommits(s)
    BY DEF Next, Step, vars, durable, Receive, TakeCommandLock, Authorize, ReadRecord, Deny,
           AnswerFromRecord, Start, Write, Succeed, Refuse, Fail, CommitRefused, CommitLost,
           OrphanAborts, ExpireRecord
  <1> QED
    BY <1>1, <1>2, <1>3

(* Every statement of every transaction keeps the invariant.                *)
LEMMA EngineInvStep == EngineInv /\ [Next]_vars => EngineInv'
  BY TypeStep, KeyMutexStep, SessionsStep, DurableStep DEF EngineInv

(* The inductive invariant of the engine.                                   *)
THEOREM EngineInvariant == Spec => []EngineInv
  BY EngineInvInit, EngineInvStep, PTL DEF Spec

(* The variables keep their types: Commands.run over every scope.           *)
THEOREM EngineTyped == Spec => []TypeOK
  BY EngineInvariant, PTL DEF EngineInv

(* No key takes effect twice, however attempts, timeouts and lost COMMITs   *)
(* interleave.                                                              *)
THEOREM AtMostOnce == Spec => []EffectAtMostOnce
  <1>1. EngineInv => EffectAtMostOnce
    BY DEF EngineInv, TypeOK, DurableOK, EffectAtMostOnce
  <1> QED
    BY <1>1, EngineInvariant, PTL

(* Committed records are complete and agree with the committed effects.     *)
THEOREM AllOrNothing == Spec => []NoHalfDoneCommand
  <1>1. EngineInv => NoHalfDoneCommand
    BY DEF EngineInv, TypeOK, DurableOK, NoHalfDoneCommand
  <1> QED
    BY <1>1, EngineInvariant, PTL

(* Every result shown to a caller is the stored one.                        *)
THEOREM AnswersHold == Spec => []AnswersAreDurable
  <1>1. EngineInv => AnswersAreDurable
    BY DEF EngineInv, TypeOK, DurableOK, AnswersAreDurable
  <1> QED
    BY <1>1, EngineInvariant, PTL

(* A committed outcome survives every later step.                           *)
THEOREM OutcomesFixed == Spec => OutcomesNeverChange
  <1>1. EngineInv /\ [Next]_vars => [\A k \in Keys: records[k] # None => records'[k] = records[k]]_records
    <2> SUFFICES ASSUME EngineInv, [Next]_vars, records' # records, NEW k \in Keys, records[k] # None
                 PROVE  records'[k] = records[k]
      OBVIOUS
    <2>1. PICK s \in Slots: Commit(s) \/ OrphanCommits(s)
      BY DEF Next, Step, vars, durable, Receive, TakeCommandLock, Authorize, ReadRecord, Deny,
             AnswerFromRecord, Start, Write, Succeed, Refuse, Fail, CommitRefused, CommitLost,
             OrphanAborts, ExpireRecord
    <2>2. session[s].at \in {"committing", "orphan"} /\ Install(s)
      BY <2>1 DEF Commit, OrphanCommits
    <2>3. Resolving(s) /\ records' = [records EXCEPT ![session[s].key] =
                                        CompletedRow(session[s].digest, session[s].reply)]
      BY <2>2, InstallCases
    <2>4. session[s].key # k
      BY <2>3 DEF Resolving
    <2> QED
      BY <2>3, <2>4 DEF EngineInv, TypeOK
  <1> QED
    BY <1>1, EngineInvariant, PTL DEF Spec, OutcomesNeverChange

(* Committing a first outcome is the abstract resolution of its key.        *)
LEMMA InstallRefines ==
    ASSUME EngineInv, NEW s \in Slots, session[s].at \in {"committing", "orphan"}, Install(s),
           answers' = answers \/ answers' = [answers EXCEPT ![session[s].key] = @ \cup Told(s)]
    PROVE  [Once!Next]_(Once!vars)
  <1> DEFINE o == [digest |-> session[s].digest, result |-> session[s].reply]
  <1> USE DEF EngineInv, TypeOK
  <1>0. PICK k \in Keys: k = session[s].key
    BY InstallCases
  <1>1. k = session[s].key /\ session[s].digest \in Digests
    BY <1>0, InstallCases
  <1>a. answers' = answers \/ answers' = [answers EXCEPT ![k] = @ \cup Told(s)]
    BY <1>0
  <1>2. CASE /\ Resolving(s)
             /\ records' = [records EXCEPT ![k] = CompletedRow(session[s].digest, session[s].reply)]
             /\ applied' = [applied EXCEPT ![k] = IF session[s].reply \in Successes THEN 1 ELSE 0]
    <2>1. records[k] = None /\ applied[k] = 0 /\ session[s].reply \in Results
      BY <1>1, <1>2 DEF Resolving, DurableOK
    <2>2. o \in Once!Outcomes /\ o # None
      BY <1>1, <2>1 DEF Once!Outcomes, Results, Resolutions
    <2>3. records'[k] # None /\ Outcome(k)' = o
      <3>1. records'[k] = CompletedRow(session[s].digest, session[s].reply)
        BY <1>1, <1>2
      <3>2. records'[k] # None
        BY <1>1, <2>1, <3>1, RowsTyped
      <3>3. Outcome(k)' = [digest |-> records'[k].digest, result |-> records'[k].result]
        BY <3>2 DEF Outcome
      <3>4. records'[k].digest = o.digest /\ records'[k].result = o.result
        BY <3>1 DEF CompletedRow
      <3> QED
        BY <3>2, <3>3, <3>4
    <2>4. [j \in Keys |-> Outcome(j)]' = [[j \in Keys |-> Outcome(j)] EXCEPT ![k] = o]
      <3>1. ASSUME NEW j \in Keys \ {k} PROVE Outcome(j)' = Outcome(j)
        <4>1. records'[j] = records[j]
          BY <1>1, <1>2
        <4> QED
          BY <4>1 DEF Outcome
      <3> QED
        BY <1>1, <2>3, <3>1
    <2>5. applied' = [applied EXCEPT ![k] = IF o.result \in Successes THEN @ + 1 ELSE @]
      BY <1>1, <1>2, <2>1
    <2>6. Told(s) = {<<o.digest, o.result>>}
      BY <2>1 DEF Told
    <2>7. [j \in Keys |-> Outcome(j)][k] = None
      BY <1>1, <2>1 DEF Outcome
    <2>8. Once!Resolve(k, o)
      BY <1>a, <2>4, <2>5, <2>6, <2>7 DEF Once!Resolve
    <2> QED
      BY <1>1, <2>2, <2>8 DEF Once!Next
  <1>3. CASE Repeating(s) /\ records' = records /\ applied' = applied
    <2>1. [j \in Keys |-> Outcome(j)]' = [j \in Keys |-> Outcome(j)]
      BY <1>3 DEF Outcome
    <2>2. CASE answers' = answers
      BY <1>3, <2>1, <2>2 DEF Once!vars
    <2>3. CASE session[s].reply = None /\ answers' = [answers EXCEPT ![k] = @ \cup Told(s)]
      BY <1>1, <1>3, <2>1, <2>3 DEF Once!vars, Told
    <2>4. CASE session[s].reply # None /\ answers' = [answers EXCEPT ![k] = @ \cup Told(s)]
      <3>1. Outcome(k) = o /\ Outcome(k) # None
        <4>1. records[k] # None /\ records[k].digest = session[s].digest
              /\ records[k].result = session[s].reply
          BY <1>1, <1>3, <2>4 DEF Repeating
        <4>2. session[s].reply \in Results
          BY <2>4 DEF Sessions
        <4>3. o \in Resolutions
          BY <1>1, <4>2 DEF Resolutions
        <4> QED
          BY <4>1, <4>3 DEF Outcome
      <3>2. Once!Answer(k)
        <4>1. [j \in Keys |-> Outcome(j)][k] = o
          BY <1>1, <3>1
        <4>2. Told(s) = {<<o.digest, o.result>>}
          BY <2>4 DEF Told
        <4> QED
          BY <1>1, <1>3, <2>1, <2>4, <3>1, <4>1, <4>2 DEF Once!Answer
      <3> QED
        BY <1>1, <3>2 DEF Once!Next
    <2> QED
      BY <1>a, <2>2, <2>3, <2>4
  <1> QED
    BY <1>1, <1>2, <1>3, InstallCases

(* The engine implements OnceOnly: locks, savepoints, retries and orphaned  *)
(* COMMITs are invisible behind one resolution per key.                     *)
THEOREM EngineRefinesOnceOnly == Spec => OnceSpec
  <1>1. Init => Once!Init
    BY DEF Init, Once!Init, Outcome
  <1>2. EngineInv /\ [Next]_vars => [Once!Next]_(Once!vars)
    <2> SUFFICES ASSUME EngineInv, [Next]_vars PROVE [Once!Next]_(Once!vars)
      OBVIOUS
    <2>1. ASSUME NEW s \in Slots, Commit(s) PROVE [Once!Next]_(Once!vars)
      BY <2>1, CommitAnswers, InstallRefines DEF Commit
    <2>2. ASSUME NEW s \in Slots, OrphanCommits(s) PROVE [Once!Next]_(Once!vars)
      BY <2>2, InstallRefines DEF OrphanCommits
    <2>3. CASE UNCHANGED <<records, applied, answers>>
      BY <2>3 DEF Once!vars, Outcome
    <2>4. \/ UNCHANGED <<records, applied, answers>>
          \/ \E s \in Slots: Commit(s) \/ OrphanCommits(s)
      BY DEF Next, Step, vars, durable, Receive, TakeCommandLock, Authorize, ReadRecord, Deny,
             AnswerFromRecord, Start, Write, Succeed, Refuse, Fail, CommitRefused, CommitLost,
             OrphanAborts, ExpireRecord
    <2> QED
      BY <2>1, <2>2, <2>3, <2>4
  <1> QED
    BY <1>1, <1>2, EngineInvariant, PTL DEF Spec, OnceSpec, Once!Spec
=============================================================================
