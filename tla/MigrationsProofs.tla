-------------------------- MODULE MigrationsProofs --------------------------
(* Proofs about migrations and readiness, for any folders of migrations,    *)
(* any number of runs and processes, and any number of failures.            *)
EXTENDS Migrations, SequenceTheorems, TLAPS

(* A prefix agrees with the whole, position by position.                    *)
LEMMA PrefixMeans ==
    ASSUME NEW S, NEW s \in Seq(S), NEW t \in Seq(S)
    PROVE  IsPrefix(s, t) <=> Len(s) <= Len(t) /\ \A i \in 1..Len(s): s[i] = t[i]
  <1> SUFFICES ASSUME Len(s) <= Len(t)
               PROVE  SubSeq(s, 1, Len(s)) = SubSeq(t, 1, Len(s)) <=> \A i \in 1..Len(s): s[i] = t[i]
    BY DEF IsPrefix
  <1>1. SubSeq(s, 1, Len(s)) = s
    BY SubSeqFull
  <1>2. /\ SubSeq(t, 1, Len(s)) \in Seq(S)
        /\ Len(SubSeq(t, 1, Len(s))) = Len(s)
        /\ \A i \in 1..Len(s): SubSeq(t, 1, Len(s))[i] = t[i]
    OBVIOUS
  <1>3. (\A i \in 1..Len(s): s[i] = t[i]) => s = SubSeq(t, 1, Len(s))
    BY <1>2, SeqEqual, Zenon
  <1> QED
    BY <1>1, <1>2, <1>3

(* Prefixes of prefixes are prefixes.                                       *)
LEMMA PrefixOfPrefix ==
    ASSUME NEW S, NEW s \in Seq(S), NEW t \in Seq(S), NEW u \in Seq(S),
           IsPrefix(s, t), IsPrefix(t, u)
    PROVE  IsPrefix(s, u)
  <1>1. /\ Len(s) <= Len(t) /\ \A i \in 1..Len(s): s[i] = t[i]
        /\ Len(t) <= Len(u) /\ \A i \in 1..Len(t): t[i] = u[i]
    BY PrefixMeans
  <1>2. Len(s) <= Len(u) /\ \A i \in 1..Len(s): s[i] = u[i]
    BY <1>1
  <1> QED
    BY <1>2, PrefixMeans

(* A sequence is a prefix of itself, and of what is appended to it.         *)
LEMMA PrefixOfConcat ==
    ASSUME NEW S, NEW s \in Seq(S), NEW t \in Seq(S)
    PROVE  IsPrefix(s, s) /\ IsPrefix(<<>>, s) /\ IsPrefix(s, s \o t)
  <1>1. s \o t \in Seq(S) /\ <<>> \in Seq(S)
    OBVIOUS
  <1>2. Len(s) <= Len(s \o t) /\ \A i \in 1..Len(s): s[i] = (s \o t)[i]
    OBVIOUS
  <1>3. IsPrefix(s, s \o t)
    <2> DEFINE u == s \o t
    <2>1. u \in Seq(S) /\ Len(s) <= Len(u) /\ \A i \in 1..Len(s): s[i] = u[i]
      BY <1>1, <1>2
    <2> HIDE DEF u
    <2>2. IsPrefix(s, u)
      BY <2>1, PrefixMeans
    <2> QED
      BY <2>2 DEF u
  <1>4. IsPrefix(s, s)
    BY DEF IsPrefix
  <1>5. Len(<<>>) = 0 /\ Len(s) \in Nat
    OBVIOUS
  <1>6. Len(<<>>) <= Len(s) /\ \A i \in 1..Len(<<>>): <<>>[i] = s[i]
    BY <1>5
  <1>7. IsPrefix(<<>>, s)
    BY <1>1, <1>6, PrefixMeans
  <1> QED
    BY <1>3, <1>4, <1>7

(* The rest of a sequence, appended to a prefix of it, makes it whole.      *)
LEMMA PrefixAndRest ==
    ASSUME NEW S, NEW s \in Seq(S), NEW t \in Seq(S), IsPrefix(s, t)
    PROVE  /\ SubSeq(t, Len(s) + 1, Len(t)) \in Seq(S)
           /\ s \o SubSeq(t, Len(s) + 1, Len(t)) = t
  <1> DEFINE rest == SubSeq(t, Len(s) + 1, Len(t))
  <1>1. Len(s) <= Len(t) /\ \A i \in 1..Len(s): s[i] = t[i]
    BY PrefixMeans
  <1>2. /\ rest \in Seq(S)
        /\ Len(rest) = Len(t) - Len(s)
        /\ \A i \in 1..Len(rest): rest[i] = t[Len(s) + i]
    BY <1>1
  <1> HIDE DEF rest
  <1>3. s \o rest \in Seq(S) /\ Len(s \o rest) = Len(t)
    <2>1. Len(s \o rest) = Len(s) + Len(rest)
      BY <1>2, ConcatProperties
    <2>2. Len(s) \in Nat /\ Len(t) \in Nat
      OBVIOUS
    <2> QED
      BY <1>2, <2>1, <2>2, ConcatProperties
  <1>4. ASSUME NEW i \in 1..Len(t) PROVE (s \o rest)[i] = t[i]
    <2>1. /\ Len(s) \in Nat /\ Len(t) \in Nat /\ Len(rest) \in Nat
          /\ (s \o rest)[i] = IF i <= Len(s) THEN s[i] ELSE rest[i - Len(s)]
      BY <1>2, ConcatProperties
    <2>2. CASE i <= Len(s)
      BY <1>1, <2>1, <2>2
    <2>3. CASE i > Len(s)
      <3>1. i - Len(s) \in 1..Len(rest) /\ Len(s) + (i - Len(s)) = i
        BY <1>2, <2>1, <2>3
      <3> QED
        BY <1>2, <2>1, <2>3, <3>1
    <2> QED
      BY <2>1, <2>2, <2>3
  <1>5. s \o rest = t
    BY <1>3, <1>4, SeqEqual
  <1> QED
    BY <1>2, <1>5 DEF rest

(* The members of a concatenation.                                          *)
LEMMA MembersOfConcat ==
    ASSUME NEW S, NEW s \in Seq(S), NEW t \in Seq(S)
    PROVE  ToSet(s \o t) = ToSet(s) \cup ToSet(t)
  <1>1. ASSUME NEW i \in DOMAIN (s \o t) PROVE (s \o t)[i] \in ToSet(s) \cup ToSet(t)
    <2>1. CASE i <= Len(s)
      BY <2>1 DEF ToSet
    <2>2. CASE i > Len(s)
      <3>1. i - Len(s) \in DOMAIN t /\ (s \o t)[i] = t[i - Len(s)]
        BY <2>2
      <3> QED
        BY <3>1 DEF ToSet
    <2> QED
      BY <2>1, <2>2
  <1>2. ASSUME NEW i \in DOMAIN s PROVE s[i] \in ToSet(s \o t)
    <2>1. i \in DOMAIN (s \o t) /\ (s \o t)[i] = s[i]
      OBVIOUS
    <2> QED
      BY <2>1 DEF ToSet
  <1>3. ASSUME NEW i \in DOMAIN t PROVE t[i] \in ToSet(s \o t)
    <2>1. Len(s) + i \in DOMAIN (s \o t) /\ (s \o t)[Len(s) + i] = t[i]
      OBVIOUS
    <2> QED
      BY <2>1 DEF ToSet
  <1> QED
    BY <1>1, <1>2, <1>3 DEF ToSet

(* A prefix has no members that the whole lacks.                            *)
LEMMA MembersOfPrefix ==
    ASSUME NEW S, NEW s \in Seq(S), NEW t \in Seq(S), IsPrefix(s, t)
    PROVE  ToSet(s) \subseteq ToSet(t)
  <1>1. Len(s) <= Len(t) /\ \A i \in 1..Len(s): s[i] = t[i]
    BY PrefixMeans
  <1> QED
    BY <1>1 DEF ToSet

-----------------------------------------------------------------------------
(* Empty tables and runs that have not begun satisfy the invariant.         *)
LEMMA MigrationInit == Init => MigrationInv
  <1> SUFFICES ASSUME Init PROVE MigrationInv
    OBVIOUS
  <1>1. MigrationTypeOK
    <2>1. history \in Seq(Migrations) /\ faults \in 0..MaxFaults
      BY MigrationConstants DEF Init
    <2>2. pending \in [Runners -> Seq(Migrations)] /\ since \in [Processes -> Seq(Migrations)]
      BY <2>1 DEF Init
    <2>3. /\ run \in [Runners -> Stages] /\ probe \in [Processes -> Probes]
          /\ table \in BOOLEAN /\ objects \subseteq Migrations /\ stopping \subseteq Processes
      BY DEF Init, Stages, Probes
    <2> QED
      BY <2>1, <2>2, <2>3 DEF MigrationTypeOK
  <1>2. HistoryIsReviewed
    <2>1. ToSet(<<>>) = {}
      BY DEF ToSet
    <2> QED
      BY <2>1 DEF Init, HistoryIsReviewed
  <1>3. LockExcludes
    BY DEF Init, LockExcludes, Holds
  <1>4. \A r \in Runners: RunKnows(r)
    BY DEF Init, RunKnows
  <1>5. IsPrefix(<<>>, <<>>)
    BY DEF IsPrefix
  <1>6. \A p \in Processes: ProbeKnows(p)
    BY <1>5 DEF Init, ProbeKnows
  <1> QED
    BY <1>1, <1>2, <1>3, <1>4, <1>6 DEF MigrationInv

(* What Drizzle applies is the rest of the folder: the rows it does not     *)
(* look at are, position by position, the folder's.                         *)
LEMMA NewerIsTheRest ==
    ASSUME NEW r \in Runners, NEW h \in Seq(Migrations), IsPrefix(h, Artifact[r]),
           NEW n \in 0..Len(Artifact[r]),
           \A i \in 1..Len(Artifact[r]):
               (h = <<>> \/ When[Artifact[r][i]] > When[Last(h)]) <=> i > n
    PROVE  n = Len(h)
  <1> DEFINE a == Artifact[r]
  <1>1. a \in Seq(Migrations) /\ Len(a) \in Nat /\ DOMAIN a = 1..Len(a) /\ Len(h) \in Nat
    BY MigrationConstants
  <1>2. Len(h) <= Len(a) /\ \A i \in 1..Len(h): h[i] = a[i]
    BY <1>1, PrefixMeans
  <1>3. \A i \in 1..Len(a): When[a[i]] \in Nat
    BY <1>1, MigrationConstants
  <1>4. \A i, j \in 1..Len(a): i < j => When[a[i]] < When[a[j]]
    BY <1>1, TimestampsIncrease
  <1> HIDE DEF a
  <1>5. \A i \in 1..Len(a): (h = <<>> \/ When[a[i]] > When[Last(h)]) <=> i > n
    BY DEF a
  <1>6. n \in 0..Len(a)
    BY DEF a
  <1>7. CASE h = <<>>
    <2>1. Len(h) = 0
      BY <1>7
    <2>2. n = 0
      BY <1>1, <1>5, <1>6, <1>7
    <2> QED
      BY <2>1, <2>2
  <1>8. CASE h # <<>>
    <2>1. Len(h) \in 1..Len(a) /\ Last(h) = a[Len(h)]
      BY <1>1, <1>2, <1>8 DEF Last
    <2>2. ~(Len(h) > n)
      BY <1>3, <1>5, <2>1
    <2>3. ~(Len(h) < n)
      <3> SUFFICES ASSUME Len(h) < n PROVE FALSE
        OBVIOUS
      <3>1. n \in 1..Len(a) /\ ~(n > n)
        BY <1>1, <1>6
      <3>2. When[a[Len(h)]] < When[a[n]]
        BY <1>4, <2>1, <3>1
      <3> QED
        BY <1>3, <1>5, <2>1, <3>1, <3>2
    <2> QED
      BY <1>1, <1>6, <2>2, <2>3
  <1> QED
    BY <1>7, <1>8

(* A step that keeps the database keeps what was reviewed and what the      *)
(* processes know.                                                          *)
LEMMA DatabaseKept ==
    ASSUME MigrationInv, UNCHANGED <<history, objects>>, table => table',
           \A r \in Runners: run'[r] # run[r] =>
               run'[r] # "done" /\ (run'[r] = "rejected" => ~IsPrefix(history, Artifact[r]))
    PROVE  HistoryIsReviewed'
  BY DEF MigrationInv, HistoryIsReviewed

LEMMA ProbesKept ==
    ASSUME MigrationInv, UNCHANGED <<history, probe, since>>
    PROVE  \A p \in Processes: ProbeKnows(p)'
  BY DEF MigrationInv, ProbeKnows

(* COMMIT of the transaction of a run that holds the lock.                  *)
LEMMA InstallKeeps ==
    ASSUME MigrationInv, NEW r \in Runners, run[r] \in {"applied", "orphan"}, Install(r),
           NEW stage \in {"done", "failed"}, Goto(r, stage)
    PROVE  /\ history' = Artifact[r]
           /\ HistoryIsReviewed' /\ LockExcludes'
           /\ \A q \in Runners: RunKnows(q)'
           /\ \A p \in Processes: ProbeKnows(p)'
  <1>1. history \in Seq(Migrations) /\ pending[r] \in Seq(Migrations) /\ Artifact[r] \in Seq(Migrations)
    BY MigrationConstants DEF MigrationInv, MigrationTypeOK
  <1>2. history' = history \o pending[r] /\ history' = Artifact[r]
    BY DEF MigrationInv, RunKnows, Install
  <1>3. IsPrefix(history, history')
    BY <1>1, <1>2, PrefixOfConcat
  <1>4. history' \in Seq(Migrations)
    BY <1>1, <1>2
  <1>5. run' = [run EXCEPT ![r] = stage] /\ run \in [Runners -> Stages]
    BY DEF Goto, MigrationInv, MigrationTypeOK
  <1>6. Holds(r) /\ ~Holds(r)' /\ \A q \in Runners: q # r => ~Holds(q) /\ ~Holds(q)'
    <2>1. Holds(r)
      BY DEF Holds
    <2>2. \A q \in Runners: q # r => ~Holds(q)
      BY <2>1 DEF MigrationInv, LockExcludes
    <2> QED
      BY <1>5, <2>1, <2>2 DEF Holds
  <1>7. LockExcludes'
    BY <1>6 DEF LockExcludes
  <1>8. \A q \in Runners: RunKnows(q)'
    BY <1>6 DEF RunKnows, Holds
  <1>9. HistoryIsReviewed'
    <2>1. objects' = ToSet(history')
      <3>1. objects = ToSet(history)
        BY DEF MigrationInv, HistoryIsReviewed
      <3>2. ToSet(history \o pending[r]) = ToSet(history) \cup ToSet(pending[r])
        BY <1>1, MembersOfConcat
      <3>3. history' = history \o pending[r] /\ objects' = objects \cup ToSet(pending[r])
        BY DEF Install
      <3> QED
        BY <3>1, <3>2, <3>3
    <2>2. table'
      BY DEF MigrationInv, RunKnows, Install
    <2>3. IsPrefix(history', Artifact[r])
      BY <1>1, <1>2, PrefixOfConcat
    <2>4. ASSUME NEW q \in Runners, run'[q] = "done" PROVE IsPrefix(Artifact[q], history')
      <3>1. CASE q = r
        BY <1>1, <1>2, <3>1, PrefixOfConcat
      <3>2. CASE q # r
        <4>1. IsPrefix(Artifact[q], history)
          BY <1>5, <2>4, <3>2 DEF MigrationInv, HistoryIsReviewed
        <4>2. Artifact[q] \in Seq(Migrations)
          BY MigrationConstants
        <4> QED
          BY <1>1, <1>3, <1>4, <4>1, <4>2, PrefixOfPrefix
      <3> QED
        BY <3>1, <3>2
    <2>5. ASSUME NEW q \in Runners, run'[q] = "rejected", IsPrefix(history', Artifact[q]) PROVE FALSE
      <3>1. q # r /\ run[q] = "rejected"
        BY <1>5, <2>5
      <3>2. Artifact[q] \in Seq(Migrations)
        BY MigrationConstants
      <3>3. IsPrefix(history, Artifact[q])
        BY <1>1, <1>3, <1>4, <2>5, <3>2, PrefixOfPrefix
      <3> QED
        BY <3>1, <3>3 DEF MigrationInv, HistoryIsReviewed
    <2> QED
      BY <2>1, <2>2, <2>3, <2>4, <2>5 DEF HistoryIsReviewed
  <1>10. \A p \in Processes: ProbeKnows(p)'
    <2> SUFFICES ASSUME NEW p \in Processes PROVE ProbeKnows(p)'
      OBVIOUS
    <2>1. UNCHANGED <<probe, since>> /\ ProbeKnows(p)
      BY DEF Goto, MigrationInv
    <2>2. since[p] \in Seq(Migrations) /\ Knows[p] \in Seq(Migrations)
      BY MigrationConstants DEF MigrationInv, MigrationTypeOK
    <2>3. IsPrefix(since[p], history')
      BY <1>1, <1>3, <1>4, <2>1, <2>2, PrefixOfPrefix DEF ProbeKnows
    <2>4. ASSUME probe[p] \in {"counting", "ready"} PROVE IsPrefix(Knows[p], history')
      BY <1>1, <1>3, <1>4, <2>1, <2>2, <2>4, PrefixOfPrefix DEF ProbeKnows
    <2> QED
      BY <2>1, <2>3, <2>4 DEF ProbeKnows
  <1> QED
    BY <1>2, <1>7, <1>8, <1>9, <1>10

(* Every statement keeps every variable in its type.                        *)
LEMMA TypesKept == MigrationInv /\ [Next]_vars => MigrationTypeOK'
  <1> SUFFICES ASSUME MigrationInv, [Next]_vars PROVE MigrationTypeOK'
    OBVIOUS
  <1> USE MigrationConstants DEF MigrationTypeOK, database, Goto
  <1>0. MigrationTypeOK
    BY DEF MigrationInv
  <1> DEFINE Moved(r) == \E stage \in Stages: Goto(r, stage)
  <1>1. ASSUME NEW r \in Runners, Moved(r), UNCHANGED <<database, faults>>,
               \/ UNCHANGED pending
               \/ \E p \in Seq(Migrations): pending' = [pending EXCEPT ![r] = p]
        PROVE  MigrationTypeOK'
    BY <1>0, <1>1
  <1>2. ASSUME NEW r \in Runners, Install(r), Moved(r), UNCHANGED faults PROVE MigrationTypeOK'
    <2>1. history' \in Seq(Migrations)
      BY <1>0, <1>2 DEF Install
    <2>2. objects' \subseteq Migrations
      BY <1>0, <1>2 DEF Install, ToSet
    <2>3. pending' \in [Runners -> Seq(Migrations)]
      <3>1. <<>> \in Seq(Migrations)
        OBVIOUS
      <3> QED
        BY <1>0, <1>2, <3>1 DEF Install
    <2> QED
      BY <1>0, <1>2, <2>1, <2>2, <2>3 DEF Install
  <1>3. ASSUME NEW r \in Runners, Start(r) \/ Step(r) PROVE MigrationTypeOK'
    <2>1. CASE Start(r) \/ TakeLock(r) \/ GiveUp(r) \/ CheckHistory(r)
      <3>1. Moved(r) /\ UNCHANGED <<database, faults>> /\ UNCHANGED pending
        BY <2>1 DEF Start, TakeLock, GiveUp, CheckHistory, Stages
      <3> QED
        BY <1>1, <3>1
    <2>2. CASE Prepare(r)
      BY <1>0, <2>2 DEF Prepare, Stages
    <2>3. CASE Apply(r)
      <3>1. PICK n \in 0..Len(Artifact[r]):
                \/ pending' = [pending EXCEPT ![r] = SubSeq(Artifact[r], n + 1, Len(Artifact[r]))]
                   /\ Goto(r, "applied")
                \/ UNCHANGED pending /\ Goto(r, "failed")
        BY <2>3 DEF Apply
      <3>2. SubSeq(Artifact[r], n + 1, Len(Artifact[r])) \in Seq(Migrations)
        OBVIOUS
      <3>3. Moved(r)
        BY <3>1 DEF Stages
      <3>4. UNCHANGED <<database, faults>>
        BY <2>3 DEF Apply
      <3> QED
        BY <1>1, <3>1, <3>2, <3>3, <3>4
    <2>4. CASE Commit(r)
      <3>1. Install(r) /\ Moved(r) /\ UNCHANGED faults
        BY <2>4 DEF Commit, Stages
      <3> QED
        BY <1>2, <3>1
    <2> QED
      BY <1>3, <2>1, <2>2, <2>3, <2>4 DEF Step
  <1>4. ASSUME NEW r \in Runners, Fail(r) \/ LoseConnection(r) PROVE MigrationTypeOK'
    <2>1. <<>> \in Seq(Migrations)
      OBVIOUS
    <2>2. CASE Fail(r)
      BY <1>0, <2>1, <2>2 DEF Fail, Stages
    <2>3. CASE LoseConnection(r)
      BY <1>0, <2>3 DEF LoseConnection, Stages
    <2> QED
      BY <1>4, <2>2, <2>3
  <1>5. ASSUME NEW r \in Runners, EndOrphan(r) PROVE MigrationTypeOK'
    <2>1. CASE OrphanCommits(r)
      <3>1. Install(r) /\ Moved(r) /\ UNCHANGED faults
        BY <2>1 DEF OrphanCommits, Stages
      <3> QED
        BY <1>2, <3>1
    <2>2. CASE OrphanAborts(r)
      <3>1. Moved(r) /\ UNCHANGED <<database, faults>> /\ pending' = [pending EXCEPT ![r] = <<>>]
        BY <2>2 DEF OrphanAborts, Stages
      <3>2. <<>> \in Seq(Migrations)
        OBVIOUS
      <3> QED
        BY <1>1, <3>1, <3>2
    <2> QED
      BY <1>5, <2>1, <2>2 DEF EndOrphan
  <1>6. ASSUME NEW p \in Processes,
               Ask(p) \/ ReadHistory(p) \/ CountSchemas(p) \/ ProbeFails(p) \/ Stop(p)
        PROVE  MigrationTypeOK'
    <2>1. CASE Ask(p)
      BY <1>0, <2>1 DEF Ask, Probes
    <2>2. CASE ReadHistory(p) \/ CountSchemas(p)
      BY <1>0, <2>2 DEF ReadHistory, CountSchemas, Probes
    <2>3. CASE ProbeFails(p) \/ Stop(p)
      BY <1>0, <2>3 DEF ProbeFails, Stop, Probes
    <2> QED
      BY <1>6, <2>1, <2>2, <2>3
  <1>7. CASE UNCHANGED vars
    BY <1>0, <1>7 DEF vars
  <1> QED
    BY <1>3, <1>4, <1>5, <1>6, <1>7 DEF Next

(* Every statement keeps the lock exclusive, the history reviewed, and what *)
(* runs and processes know true.                                            *)
LEMMA MigrationStep == MigrationInv /\ [Next]_vars => MigrationInv'
  <1> SUFFICES ASSUME MigrationInv, [Next]_vars PROVE MigrationInv'
    OBVIOUS
  <1> DEFINE Rest == /\ HistoryIsReviewed' /\ LockExcludes'
                     /\ \A r \in Runners: RunKnows(r)'
                     /\ \A p \in Processes: ProbeKnows(p)'
  <1>0. MigrationTypeOK /\ MigrationTypeOK'
    BY TypesKept DEF MigrationInv
  <1>1. ASSUME NEW r \in Runners, NEW stage \in {"waiting", "failed", "rejected"},
               Goto(r, stage), UNCHANGED database,
               \A q \in Runners: q # r => pending'[q] = pending[q],
               stage = "rejected" => ~IsPrefix(history, Artifact[r])
        PROVE  Rest
    <2>1. run' = [run EXCEPT ![r] = stage] /\ run \in [Runners -> Stages]
      BY <1>0, <1>1 DEF Goto, MigrationTypeOK
    <2>2. HistoryIsReviewed'
      BY <1>1, <2>1, DatabaseKept DEF database
    <2>3. LockExcludes'
      BY <2>1 DEF LockExcludes, Holds, MigrationInv
    <2>4. \A q \in Runners: RunKnows(q)'
      BY <1>1, <2>1 DEF RunKnows, MigrationInv, database
    <2>5. \A p \in Processes: ProbeKnows(p)'
      BY <1>1, ProbesKept DEF Goto, database
    <2> QED
      BY <2>2, <2>3, <2>4, <2>5
  <1>2. ASSUME NEW r \in Runners,
               NEW stage \in {"locked", "checked", "prepared", "applied", "orphan"},
               Goto(r, stage), UNCHANGED <<history, objects>>, table => table',
               \A q \in Runners: q # r => ~Holds(q) /\ pending'[q] = pending[q],
               RunKnows(r)'
        PROVE  Rest
    <2>1. run' = [run EXCEPT ![r] = stage] /\ run \in [Runners -> Stages]
      BY <1>0, <1>2 DEF Goto, MigrationTypeOK
    <2>2. HistoryIsReviewed'
      BY <1>2, <2>1, DatabaseKept
    <2>3. \A q \in Runners: q # r => ~Holds(q)'
      BY <1>2, <2>1 DEF Holds
    <2>4. LockExcludes'
      BY <2>3 DEF LockExcludes
    <2>5. \A q \in Runners: RunKnows(q)'
      BY <1>2, <2>3 DEF RunKnows, Holds
    <2>6. \A p \in Processes: ProbeKnows(p)'
      BY <1>2, ProbesKept DEF Goto
    <2> QED
      BY <2>2, <2>4, <2>5, <2>6
  <1>3. ASSUME NEW r \in Runners, Holds(r) PROVE \A q \in Runners: q # r => ~Holds(q)
    BY <1>3 DEF MigrationInv, LockExcludes
  <1>4. ASSUME NEW r \in Runners, Start(r) \/ Step(r) PROVE Rest
    <2>1. CASE Start(r) \/ GiveUp(r)
      <3>1. \E stage \in {"waiting", "failed"}: Goto(r, stage)
        BY <2>1 DEF Start, GiveUp
      <3> QED
        BY <1>1, <2>1, <3>1 DEF Start, GiveUp
    <2>2. CASE TakeLock(r)
      <3>1. RunKnows(r)'
        BY <1>0, <2>2 DEF TakeLock, Goto, RunKnows, MigrationTypeOK
      <3> QED
        BY <1>2, <2>2, <3>1 DEF TakeLock, database
    <2>3. CASE CheckHistory(r)
      <3>1. CASE Mismatch(r)
        BY <1>1, <2>3, <3>1 DEF CheckHistory, Mismatch
      <3>2. CASE ~Mismatch(r)
        <4>1. IsPrefix(history, Artifact[r])
          <5>1. CASE table
            BY <3>2, <5>1 DEF Mismatch
          <5>2. CASE ~table
            <6>1. history = <<>>
              BY <5>2 DEF MigrationInv, HistoryIsReviewed
            <6> QED
              BY <6>1, MigrationConstants, PrefixOfConcat
          <5> QED
            BY <5>1, <5>2
        <4>2. Goto(r, "checked") /\ Holds(r) /\ UNCHANGED <<database, pending>>
          BY <2>3, <3>2 DEF CheckHistory, Holds
        <4>3. RunKnows(r)'
          BY <1>0, <4>1, <4>2 DEF Goto, RunKnows, MigrationTypeOK, database
        <4> QED
          BY <1>2, <1>3, <4>2, <4>3 DEF database
      <3> QED
        BY <3>1, <3>2
    <2>4. CASE Prepare(r)
      <3>1. /\ Goto(r, "prepared") /\ Holds(r) /\ run[r] = "checked"
            /\ table' /\ UNCHANGED <<history, objects, pending>>
        BY <2>4 DEF Prepare, Holds
      <3>2. RunKnows(r)'
        BY <1>0, <3>1 DEF Goto, RunKnows, MigrationTypeOK, MigrationInv
      <3> QED
        BY <1>2, <1>3, <3>1, <3>2
    <2>5. CASE Apply(r)
      <3>1. /\ run[r] = "prepared" /\ Holds(r) /\ UNCHANGED database
            /\ IsPrefix(history, Artifact[r]) /\ table
        BY <2>5 DEF Apply, Holds, MigrationInv, RunKnows
      <3>2. PICK n \in 0..Len(Artifact[r]):
                /\ \A i \in 1..Len(Artifact[r]):
                    (history = <<>> \/ When[Artifact[r][i]] > When[Last(history)]) <=> i > n
                /\ \/ /\ pending' = [pending EXCEPT ![r] =
                                         SubSeq(Artifact[r], n + 1, Len(Artifact[r]))]
                      /\ Goto(r, "applied")
                   \/ UNCHANGED pending /\ Goto(r, "failed")
        BY <2>5 DEF Apply
      <3>3. history \in Seq(Migrations) /\ Artifact[r] \in Seq(Migrations)
        BY <1>0, MigrationConstants DEF MigrationTypeOK
      <3>4. n = Len(history)
        BY <3>1, <3>2, <3>3, NewerIsTheRest
      <3>5. CASE Goto(r, "failed") /\ UNCHANGED pending
        BY <1>1, <3>1, <3>5
      <3>6. CASE /\ Goto(r, "applied")
                 /\ pending' = [pending EXCEPT ![r] = SubSeq(Artifact[r], n + 1, Len(Artifact[r]))]
        <4>1. history \o pending'[r] = Artifact[r]
          <5>1. pending'[r] = SubSeq(Artifact[r], Len(history) + 1, Len(Artifact[r]))
            BY <1>0, <3>4, <3>6 DEF MigrationTypeOK
          <5> QED
            BY <3>1, <3>3, <5>1, PrefixAndRest
        <4>2. \A q \in Runners: q # r => pending'[q] = pending[q]
          BY <1>0, <3>6 DEF MigrationTypeOK
        <4>3. RunKnows(r)'
          BY <1>0, <3>1, <3>6, <4>1 DEF Goto, RunKnows, MigrationTypeOK, database
        <4> QED
          BY <1>2, <1>3, <3>1, <3>6, <4>2, <4>3 DEF database
      <3> QED
        BY <3>2, <3>5, <3>6
    <2>6. CASE Commit(r)
      BY <2>6, InstallKeeps DEF Commit
    <2> QED
      BY <1>4, <2>1, <2>2, <2>3, <2>4, <2>5, <2>6 DEF Step
  <1>5. ASSUME NEW r \in Runners, Fail(r) PROVE Rest
    <2>1. \A q \in Runners: q # r => pending'[q] = pending[q]
      BY <1>0, <1>5 DEF Fail, MigrationTypeOK
    <2> QED
      BY <1>1, <1>5, <2>1 DEF Fail
  <1>6. ASSUME NEW r \in Runners, LoseConnection(r) PROVE Rest
    <2>1. Goto(r, "orphan") /\ Holds(r) /\ run[r] = "applied" /\ UNCHANGED <<database, pending>>
      BY <1>6 DEF LoseConnection, Holds
    <2>2. RunKnows(r)'
      BY <1>0, <2>1 DEF Goto, RunKnows, MigrationTypeOK, MigrationInv, database
    <2> QED
      BY <1>2, <1>3, <2>1, <2>2 DEF database
  <1>7. ASSUME NEW r \in Runners, EndOrphan(r) PROVE Rest
    <2>1. CASE OrphanCommits(r)
      BY <2>1, InstallKeeps DEF OrphanCommits
    <2>2. CASE OrphanAborts(r)
      <3>1. \A q \in Runners: q # r => pending'[q] = pending[q]
        BY <1>0, <2>2 DEF OrphanAborts, MigrationTypeOK
      <3> QED
        BY <1>1, <2>2, <3>1 DEF OrphanAborts
    <2> QED
      BY <1>7, <2>1, <2>2 DEF EndOrphan
  <1>8. ASSUME UNCHANGED <<database, run, pending>>, \A p \in Processes: ProbeKnows(p)' PROVE Rest
    BY <1>8 DEF MigrationInv, HistoryIsReviewed, LockExcludes, Holds, RunKnows, database
  <1>9. ASSUME NEW p \in Processes,
               Ask(p) \/ ReadHistory(p) \/ CountSchemas(p) \/ ProbeFails(p) \/ Stop(p)
        PROVE  Rest
    <2>0. UNCHANGED <<database, run, pending>> /\ UNCHANGED history
      BY <1>9 DEF Ask, ReadHistory, CountSchemas, ProbeFails, Stop, database
    <2>1. /\ \A q \in Processes: ProbeKnows(q)
          /\ probe \in [Processes -> Probes] /\ since \in [Processes -> Seq(Migrations)]
          /\ history \in Seq(Migrations)
      BY <1>0 DEF MigrationInv, MigrationTypeOK
    <2>2. CASE Ask(p)
      <3>1. IsPrefix(history, history)
        BY <2>1, PrefixOfConcat
      <3> QED
        BY <1>8, <2>0, <2>1, <2>2, <3>1 DEF Ask, ProbeKnows
    <2>3. CASE ReadHistory(p)
      <3>1. IsPrefix(history, history)
        BY <2>1, PrefixOfConcat
      <3> QED
        BY <1>8, <2>0, <2>1, <2>3, <3>1 DEF ReadHistory, Exact, ProbeKnows
    <2>4. CASE CountSchemas(p) \/ ProbeFails(p)
      BY <1>8, <2>0, <2>1, <2>4 DEF CountSchemas, ProbeFails, ProbeKnows
    <2>5. CASE Stop(p)
      BY <1>8, <2>0, <2>1, <2>5 DEF Stop, ProbeKnows
    <2> QED
      BY <1>9, <2>2, <2>3, <2>4, <2>5
  <1>10. ASSUME UNCHANGED vars PROVE Rest
    <2>1. UNCHANGED <<database, run, pending>> /\ UNCHANGED <<history, probe, since>>
      BY <1>10 DEF vars, database
    <2>2. \A p \in Processes: ProbeKnows(p)'
      BY <2>1, ProbesKept
    <2>3. HistoryIsReviewed'
      BY <2>1 DEF MigrationInv, HistoryIsReviewed, database
    <2>4. LockExcludes'
      BY <2>1 DEF MigrationInv, LockExcludes, Holds
    <2>5. \A r \in Runners: RunKnows(r)'
      BY <2>1 DEF MigrationInv, RunKnows, database
    <2> QED
      BY <2>2, <2>3, <2>4, <2>5
  <1>11. ASSUME Next PROVE Rest
    <2>1. CASE \E r \in Runners: Start(r) \/ Step(r) \/ Fail(r) \/ LoseConnection(r) \/ EndOrphan(r)
      <3>1. PICK r \in Runners:
              (Start(r) \/ Step(r)) \/ Fail(r) \/ LoseConnection(r) \/ EndOrphan(r)
        BY <2>1, Zenon
      <3> HIDE DEF Rest
      <3> QED
        BY <1>4, <1>5, <1>6, <1>7, <3>1
    <2>2. CASE \E p \in Processes:
                Ask(p) \/ ReadHistory(p) \/ CountSchemas(p) \/ ProbeFails(p) \/ Stop(p)
      BY <1>9, <2>2
    <2> HIDE DEF Rest
    <2> QED
      BY <1>11, <2>1, <2>2 DEF Next
  <1>12. Rest
    <2> HIDE DEF Rest
    <2> QED
      BY <1>10, <1>11
  <1> QED
    BY <1>0, <1>12 DEF MigrationInv

(* The history is always what one reviewed folder says, its rows stand for  *)
(* the changes that are there, and the lock admits one run at a time,       *)
(* whatever runs, crashes or loses its COMMIT (migrations.ts:17-53).        *)
THEOREM MigrationsInvariant == Spec => []MigrationInv
  <1>1. Init => MigrationInv
    BY MigrationInit
  <1>2. MigrationInv /\ [Next]_vars => MigrationInv'
    BY MigrationStep
  <1> QED
    BY <1>1, <1>2, PTL DEF Spec

(* A process that answers "ready" has compared its hashes with the whole    *)
(* history at some moment of the request (database.ts:36-54).               *)
THEOREM ReadyMeansExact == Spec => []ReadyIsExact
  <1>1. MigrationInv => ReadyIsExact
    <2> SUFFICES ASSUME MigrationInv, NEW p \in Processes, probe[p] = "ready"
                 PROVE  /\ IsPrefix(since[p], Knows[p])
                        /\ IsPrefix(Knows[p], history)
                        /\ ToSet(Knows[p]) \subseteq objects
      BY DEF ReadyIsExact
    <2>1. IsPrefix(since[p], Knows[p]) /\ IsPrefix(Knows[p], history)
      BY DEF MigrationInv, ProbeKnows
    <2>2. Knows[p] \in Seq(Migrations) /\ history \in Seq(Migrations)
      BY MigrationConstants DEF MigrationInv, MigrationTypeOK
    <2>3. ToSet(Knows[p]) \subseteq ToSet(history)
      BY <2>1, <2>2, MembersOfPrefix
    <2> QED
      BY <2>1, <2>3 DEF MigrationInv, HistoryIsReviewed
  <1> QED
    BY <1>1, MigrationsInvariant, PTL
=============================================================================
