------------------------------ MODULE CartProofs ------------------------------
(* Proofs about carts edited and merged through the command engine, for any *)
(* connections, owners, carts, variants, inputs and deadlines.              *)
EXTENDS CartCommands, CommandsProofs, FiniteSetTheorems

(* A nonempty set of naturals has a least member.                           *)
LEMMA LeastMember ==
    ASSUME NEW T, T \subseteq Nat, T # {}
    PROVE  \E x \in T: \A y \in T: x <= y
  <1>1. \E x \in T: \A y \in T: ~(<<y, x>> \in OpToRel(<, Nat))
    BY WFMin, NatLessThanWellFounded, Zenon
  <1>2. \A x \in T, y \in T: y < x => <<y, x>> \in OpToRel(<, Nat)
    BY DEF OpToRel
  <1>3. \E x \in T: \A y \in T: ~(y < x)
    BY <1>1, <1>2, Zenon
  <1> QED
    BY ONLY <1>3, T \subseteq Nat

(* History is the recursive function it is written as: by the least length   *)
(* without one.                                                             *)
LEMMA HistoryExists ==
    ASSUME NEW c
    PROVE  \A n \in 1..MaxVersion:
               History(c)[n] =
                   IF n = 1 THEN [v \in Variants |-> 0]
                   ELSE IF \E k \in Succeeded(c): records[k].result.version = n
                        THEN Replayed(History(c)[n - 1],
                                      CHOOSE k \in Succeeded(c): records[k].result.version = n)
                        ELSE History(c)[n - 1]
  <1> DEFINE Version(f, n) ==
                IF n = 1 THEN [v \in Variants |-> 0]
                ELSE IF \E k \in Succeeded(c): records[k].result.version = n
                     THEN Replayed(f[n - 1],
                                   CHOOSE k \in Succeeded(c): records[k].result.version = n)
                     ELSE f[n - 1]
             Short == {m \in Nat: \A f: f # [n \in 1..m |-> Version(f, n)]}
  <1>1. Short = {}
    <2>1. SUFFICES ASSUME Short # {} PROVE FALSE
      OBVIOUS
    <2> HIDE DEF Version
    <2>2. PICK m \in Short: \A l \in Short: m <= l
      BY <2>1, LeastMember
    <2>3. CASE m = 0
      <3> DEFINE e == [n \in {} |-> 0]
      <3>1. 1..m = {}
        BY <2>3
      <3>2. e = [n \in {} |-> Version(e, n)]
        OBVIOUS
      <3>3. e = [n \in 1..m |-> Version(e, n)]
        BY <3>1, <3>2, Zenon
      <3> QED
        BY <3>3
    <2>4. CASE m # 0
      <3>1. m - 1 \in Nat /\ ~(m <= m - 1)
        BY <2>2, <2>4
      <3>0. m - 1 \notin Short
        BY <2>2, <3>1, Zenon
      <3>2. PICK f: f = [n \in 1..(m - 1) |-> Version(f, n)]
        BY <3>0, <3>1, Zenon
      <3> DEFINE g == [n \in 1..m |-> IF n = m THEN Version(f, n) ELSE f[n]]
      <3>3. \A n \in 1..m: Version(g, n) = Version(f, n)
        <4> TAKE n \in 1..m
        <4>1. n = 1 \/ g[n - 1] = f[n - 1]
          BY DEF g
        <4> QED
          BY <4>1 DEF Version
      <3>4. g = [n \in 1..m |-> Version(g, n)]
        BY <3>2, <3>3
      <3> QED
        BY <3>4
    <2> QED
      BY <2>3, <2>4
  <1> HIDE DEF Version
  <1>2. \E f: f = [n \in 1..MaxVersion |-> Version(f, n)]
    <2>1. MaxVersion \in Nat /\ MaxVersion \notin Short
      BY <1>1, CartConstants
    <2> QED
      BY <2>1, Zenon
  <1>3. History(c) = CHOOSE f: f = [n \in 1..MaxVersion |-> Version(f, n)]
    BY DEF History, Version
  <1>4. History(c) = [n \in 1..MaxVersion |-> Version(History(c), n)]
    BY <1>2, <1>3
  <1>5. \A n \in 1..MaxVersion: History(c)[n] = Version(History(c), n)
    BY <1>4
  <1> QED
    BY <1>5, Zenon DEF Version

(* No two commands made the same version of a cart.                         *)
Distinct(c) == \A k, l \in Succeeded(c): records[l].result.version = records[k].result.version => k = l

(* What History says of one version.                                        *)
Reads(c) ==
    Distinct(c) =>
        /\ History(c)[1] = [v \in Variants |-> 0]
        /\ \A n \in 2..MaxVersion:
            /\ \A k \in Succeeded(c):
                   records[k].result.version = n => History(c)[n] = Replayed(History(c)[n - 1], k)
            /\ (\A k \in Succeeded(c): records[k].result.version # n) => History(c)[n] = History(c)[n - 1]

(* The same of every cart.                                                  *)
HistoriesRead == \A c \in CartIds: Reads(c)

(* History gives an empty cart, and applies a command to the version before. *)
LEMMA HistoryReads == HistoriesRead
  <1> SUFFICES ASSUME NEW c \in CartIds, Distinct(c)
               PROVE  /\ History(c)[1] = [v \in Variants |-> 0]
                      /\ \A n \in 2..MaxVersion:
                          /\ \A k \in Succeeded(c):
                                 records[k].result.version = n => History(c)[n] = Replayed(History(c)[n - 1], k)
                          /\ (\A k \in Succeeded(c): records[k].result.version # n) =>
                                 History(c)[n] = History(c)[n - 1]
    BY Zenon DEF Reads, HistoriesRead
  <1>1. History(c)[1] = [v \in Variants |-> 0]
    <2>1. 1 \in 1..MaxVersion
      BY CartConstants
    <2> QED
      BY <2>1, HistoryExists
  <1>2. ASSUME NEW n \in 2..MaxVersion, NEW k \in Succeeded(c), records[k].result.version = n
        PROVE  History(c)[n] = Replayed(History(c)[n - 1], k)
    <2>1. n \in 1..MaxVersion /\ n # 1
      OBVIOUS
    <2>2. (CHOOSE l \in Succeeded(c): records[l].result.version = n) = k
      BY <1>2 DEF Distinct
    <2>3. \E l \in Succeeded(c): records[l].result.version = n
      BY <1>2
    <2>4. History(c)[n] = Replayed(History(c)[n - 1], CHOOSE l \in Succeeded(c): records[l].result.version = n)
      BY <2>1, <2>3, HistoryExists, Zenon
    <2> QED
      BY <2>2, <2>4
  <1>3. ASSUME NEW n \in 2..MaxVersion, \A k \in Succeeded(c): records[k].result.version # n
        PROVE  History(c)[n] = History(c)[n - 1]
    <2>1. n \in 1..MaxVersion /\ n # 1
      OBVIOUS
    <2>2. ~\E k \in Succeeded(c): records[k].result.version = n
      BY <1>3
    <2> QED
      BY <2>1, <2>2, HistoryExists, Zenon
  <1> QED
    BY <1>1, <1>2, <1>3

(* And so it does after a step.                                             *)
LEMMA HistoryReadsOn == HistoriesRead'
  BY HistoryReads, PTL

(* History of versions that were there before is the same after a step.     *)
LEMMA HistoryAgrees ==
    ASSUME NEW c \in CartIds, NEW N \in 1..MaxVersion, operationOf' = operationOf,
           Distinct(c), Distinct(c)',
           Succeeded(c) \subseteq Succeeded(c)', \A k \in Succeeded(c): records'[k] = records[k],
           \A k \in Succeeded(c)' \ Succeeded(c): records'[k].result.version \notin 1..N
    PROVE  \A n \in 1..N: History(c)'[n] = History(c)[n]
  <1> DEFINE T == {n \in 1..N: History(c)'[n] # History(c)[n]}
  <1>0. MaxVersion \in Nat
    BY CartConstants
  <1>1. SUFFICES ASSUME T # {} PROVE FALSE
    OBVIOUS
  <1>2. PICK n \in T: \A m \in T: n <= m
    <2>1. T \subseteq Nat
      BY <1>0
    <2> HIDE DEF T
    <2> QED
      BY <1>1, <2>1, LeastMember, Zenon
  <1>3. Reads(c) /\ Reads(c)'
    BY HistoryReads, HistoryReadsOn DEF HistoriesRead
  <1>4. n \in 2..MaxVersion
    <2>1. n # 1
      BY <1>2, <1>3 DEF Reads
    <2> QED
      BY <1>0, <1>2, <2>1
  <1>5. n - 1 \in 1..N /\ History(c)'[n - 1] = History(c)[n - 1]
    BY <1>0, <1>2, <1>4
  <1>6. CASE \E k \in Succeeded(c): records[k].result.version = n
    <2>1. PICK k \in Succeeded(c): records[k].result.version = n
      BY <1>6
    <2>2. k \in Succeeded(c)' /\ records'[k].result.version = n
      BY <2>1
    <2>3. History(c)[n] = Replayed(History(c)[n - 1], k)
      BY <1>3, <1>4, <2>1 DEF Reads
    <2>4. History(c)'[n] = Replayed(History(c)[n - 1], k)'
      BY <1>3, <1>4, <2>2 DEF Reads
    <2>5. PICK lines: lines = History(c)[n - 1]
      OBVIOUS
    <2>6. Replayed(lines, k)' = Replayed(lines, k)
      BY <2>1 DEF Replayed
    <2>7. Replayed(History(c)[n - 1], k)' = Replayed(lines, k)'
      BY <1>5, <2>5 DEF Replayed
    <2> QED
      BY <1>2, <2>3, <2>4, <2>5, <2>6, <2>7
  <1>7. CASE \A k \in Succeeded(c): records[k].result.version # n
    <2>1. \A k \in Succeeded(c)': records'[k].result.version # n
      BY <1>2, <1>7
    <2>2. History(c)[n] = History(c)[n - 1]
      BY <1>3, <1>4, <1>7 DEF Reads
    <2>3. History(c)'[n] = History(c)'[n - 1]
      BY <1>3, <1>4, <2>1 DEF Reads
    <2> QED
      BY <1>2, <1>5, <2>2, <2>3
  <1> QED
    BY <1>6, <1>7
-----------------------------------------------------------------------------
(* No cart, nothing read and nothing written.                               *)
LEMMA CartInvInit == CartInit => CartInv
  <1> SUFFICES ASSUME CartInit PROVE CartInv
    OBVIOUS
  <1>1. EngineInv
    BY EngineInvInit DEF CartInit
  <1>2. CartTypeOK
    BY CartConstants DEF CartInit, CartTypeOK, Nothing
  <1>3. ASSUME NEW s \in Slots PROVE Served(s) /\ RowsOK(s) /\ DraftOK(s)
    <2>1. /\ session[s].at = "idle" /\ session[s].effect = FALSE /\ rows[s] = {}
          /\ DOMAIN seen[s] = {} /\ DOMAIN draft[s] = {}
      BY <1>3 DEF CartInit, Init, Idle, Nothing
    <2> QED
      BY <2>1 DEF Served, RowsOK, DraftOK, EndDrafted
  <1>4. RowLocks
    BY DEF CartInit, RowLocks, Nothing
  <1>5. OneOpenCart
    BY DEF CartInit, OneOpenCart, ActiveOf
  <1>6. CartIsItsHistory
    BY DEF CartInit, Init, CartIsItsHistory, VersionsAreTold, LinesFollow, Succeeded
  <1>7. VisitsOK
    BY DEF CartInit, VisitsOK, Visits, Found
  <1> QED
    BY <1>1, <1>2, <1>3, <1>4, <1>5, <1>6, <1>7 DEF CartInv, CommandsInv

(* What a session is serving, and what its transaction read and wrote.      *)
LEMMA SessionFacts ==
    ASSUME CommandsInv, NEW s \in Slots
    PROVE  /\ session[s] \in Sessions /\ SessionOK(s)
           /\ Served(s) /\ RowsOK(s) /\ DraftOK(s)
           /\ session[s].at # "idle" => session[s].key \in Keys /\ session[s].digest \in Digests
  BY DEF CommandsInv, EngineInv, TypeOK, SessionsOK, SessionOK, Serving

(* The operation of a command and its input.                                *)
LEMMA InputFacts ==
    ASSUME CommandsInv, NEW s \in Slots, session[s].at # "idle"
    PROVE  /\ Input(s) \in CartInputs /\ Input(s).source # Input(s).cart
           /\ Operation(s) \in {"add", "change", "remove", "clear", "merge"}
           /\ Input(s).source = None => Input(s).variant \in Variants \cup Unknown
           /\ KeyOwner[session[s].key] \in Owners /\ Capability[session[s].key] \in Guests
           /\ Operation(s) = "merge" => KeyOwner[session[s].key] \in Customers
           /\ Named(s) \subseteq CartIds
  <1>1. session[s].key \in Keys /\ session[s].digest \in Digests
    BY SessionFacts
  <1>2. operationOf[session[s].key] \in KeyOperations[session[s].key]
    BY <1>1 DEF CommandsInv, CartTypeOK
  <1> QED
    BY <1>1, <1>2, CartConstants, SessionFacts DEF Input, Operation, Served, Named, CartInputs

(* Answers of a cart command are results of the engine.                     *)
LEMMA AnswersTyped ==
    ASSUME CommandsInv, NEW s \in Slots
    PROVE  /\ session[s].at = "wrote" => Done(draft[s][Input(s).cart].version) \in Successes
           /\ Rejection(s) # None => Refusal(Rejection(s)) \in Refusals
  <1>1. ASSUME session[s].at = "wrote" PROVE Done(draft[s][Input(s).cart].version) \in Successes
    <2>1. session[s].effect = TRUE
      BY <1>1, SessionFacts DEF SessionOK, RecordOpen, Sessions
    <2>2. draft[s][Input(s).cart] \in Carts
      BY <2>1, SessionFacts DEF DraftOK, EffectDrafted
    <2> QED
      BY <2>2, CartConstants DEF Carts
  <1>2. ASSUME Rejection(s) # None PROVE Refusal(Rejection(s)) \in Refusals
    <2>1. Rejection(s) \in Codes
      BY <1>2 DEF Rejection, Codes
    <2> QED
      BY <2>1, CartConstants
  <1> QED
    BY <1>1, <1>2

(* Every step of the carts is a step of the engine, or leaves it alone.     *)
LEMMA CartStepIsEngineStep == CommandsInv /\ [CartNext]_allVars => [Next]_vars
  <1> SUFFICES ASSUME CommandsInv, [CartNext]_allVars PROVE [Next]_vars
    OBVIOUS
  <1>1. ASSUME NEW s \in Slots, CartStep(s) PROVE [Next]_vars
    <2>1. CASE EngineOnly(s) \/ AuthorizeOwner(s) \/ SelectCarts(s) \/ DenyCart(s) \/ AdmitCart(s)
               \/ WriteCart(s) \/ Discard(s) \/ CommitCart(s)
      <3>1. Step(s)
        BY <2>1 DEF EngineOnly, AuthorizeOwner, SelectCarts, DenyCart, AdmitCart, WriteCart, Discard,
                    CommitCart, Step
      <3> QED
        BY <3>1 DEF Next
    <2>2. CASE FinishCart(s)
      <3>1. Done(draft[s][Input(s).cart].version) \in Successes
        BY <2>2, AnswersTyped DEF FinishCart
      <3> QED
        BY <2>2, <3>1 DEF FinishCart, Step, Next
    <2>3. CASE RefuseCart(s)
      <3>1. Refusal(Rejection(s)) \in Refusals
        BY <2>3, AnswersTyped DEF RefuseCart
      <3> QED
        BY <2>3, <3>1 DEF RefuseCart, Step, Next
    <2>4. CASE LockCart(s)
      BY <2>4 DEF LockCart
    <2> QED
      BY <1>1, <2>1, <2>2, <2>3, <2>4 DEF CartStep
  <1>2. ASSUME NEW s \in Slots, NEW k \in Keys, NEW d \in Digests, ReceiveCart(s, k, d) PROVE Next
    BY <1>2 DEF ReceiveCart, Next
  <1>3. ASSUME NEW g \in Guests, NEW c \in CartIds, CreateGuestCart(g, c) PROVE UNCHANGED vars
    BY <1>3 DEF CreateGuestCart
  <1>4. ASSUME NEW w \in Visitors, NEW o \in Owners, BeginGet(w, o) PROVE UNCHANGED vars
    BY <1>4 DEF BeginGet
  <1>5. ASSUME NEW w \in Visitors, EndGet(w) \/ GetFails(w) PROVE UNCHANGED vars
    BY <1>5 DEF EndGet, GetFails, Leave
  <1>10. ASSUME NEW w \in Visitors, NEW c \in CartIds, GetOrCreate(w, c) PROVE UNCHANGED vars
    BY <1>10 DEF GetOrCreate, Leave
  <1>6. ASSUME NEW v \in Variants, NEW fact \in Facts, CatalogChanges(v, fact) PROVE UNCHANGED vars
    BY <1>6 DEF CatalogChanges
  <1>7. CASE Tick
    BY <1>7 DEF Tick
  <1>8. ASSUME NEW k \in AgeingKeys, Ageing(k) PROVE Next
    BY <1>8, CartConstants DEF Ageing, Next
  <1>9. ASSUME UNCHANGED allVars PROVE UNCHANGED vars
    BY <1>9 DEF allVars
  <1> QED
    BY <1>1, <1>2, <1>3, <1>4, <1>5, <1>6, <1>7, <1>8, <1>9, <1>10 DEF CartNext

(* What a session knows depends on its own part of the state and on the     *)
(* carts it has found, of which none disappears.                            *)
LEMMA SlotKept ==
    ASSUME CommandsInv, NEW t \in Slots, session'[t] = session[t], rows'[t] = rows[t], seen'[t] = seen[t],
           draft'[t] = draft[t], operationOf' = operationOf,
           \A c \in rows[t]: carts'[c] # None, \A c \in DOMAIN seen[t]: carts'[c] = carts[c]
    PROVE  Served(t)' /\ RowsOK(t)' /\ DraftOK(t)'
  <1>1. Served(t) /\ RowsOK(t) /\ DraftOK(t)
    BY SessionFacts
  <1>2. Operation(t)' = Operation(t) /\ Input(t)' = Input(t) /\ Named(t)' = Named(t)
    BY DEF Operation, Input, Named
  <1>3. Served(t)'
    BY <1>1, <1>2 DEF Served
  <1>4. RowsOK(t)'
    BY <1>1 DEF RowsOK, ToLock
  <1>5. Owned(t)' = Owned(t)
    BY <1>2 DEF Owned, AllFound
  <1>6. StillOpen(t)' = StillOpen(t)
    BY <1>2, <1>5 DEF StillOpen
  <1>7. session[t].at # "idle" /\ Operation(t) # "merge" => NewLines(t)' = NewLines(t)
    BY <1>2, InputFacts DEF NewLines
  <1>8. ASSUME EffectDrafted(t), session[t].at # "idle" PROVE EffectDrafted(t)'
    BY <1>2, <1>6, <1>7, <1>8 DEF EffectDrafted, MergeDrafted, AsMerged
  <1>9. EndDrafted(t)' = EndDrafted(t)
    BY DEF EndDrafted, AsExpired
  <1>10. session[t].at = "idle" => session[t].effect = FALSE
    BY SessionFacts DEF SessionOK, Serving, Idle
  <1> QED
    BY <1>1, <1>2, <1>3, <1>4, <1>6, <1>8, <1>9, <1>10 DEF DraftOK

(* Versions are told apart.                                                 *)
LEMMA ToldDistinct == \A c: VersionsAreTold(c) => Distinct(c)
  BY DEF VersionsAreTold, Distinct

(* And after a step.                                                        *)
LEMMA ToldDistinctOn == (\A c: VersionsAreTold(c) => Distinct(c))'
  BY ToldDistinct, PTL

(* A command that took effect on a cart made one of the versions it has     *)
(* gone through.                                                            *)
LEMMA ToldVersions ==
    ASSUME CommandsInv, NEW c \in CartIds, NEW k \in Succeeded(c)
    PROVE  /\ carts[c] \in Carts /\ carts[c].version \in 1..MaxVersion
           /\ records[k].digest.expected \in Nat
           /\ records[k].result.version = records[k].digest.expected + 1
           /\ records[k].result.version <= carts[c].version
           /\ k \in Keys
  <1>1. carts[c] \in Carts \cup {None} /\ VersionsAreTold(c)
    BY DEF CommandsInv, CartTypeOK, CartIsItsHistory
  <1>2. carts[c] \in Carts
    BY <1>1 DEF VersionsAreTold
  <1>3. k \in Keys /\ records[k] \in Rows
    BY DEF CommandsInv, EngineInv, TypeOK, Succeeded
  <1>4. records[k].digest.expected \in Nat
    BY <1>3, CartConstants DEF Rows, CartInputs
  <1> QED
    BY <1>1, <1>2, <1>3, <1>4 DEF VersionsAreTold, Carts

(* A step that resolves no command of a cart leaves it, opens it, or moves  *)
(* its version and not its lines.                                           *)
LEMMA HistoryKept ==
    ASSUME CommandsInv, NEW c \in CartIds, operationOf' = operationOf,
           Succeeded(c)' = Succeeded(c), \A k \in Succeeded(c): records'[k] = records[k],
           \/ carts'[c] = carts[c]
           \/ /\ carts[c] # None /\ carts'[c] # None /\ carts'[c].lines = carts[c].lines
              /\ carts'[c].version = carts[c].version + 1 /\ carts[c].version < MaxVersion
           \/ /\ carts[c] = None /\ carts'[c] # None
              /\ carts'[c].version = 1 /\ carts'[c].lines = [v \in Variants |-> 0]
    PROVE  VersionsAreTold(c)' /\ LinesFollow(c)'
  <1>0. MaxVersion \in Nat \ {0}
    BY CartConstants
  <1>1. VersionsAreTold(c) /\ LinesFollow(c) /\ carts[c] \in Carts \cup {None}
    BY DEF CommandsInv, CartTypeOK, CartIsItsHistory
  <1>2. VersionsAreTold(c)'
    <2>1. ASSUME NEW k \in Succeeded(c)
          PROVE  /\ records[k].result.version = records[k].digest.expected + 1
                 /\ carts'[c] # None /\ records[k].result.version <= carts'[c].version
                 /\ \A l \in Succeeded(c): records[l].result.version = records[k].result.version => k = l
      <3>1. \A l \in Succeeded(c): records[l].result.version = records[k].result.version => k = l
        BY <1>1 DEF VersionsAreTold
      <3>2. carts[c] # None
        BY <1>1 DEF VersionsAreTold
      <3> QED
        BY <3>1, <3>2, ToldVersions
    <2> QED
      BY <2>1 DEF VersionsAreTold
  <1>3. Distinct(c) /\ Distinct(c)' /\ Reads(c)'
    BY <1>1, <1>2, ToldDistinct, ToldDistinctOn, HistoryReadsOn DEF HistoriesRead
  <1>4. ASSUME carts'[c] # None, \A k \in Succeeded(c)': operationOf'[k] # "merge"
        PROVE  carts'[c].lines = History(c)'[carts'[c].version]
    <2>0. \A k \in Succeeded(c): operationOf[k] # "merge"
      BY <1>4
    <2>1. CASE carts[c] = None
      BY <1>1, <1>3, <1>4, <2>1 DEF Reads
    <2>2. CASE carts[c] # None
      <3>1. PICK N \in 1..MaxVersion: N = carts[c].version
        BY <1>1, <2>2 DEF Carts
      <3>2. \A n \in 1..N: History(c)'[n] = History(c)[n]
        <4>1. /\ Succeeded(c) \subseteq Succeeded(c)'
              /\ \A k \in Succeeded(c)' \ Succeeded(c): records'[k].result.version \notin 1..N
          OBVIOUS
        <4> QED
          BY <1>3, <3>1, <4>1, HistoryAgrees
      <3>3. carts[c].lines = History(c)[N]
        BY <1>1, <2>0, <2>2, <3>1 DEF LinesFollow
      <3>4. carts[c].lines = History(c)'[N]
        BY <1>0, <3>1, <3>2, <3>3
      <3>5. CASE carts'[c] = carts[c]
        BY <3>1, <3>4, <3>5
      <3>6. CASE carts'[c].lines = carts[c].lines /\ carts'[c].version = N + 1 /\ N < MaxVersion
        <4>1. PICK m \in 2..MaxVersion: m = N + 1 /\ m - 1 = N
          BY <1>0, <3>1, <3>6
        <4>2. ASSUME NEW k \in Succeeded(c)' PROVE records'[k].result.version # m
          <5>1. k \in Succeeded(c) /\ records'[k] = records[k]
            OBVIOUS
          <5>2. records[k].result.version \in Nat /\ records[k].result.version <= N
            BY <3>1, <5>1, ToldVersions
          <5> QED
            BY <3>1, <4>1, <5>1, <5>2
        <4>3. History(c)'[m] = History(c)'[m - 1]
          BY <1>3, <4>1, <4>2 DEF Reads
        <4> QED
          BY <3>4, <3>6, <4>1, <4>3
      <3> QED
        BY <2>2, <3>1, <3>5, <3>6
    <2> QED
      BY <2>1, <2>2
  <1> QED
    BY <1>2, <1>4 DEF LinesFollow

(* The command that is resolved with success makes the next version of its  *)
(* cart and follows the one its client had seen.                            *)
LEMMA HistoryGrows ==
    ASSUME CommandsInv, NEW c \in CartIds, operationOf' = operationOf,
           NEW k, Succeeded(c)' = Succeeded(c) \cup {k}, k \notin Succeeded(c),
           \A l \in Succeeded(c): records'[l] = records[l],
           carts[c] # None, carts'[c] # None, carts[c].version < MaxVersion,
           carts'[c].version = carts[c].version + 1,
           records'[k].digest.expected = carts[c].version,
           records'[k].result.version = carts[c].version + 1,
           NEW lines, lines = carts[c].lines,
           operationOf[k] # "merge" => carts'[c].lines = Replayed(lines, k)'
    PROVE  VersionsAreTold(c)' /\ LinesFollow(c)'
  <1>0. MaxVersion \in Nat \ {0}
    BY CartConstants
  <1>1. VersionsAreTold(c) /\ LinesFollow(c) /\ carts[c].version \in 1..MaxVersion
    BY DEF CommandsInv, CartTypeOK, CartIsItsHistory, Carts
  <1>6. PICK N \in 1..MaxVersion: N = carts[c].version
    BY <1>1
  <1>5. \A l \in Succeeded(c): records'[l].result.version \in Nat /\ records'[l].result.version <= N
    BY <1>6, ToldVersions
  <1>2. VersionsAreTold(c)'
    <2>1. ASSUME NEW l \in Succeeded(c)'
          PROVE  /\ records'[l].result.version = records'[l].digest.expected + 1
                 /\ carts'[c] # None /\ records'[l].result.version <= carts'[c].version
      BY <1>0, <1>6, ToldVersions
    <2>2. ASSUME NEW l \in Succeeded(c)', NEW m \in Succeeded(c)',
                 records'[m].result.version = records'[l].result.version
          PROVE  l = m
      <3>1. CASE l = k \/ m = k
        BY <1>6, <1>5, <2>2, <3>1
      <3>2. CASE l # k /\ m # k
        BY <1>1, <2>2, <3>2 DEF VersionsAreTold
      <3> QED
        BY <3>1, <3>2
    <2> QED
      BY <2>1, <2>2 DEF VersionsAreTold
  <1>3. Distinct(c) /\ Distinct(c)' /\ Reads(c)'
    BY <1>1, <1>2, ToldDistinct, ToldDistinctOn, HistoryReadsOn DEF HistoriesRead
  <1>4. ASSUME \A l \in Succeeded(c)': operationOf'[l] # "merge"
        PROVE  carts'[c].lines = History(c)'[carts'[c].version]
    <2>0. operationOf[k] # "merge" /\ \A l \in Succeeded(c): operationOf[l] # "merge"
      BY <1>4
    <2>1. \A n \in 1..N: History(c)'[n] = History(c)[n]
      <3>1. /\ Succeeded(c) \subseteq Succeeded(c)'
            /\ \A l \in Succeeded(c)' \ Succeeded(c): records'[l].result.version \notin 1..N
        BY <1>6
      <3> QED
        BY <1>3, <3>1, HistoryAgrees
    <2>2. carts[c].lines = History(c)[N]
      BY <1>1, <1>6, <2>0 DEF LinesFollow
    <2>3. lines = History(c)'[N]
      BY <1>0, <2>1, <2>2
    <2>4. PICK m \in 2..MaxVersion: m = N + 1 /\ m - 1 = N
      BY <1>0, <1>6
    <2>5. History(c)'[m] = Replayed(History(c)[m - 1], k)'
      BY <1>3, <1>6, <2>4 DEF Reads
    <2>6. Replayed(History(c)[m - 1], k)' = Replayed(lines, k)'
      BY <2>3, <2>4 DEF Replayed
    <2> QED
      BY <1>6, <2>0, <2>4, <2>5, <2>6
  <1> QED
    BY <1>2, <1>4 DEF LinesFollow
-----------------------------------------------------------------------------
(* A step of one connection, with the committed carts as they were: what    *)
(* that connection knows and holds afterwards is all there is to show.      *)
LEMMA SessionStep ==
    ASSUME CommandsInv, EngineInv', NEW s \in Slots,
           \A t \in Slots \ {s}: /\ session'[t] = session[t] /\ rows'[t] = rows[t]
                                 /\ seen'[t] = seen[t] /\ draft'[t] = draft[t],
           carts' = carts, visits' = visits, clock \in 0..Horizon => clock' \in 0..Horizon,
           operationOf' = operationOf, offer' = offer, records' = records,
           rows' \in [Slots -> SUBSET CartIds], DOMAIN seen' = Slots, DOMAIN draft' = Slots,
           \A c \in DOMAIN draft'[s]: c \in CartIds /\ draft'[s][c] \in Carts,
           Served(s)', RowsOK(s)', DraftOK(s)',
           \A t \in Slots \ {s}: DOMAIN seen'[s] \cap DOMAIN seen[t] = {}
    PROVE  CommandsInv'
  <1>1. CartTypeOK'
    <2>1. \A c \in DOMAIN seen'[s]: c \in CartIds /\ seen'[s][c] \in Carts
      BY DEF RowsOK, CommandsInv, CartTypeOK
    <2>2. ASSUME NEW t \in Slots
          PROVE  /\ \A c \in DOMAIN seen'[t]: c \in CartIds /\ seen'[t][c] \in Carts
                 /\ \A c \in DOMAIN draft'[t]: c \in CartIds /\ draft'[t][c] \in Carts
      <3>1. CASE t = s
        BY <2>1, <3>1
      <3>2. CASE t # s
        <4>1. seen'[t] = seen[t] /\ draft'[t] = draft[t]
          BY <3>2
        <4> QED
          BY <4>1 DEF CommandsInv, CartTypeOK
      <3> QED
        BY <3>1, <3>2
    <2>3. /\ carts' \in [CartIds -> Carts \cup {None}] /\ clock' \in 0..Horizon
          /\ visits' \in [Visitors -> Visiting \cup {None}]
          /\ \A k \in Keys: operationOf'[k] \in KeyOperations[k]
          /\ offer' \in [Variants -> Facts]
      BY DEF CommandsInv, CartTypeOK
    <2> QED
      BY <2>2, <2>3 DEF CartTypeOK, Carts, Contents, LinesOf, Visiting
  <1>2. ASSUME NEW t \in Slots PROVE Served(t)' /\ RowsOK(t)' /\ DraftOK(t)'
    <2>1. CASE t = s
      BY <2>1
    <2>2. CASE t # s
      <3>1. session'[t] = session[t] /\ rows'[t] = rows[t] /\ seen'[t] = seen[t] /\ draft'[t] = draft[t]
        BY <2>2
      <3>2. (\A c \in rows[t]: carts'[c] # None) /\ (\A c \in DOMAIN seen[t]: carts'[c] = carts[c])
        BY SessionFacts DEF RowsOK
      <3> QED
        BY <3>1, <3>2, SlotKept
    <2> QED
      BY <2>1, <2>2
  <1>3. RowLocks'
    BY DEF CommandsInv, RowLocks
  <1>4. OneOpenCart'
    BY DEF CommandsInv, OneOpenCart, ActiveOf
  <1>5. CartIsItsHistory'
    <2>1. ASSUME NEW c \in CartIds PROVE VersionsAreTold(c)' /\ LinesFollow(c)'
      <3>1. Succeeded(c)' = Succeeded(c)
        BY DEF Succeeded
      <3> QED
        BY <3>1, HistoryKept
    <2> QED
      BY <2>1 DEF CartIsItsHistory
  <1> QED
    BY <1>1, <1>2, <1>3, <1>4, <1>5 DEF CommandsInv

(* A step that moves one session on and reads or writes no cart.            *)
LEMMA StageStep ==
    ASSUME CommandsInv, EngineInv', NEW s \in Slots, NEW new, session' = [session EXCEPT ![s] = new],
           carts' = carts, visits' = visits, clock' = clock,
           operationOf' = operationOf, offer' = offer, records' = records,
           rows' = rows, seen' = seen, draft' = draft,
           new.at \notin {"read", "started", "wrote", "committing", "orphan"} => rows[s] = {},
           Served(s)', DraftOK(s)'
    PROVE  CommandsInv'
  <1>0. /\ session \in [Slots -> Sessions] /\ rows \in [Slots -> SUBSET CartIds]
        /\ DOMAIN seen = Slots /\ DOMAIN draft = Slots
        /\ \A c \in DOMAIN draft[s]: c \in CartIds /\ draft[s][c] \in Carts
        /\ \A t \in Slots \ {s}: DOMAIN seen[s] \cap DOMAIN seen[t] = {}
    BY DEF CommandsInv, EngineInv, TypeOK, CartTypeOK, RowLocks
  <1>1. session'[s] = new
    BY <1>0
  <1>2. RowsOK(s)'
    BY <1>1, SessionFacts DEF RowsOK, ToLock
  <1>3. \A t \in Slots \ {s}: /\ session'[t] = session[t] /\ rows'[t] = rows[t]
                              /\ seen'[t] = seen[t] /\ draft'[t] = draft[t]
    BY <1>0
  <1> QED
    BY <1>0, <1>2, <1>3, SessionStep

(* A session without an effect and with an empty draft owes nothing.        *)
LEMMA NothingDrafted ==
    ASSUME NEW s, DOMAIN draft'[s] = {}, session'[s].effect = FALSE, session'[s].at # "started"
    PROVE  DraftOK(s)'
  BY DEF DraftOK, EndDrafted

(* A request that goes on with what it has read keeps what was said of it.   *)
LEMMA RequestKept ==
    ASSUME CommandsInv, NEW s \in Slots, session[s].at # "idle",
           session'[s].key = session[s].key, session'[s].digest = session[s].digest,
           operationOf' = operationOf, seen'[s] = seen[s]
    PROVE  /\ Operation(s)' = Operation(s) /\ Input(s)' = Input(s) /\ Named(s)' = Named(s)
           /\ Served(s)'
           /\ Owned(s)' = Owned(s) /\ StillOpen(s)' = StillOpen(s)
           /\ Operation(s) # "merge" => NewLines(s)' = NewLines(s)
           /\ draft'[s] = draft[s] =>
                  (EffectDrafted(s) => EffectDrafted(s)') /\ EndDrafted(s)' = EndDrafted(s)
  <1>1. Operation(s)' = Operation(s) /\ Input(s)' = Input(s) /\ Named(s)' = Named(s)
    BY DEF Operation, Input, Named
  <1>2. Served(s)'
    BY <1>1, SessionFacts DEF Served
  <1>3. Owned(s)' = Owned(s)
    BY <1>1 DEF Owned, AllFound
  <1>4. StillOpen(s)' = StillOpen(s)
    BY <1>1, <1>3 DEF StillOpen
  <1>5. Operation(s) # "merge" => NewLines(s)' = NewLines(s)
    BY <1>1, InputFacts DEF NewLines
  <1>6. ASSUME draft'[s] = draft[s]
        PROVE  (EffectDrafted(s) => EffectDrafted(s)') /\ EndDrafted(s)' = EndDrafted(s)
    <2>1. EffectDrafted(s) => EffectDrafted(s)'
      <3>1. MergeDrafted(s) => MergeDrafted(s)'
        BY <1>1, <1>6 DEF MergeDrafted, AsMerged
      <3> QED
        BY <1>1, <1>4, <1>5, <1>6, <3>1 DEF EffectDrafted
    <2>2. EndDrafted(s)' = EndDrafted(s)
      BY <1>6 DEF EndDrafted, AsExpired
    <2> QED
      BY <2>1, <2>2
  <1> QED
    BY <1>1, <1>2, <1>3, <1>4, <1>5, <1>6

(* The command lock, and a COMMIT whose answer is lost.                     *)
LEMMA EngineOnlyStep ==
    ASSUME CommandsInv, EngineInv', NEW s \in Slots, EngineOnly(s)
    PROVE  CommandsInv'
  <1>0. session \in [Slots -> Sessions]
    BY DEF CommandsInv, EngineInv, TypeOK
  <1>1. ASSUME NEW at \in {"locked", "orphan"},
               at = "locked" => session[s].at = "begun", at = "orphan" => session[s].at = "committing",
               session' = [session EXCEPT ![s].at = at]
        PROVE  Served(s)' /\ DraftOK(s)'
    <2>1. /\ session'[s].at = at /\ session'[s].key = session[s].key /\ session'[s].digest = session[s].digest
          /\ session'[s].effect = session[s].effect /\ session'[s].reply = session[s].reply
      BY <1>0, <1>1 DEF Sessions
    <2>2. /\ carts' = carts /\ operationOf' = operationOf /\ seen' = seen /\ draft' = draft
          /\ session[s].at # "idle"
      BY <1>1 DEF EngineOnly, cartVars, work
    <2>4. Served(s)'
      BY <2>1, <2>2, RequestKept
    <2>5. CASE at = "locked"
      <3>1. DOMAIN draft[s] = {} /\ session[s].effect = FALSE
        BY <1>1, <2>5, SessionFacts DEF DraftOK, SessionOK, BeforeRecord
      <3> QED
        BY <2>1, <2>2, <2>4, <2>5, <3>1, NothingDrafted
    <2>6. CASE at = "orphan"
      <3>1. DraftOK(s)
        BY SessionFacts
      <3>2. (EffectDrafted(s) => EffectDrafted(s)') /\ EndDrafted(s)' = EndDrafted(s)
        BY <2>1, <2>2, RequestKept
      <3>3. Input(s)' = Input(s)
        BY <2>1, <2>2, RequestKept
      <3> QED
        BY <1>1, <2>1, <2>2, <2>4, <2>6, <3>1, <3>2, <3>3 DEF DraftOK
    <2> QED
      BY <2>5, <2>6
  <1>2. PICK at \in {"locked", "orphan"}:
            /\ at = "locked" => session[s].at = "begun"
            /\ at = "orphan" => session[s].at = "committing"
            /\ session' = [session EXCEPT ![s].at = at]
    BY DEF EngineOnly, TakeCommandLock, CommitLost
  <1>3. Served(s)' /\ DraftOK(s)'
    BY <1>1, <1>2
  <1>4. at \notin {"read", "started", "wrote", "committing", "orphan"} => rows[s] = {}
    BY <1>2, SessionFacts DEF RowsOK
  <1>5. /\ carts' = carts /\ visits' = visits /\ clock' = clock
        /\ operationOf' = operationOf /\ offer' = offer
        /\ rows' = rows /\ seen' = seen /\ draft' = draft /\ records' = records
    BY DEF EngineOnly, TakeCommandLock, CommitLost, cartVars, work, durable
  <1> DEFINE new == [session[s] EXCEPT !.at = at]
  <1>6. session' = [session EXCEPT ![s] = new]
    BY <1>2
  <1>7. new.at = at
    BY <1>0 DEF Sessions
  <1> HIDE DEF new
  <1> QED
    BY <1>3, <1>4, <1>5, <1>6, <1>7, StageStep

(* A request arrives.                                                       *)
LEMMA ReceiveStep ==
    ASSUME CommandsInv, EngineInv', NEW s \in Slots, NEW k \in Keys, NEW d \in Digests, ReceiveCart(s, k, d)
    PROVE  CommandsInv'
  <1> DEFINE new == [Idle EXCEPT !.at = "begun", !.key = k, !.digest = d]
  <1>0. session \in [Slots -> Sessions] /\ session[s].at = "idle"
    BY DEF CommandsInv, EngineInv, TypeOK, ReceiveCart, Receive
  <1>1. session' = [session EXCEPT ![s] = new]
    BY DEF ReceiveCart, Receive
  <1>2. /\ carts' = carts /\ visits' = visits /\ clock' = clock
        /\ operationOf' = operationOf /\ offer' = offer
        /\ rows' = rows /\ seen' = seen /\ draft' = draft /\ records' = records
    BY DEF ReceiveCart, Receive, cartVars, work, durable
  <1>3. new.at = "begun" /\ new.key = k /\ new.digest = d /\ new.effect = FALSE
    BY DEF Idle
  <1> HIDE DEF new
  <1>4. Served(s)'
    BY <1>0, <1>1, <1>2, <1>3 DEF Served, Operation, Input, ReceiveCart
  <1>5. DraftOK(s)'
    <2>1. DOMAIN draft[s] = {}
      BY <1>0, SessionFacts DEF DraftOK
    <2> QED
      BY <1>0, <1>1, <1>2, <1>3, <2>1, NothingDrafted
  <1>6. rows[s] = {}
    BY <1>0, SessionFacts DEF RowsOK
  <1> QED
    BY <1>1, <1>2, <1>4, <1>5, <1>6, StageStep

(* The customer row is locked.                                              *)
LEMMA AuthorizeStep ==
    ASSUME CommandsInv, EngineInv', NEW s \in Slots, AuthorizeOwner(s)
    PROVE  CommandsInv'
  <1> DEFINE new == [session[s] EXCEPT !.at = "authorized"]
  <1>0. session \in [Slots -> Sessions] /\ session[s].at = "locked"
    BY DEF CommandsInv, EngineInv, TypeOK, AuthorizeOwner, Authorize
  <1>1. session' = [session EXCEPT ![s] = new]
    BY DEF AuthorizeOwner, Authorize
  <1>2. /\ carts' = carts /\ visits' = visits /\ clock' = clock
        /\ operationOf' = operationOf /\ offer' = offer
        /\ rows' = rows /\ seen' = seen /\ draft' = draft /\ records' = records
    BY DEF AuthorizeOwner, Authorize, cartVars, work, durable
  <1>3. /\ new.at = "authorized" /\ new.key = session[s].key /\ new.digest = session[s].digest
        /\ new.effect = session[s].effect
    BY <1>0 DEF Sessions
  <1> HIDE DEF new
  <1>4. session'[s] = new
    BY <1>0, <1>1
  <1>5. Served(s)'
    BY <1>0, <1>2, <1>3, <1>4, RequestKept
  <1>6. DraftOK(s)'
    <2>1. DOMAIN draft[s] = {} /\ session[s].effect = FALSE
      BY <1>0, SessionFacts DEF DraftOK, SessionOK, BeforeRecord
    <2> QED
      BY <1>2, <1>3, <1>4, <2>1, NothingDrafted
  <1>7. rows[s] = {}
    BY <1>0, SessionFacts DEF RowsOK
  <1> QED
    BY <1>1, <1>2, <1>5, <1>6, <1>7, StageStep

(* The guard let the command pass: it is answered from its record, or its   *)
(* target is the open cart of its caller when execute() begins.             *)
LEMMA AdmitStep ==
    ASSUME CommandsInv, EngineInv', NEW s \in Slots, AdmitCart(s)
    PROVE  CommandsInv'
  <1>0. session \in [Slots -> Sessions] /\ session[s].at = "read"
    BY DEF CommandsInv, EngineInv, TypeOK, AdmitCart, GuardReady
  <1>1. PICK new: /\ session' = [session EXCEPT ![s] = new]
                  /\ new.key = session[s].key /\ new.digest = session[s].digest
                  /\ new.effect = session[s].effect /\ new.at \in {"committing", "started"}
    <2>1. CASE AnswerFromRecord(s)
      <3> DEFINE new == [session[s] EXCEPT !.at = "committing", !.reply = session'[s].reply]
      <3>1. session' = [session EXCEPT ![s] = new]
        BY <1>0, <2>1 DEF AnswerFromRecord, Sessions
      <3>2. /\ new.key = session[s].key /\ new.digest = session[s].digest
            /\ new.effect = session[s].effect /\ new.at = "committing"
        BY <1>0 DEF Sessions
      <3> QED
        BY <3>1, <3>2
    <2>2. CASE Start(s)
      <3> DEFINE new == [session[s] EXCEPT !.at = "started", !.row = NewRow(session[s].digest)]
      <3>1. session' = [session EXCEPT ![s] = new]
        BY <1>0, <2>2 DEF Start, Sessions
      <3>2. /\ new.key = session[s].key /\ new.digest = session[s].digest
            /\ new.effect = session[s].effect /\ new.at = "started"
        BY <1>0 DEF Sessions
      <3> QED
        BY <3>1, <3>2
    <2> QED
      BY <2>1, <2>2 DEF AdmitCart
  <1>2. /\ carts' = carts /\ visits' = visits /\ clock' = clock
        /\ operationOf' = operationOf /\ offer' = offer
        /\ rows' = rows /\ seen' = seen /\ draft' = draft /\ records' = records
    BY DEF AdmitCart, AnswerFromRecord, Start, cartVars, work, durable
  <1>3. session'[s] = new
    BY <1>0, <1>1
  <1>4. Served(s)' /\ StillOpen(s)' = StillOpen(s)
    BY <1>0, <1>1, <1>2, <1>3, RequestKept
  <1>5. StillOpen(s)
    BY DEF AdmitCart, Admitted, Open, StillOpen
  <1>6. DraftOK(s)'
    <2>1. DOMAIN draft[s] = {} /\ session[s].effect = FALSE
      BY <1>0, SessionFacts DEF DraftOK, SessionOK, BeforeRecord
    <2> QED
      BY <1>1, <1>2, <1>3, <1>4, <1>5, <2>1 DEF DraftOK, EndDrafted
  <1> QED
    BY <1>1, <1>2, <1>4, <1>6, StageStep

(* A refusal, before execute() wrote anything.                              *)
LEMMA RefuseStep ==
    ASSUME CommandsInv, EngineInv', NEW s \in Slots, RefuseCart(s)
    PROVE  CommandsInv'
  <1> DEFINE new == [session[s] EXCEPT !.at = "committing", !.reply = Refusal(Rejection(s)), !.effect = FALSE,
                                       !.row = CompletedRow(session[s].row.digest, Refusal(Rejection(s)))]
  <1>0. session \in [Slots -> Sessions] /\ session[s].at = "started"
    BY DEF CommandsInv, EngineInv, TypeOK, RefuseCart
  <1>1. session' = [session EXCEPT ![s] = new]
    BY DEF RefuseCart, Refuse, Complete
  <1>2. /\ carts' = carts /\ visits' = visits /\ clock' = clock
        /\ operationOf' = operationOf /\ offer' = offer
        /\ rows' = rows /\ seen' = seen /\ draft' = draft /\ records' = records
    BY DEF RefuseCart, Refuse, cartVars, work, durable
  <1>3. /\ new.at = "committing" /\ new.key = session[s].key /\ new.digest = session[s].digest
        /\ new.effect = FALSE
    BY <1>0 DEF Sessions
  <1> HIDE DEF new
  <1>4. session'[s] = new
    BY <1>0, <1>1
  <1>5. Served(s)'
    BY <1>0, <1>2, <1>3, <1>4, RequestKept
  <1>6. DraftOK(s)'
    <2>1. DOMAIN draft[s] = {}
      BY <1>0, SessionFacts DEF DraftOK
    <2> QED
      BY <1>2, <1>3, <1>4, <2>1, NothingDrafted
  <1> QED
    BY <1>1, <1>2, <1>3, <1>5, <1>6, StageStep

(* The stored outcome tells the version that execute() wrote.               *)
LEMMA FinishStep ==
    ASSUME CommandsInv, EngineInv', NEW s \in Slots, FinishCart(s)
    PROVE  CommandsInv'
  <1> DEFINE r == Done(draft[s][Input(s).cart].version)
             new == [session[s] EXCEPT !.at = "committing", !.reply = r, !.effect = session[s].effect,
                                       !.row = CompletedRow(session[s].row.digest, r)]
  <1>0. session \in [Slots -> Sessions] /\ session[s].at = "wrote"
    BY DEF CommandsInv, EngineInv, TypeOK, FinishCart
  <1>1. session' = [session EXCEPT ![s] = new]
    BY DEF FinishCart, Succeed, Complete
  <1>2. /\ carts' = carts /\ visits' = visits /\ clock' = clock
        /\ operationOf' = operationOf /\ offer' = offer
        /\ rows' = rows /\ seen' = seen /\ draft' = draft /\ records' = records
    BY DEF FinishCart, Succeed, cartVars, work, durable
  <1>3. /\ new.at = "committing" /\ new.key = session[s].key /\ new.digest = session[s].digest
        /\ new.effect = session[s].effect /\ new.reply = r
    BY <1>0 DEF Sessions
  <1> HIDE DEF new
  <1>4. session'[s] = new
    BY <1>0, <1>1
  <1>5. /\ Served(s)' /\ Input(s)' = Input(s) /\ EndDrafted(s)' = EndDrafted(s)
        /\ EffectDrafted(s) => EffectDrafted(s)'
    BY <1>0, <1>2, <1>3, <1>4, RequestKept
  <1>6. DraftOK(s)'
    BY <1>2, <1>3, <1>4, <1>5, SessionFacts DEF DraftOK
  <1> QED
    BY <1>1, <1>2, <1>3, <1>5, <1>6, StageStep

(* The row that the guard asks for next has the least id of those left.     *)
LEMMA NextIsLeast ==
    ASSUME CommandsInv, NEW s \in Slots, ToLock(s) # {}
    PROVE  NextToLock(s) \in ToLock(s) /\ \A e \in ToLock(s): NextToLock(s) <= e
  <1>1. ToLock(s) \subseteq Nat
    BY CartConstants DEF ToLock, CommandsInv, CartTypeOK
  <1>2. \E c \in ToLock(s): \A e \in ToLock(s): c <= e
    BY <1>1, LeastMember
  <1> QED
    BY <1>2, Zenon DEF NextToLock

(* A locked row is a committed cart.                                        *)
LEMMA SeenTyped ==
    ASSUME CommandsInv, NEW s \in Slots, NEW c \in DOMAIN seen[s]
    PROVE  /\ c \in CartIds /\ seen[s][c] \in Carts /\ seen[s][c] = carts[c]
           /\ seen[s][c].version \in 1..MaxVersion
           /\ seen[s][c].lines \in Contents /\ seen[s][c].lines \in [Variants -> 0..MaxQuantity]
  <1>1. c \in CartIds /\ seen[s][c] \in Carts
    BY DEF CommandsInv, CartTypeOK
  <1>2. seen[s][c] = carts[c]
    BY SessionFacts DEF RowsOK
  <1>3. seen[s][c].lines \in Contents /\ seen[s][c].version \in 1..MaxVersion
    BY <1>1 DEF Carts
  <1> QED
    BY <1>1, <1>2, <1>3 DEF Contents

(* An expired cart is a cart, as long as its version can be counted.        *)
LEMMA ExpiredTyped ==
    ASSUME NEW row \in Carts, row.version < MaxVersion
    PROVE  /\ AsExpired(row) \in Carts /\ AsExpired(row) # None
           /\ AsExpired(row).owner = row.owner /\ AsExpired(row).state = "expired"
           /\ AsExpired(row).lines = row.lines /\ AsExpired(row).version = row.version + 1
  <1>1. row.version + 1 \in 1..MaxVersion
    BY CartConstants DEF Carts
  <1>2. AsExpired(row) \in Carts
    BY <1>1 DEF Carts, AsExpired
  <1> QED
    BY <1>2, NoneIsNoCart DEF Carts, AsExpired

(* The guard's SELECT starts with no row locked.                            *)
LEMMA SelectStep ==
    ASSUME CommandsInv, EngineInv', NEW s \in Slots, SelectCarts(s)
    PROVE  CommandsInv'
  <1>0. /\ session \in [Slots -> Sessions] /\ session[s].at = "authorized"
        /\ rows \in [Slots -> SUBSET CartIds] /\ DOMAIN seen = Slots /\ DOMAIN draft = Slots
    BY DEF CommandsInv, EngineInv, TypeOK, SelectCarts, ReadRecord, CartTypeOK
  <1>1. /\ session'[s].at = "read" /\ session'[s].key = session[s].key
        /\ session'[s].digest = session[s].digest /\ session'[s].effect = session[s].effect
        /\ \A t \in Slots \ {s}: session'[t] = session[t]
    BY <1>0 DEF SelectCarts, ReadRecord, Sessions
  <1>2. /\ carts' = carts /\ visits' = visits /\ clock' = clock
        /\ operationOf' = operationOf /\ offer' = offer
        /\ seen' = seen /\ draft' = draft /\ records' = records
    BY DEF SelectCarts, ReadRecord, cartVars, durable
  <1>3. rows' = [rows EXCEPT ![s] = {c \in Named(s): carts[c] # None}]
    BY DEF SelectCarts
  <1>4. Named(s) \subseteq CartIds
    BY <1>0, InputFacts
  <1>5. rows' \in [Slots -> SUBSET CartIds] /\ \A t \in Slots \ {s}: rows'[t] = rows[t]
    BY <1>0, <1>3, <1>4
  <1>6. DOMAIN seen[s] = {} /\ DOMAIN draft[s] = {} /\ session[s].effect = FALSE
    BY <1>0, SessionFacts DEF RowsOK, DraftOK, SessionOK, BeforeRecord
  <1>7. Served(s)'
    BY <1>0, <1>1, <1>2, RequestKept
  <1>8. RowsOK(s)'
    BY <1>0, <1>1, <1>2, <1>3, <1>6 DEF RowsOK
  <1>9. DraftOK(s)'
    BY <1>1, <1>2, <1>6, NothingDrafted
  <1> QED
    BY <1>0, <1>1, <1>2, <1>5, <1>6, <1>7, <1>8, <1>9, SessionStep

(* The guard locks a row nobody else holds, above all it has locked.        *)
LEMMA LockStep ==
    ASSUME CommandsInv, EngineInv', NEW s \in Slots, LockCart(s)
    PROVE  CommandsInv'
  <1> DEFINE n == NextToLock(s)
             got == [c \in DOMAIN seen[s] \cup {n} |-> IF c \in DOMAIN seen[s] THEN seen[s][c] ELSE carts[c]]
  <1>0. /\ session \in [Slots -> Sessions] /\ session[s].at = "read"
        /\ rows \in [Slots -> SUBSET CartIds] /\ DOMAIN seen = Slots /\ DOMAIN draft = Slots
    BY DEF CommandsInv, EngineInv, TypeOK, LockCart, CartTypeOK
  <1>1. n \in ToLock(s) /\ \A e \in ToLock(s): n <= e
    BY NextIsLeast DEF LockCart
  <1>2. seen' = [seen EXCEPT ![s] = got]
    BY <1>0 DEF LockCart
  <1>3. /\ carts' = carts /\ visits' = visits /\ clock' = clock
        /\ operationOf' = operationOf /\ offer' = offer
        /\ rows' = rows /\ draft' = draft /\ records' = records /\ session' = session
    BY DEF LockCart, cartVars, vars
  <1>4. \A t \in Slots \ {s}: n \notin DOMAIN seen[t]
    BY DEF LockCart, CartFree, HoldsCart
  <1> HIDE DEF n
  <1>5. /\ DOMAIN seen' = Slots /\ seen'[s] = got /\ DOMAIN got = DOMAIN seen[s] \cup {n}
        /\ \A t \in Slots \ {s}: seen'[t] = seen[t]
    BY <1>0, <1>2
  <1>6. \A t \in Slots \ {s}: DOMAIN seen'[s] \cap DOMAIN seen[t] = {}
    BY <1>4, <1>5 DEF CommandsInv, RowLocks
  <1>7. Served(s)'
    BY <1>3, SessionFacts DEF Served, Operation, Input
  <1>8. RowsOK(s)'
    <2>1. RowsOK(s) /\ n \in rows[s] /\ n \notin DOMAIN seen[s] /\ ToLock(s) \subseteq Nat
      BY <1>0, <1>1, SessionFacts, CartConstants DEF ToLock
    <2>2. ToLock(s)' = ToLock(s) \ {n}
      BY <1>3, <1>5 DEF ToLock
    <2>3. \A c \in DOMAIN got: c \in rows[s] /\ got[c] = carts[c]
      BY <2>1 DEF RowsOK
    <2>4. ASSUME NEW c \in DOMAIN got, NEW e \in ToLock(s) \ {n} PROVE c < e
      <3>1. CASE c = n
        BY <1>1, <2>1, <2>4, <3>1
      <3>2. CASE c # n
        BY <2>1, <2>4, <3>2 DEF RowsOK
      <3> QED
        BY <3>1, <3>2
    <2> QED
      BY <1>0, <1>3, <1>5, <2>1, <2>2, <2>3, <2>4 DEF RowsOK
  <1>9. DraftOK(s)'
    <2>1. DOMAIN draft[s] = {} /\ session[s].effect = FALSE
      BY <1>0, SessionFacts DEF DraftOK, SessionOK, BeforeRecord
    <2> QED
      BY <1>0, <1>3, <2>1, NothingDrafted
  <1>10. \A c \in DOMAIN draft'[s]: c \in CartIds /\ draft'[s][c] \in Carts
    BY <1>3 DEF CommandsInv, CartTypeOK
  <1> QED
    BY <1>0, <1>3, <1>5, <1>6, <1>7, <1>8, <1>9, <1>10, SessionStep

(* A denial ends a cart that was active, and none but it.                   *)
LEMMA DenyStep ==
    ASSUME CommandsInv, EngineInv', NEW s \in Slots, DenyCart(s)
    PROVE  CommandsInv'
  <1> DEFINE ended == [c \in Expiring(s) |-> AsExpired(seen[s][c])]
  <1>0. /\ session \in [Slots -> Sessions] /\ session[s].at = "read"
        /\ rows \in [Slots -> SUBSET CartIds] /\ DOMAIN seen = Slots /\ DOMAIN draft = Slots
        /\ \A t \in Slots \ {s}: DOMAIN seen[s] \cap DOMAIN seen[t] = {}
    BY DEF CommandsInv, EngineInv, TypeOK, DenyCart, Deny, CartTypeOK, RowLocks
  <1>1. /\ session'[s].at = "committing" /\ session'[s].key = session[s].key
        /\ session'[s].digest = session[s].digest /\ session'[s].effect = session[s].effect
        /\ \A t \in Slots \ {s}: session'[t] = session[t]
    BY <1>0 DEF DenyCart, Deny, Sessions
  <1>2. /\ carts' = carts /\ visits' = visits /\ clock' = clock
        /\ operationOf' = operationOf /\ offer' = offer
        /\ rows' = rows /\ seen' = seen /\ records' = records
    BY DEF DenyCart, Deny, cartVars, durable
  <1>3. draft' = [draft EXCEPT ![s] = ended]
    BY DEF DenyCart
  <1>4. \A c \in Expiring(s): /\ c \in DOMAIN seen[s]
                              /\ seen[s][c].state = "active" /\ seen[s][c].version < MaxVersion
    BY DEF DenyCart, Expiring, FirstPast, Owned, AllFound, Named
  <1>5. \A c \in Expiring(s): c \in CartIds /\ AsExpired(seen[s][c]) \in Carts
    BY <1>4, SeenTyped, ExpiredTyped
  <1> HIDE DEF ended
  <1>6. DOMAIN draft' = Slots /\ draft'[s] = ended /\ \A t \in Slots \ {s}: draft'[t] = draft[t]
    BY <1>0, <1>3
  <1>7. DOMAIN ended = Expiring(s) /\ \A c \in Expiring(s): ended[c] = AsExpired(seen[s][c])
    BY DEF ended
  <1>8. Served(s)'
    BY <1>0, <1>1, <1>2, RequestKept
  <1>9. RowsOK(s)'
    BY <1>1, <1>2, SessionFacts DEF RowsOK, ToLock
  <1>10. DraftOK(s)'
    <2>1. session[s].effect = FALSE
      BY <1>0, SessionFacts DEF SessionOK, BeforeRecord
    <2>2. EndDrafted(s)'
      BY <1>2, <1>4, <1>6, <1>7 DEF EndDrafted, AsExpired
    <2> QED
      BY <1>1, <2>1, <2>2 DEF DraftOK
  <1>11. \A c \in DOMAIN draft'[s]: c \in CartIds /\ draft'[s][c] \in Carts
    BY <1>5, <1>6, <1>7
  <1> QED
    BY <1>0, <1>1, <1>2, <1>6, <1>8, <1>9, <1>10, <1>11, SessionStep

(* The end of a transaction leaves its connection with nothing.             *)
LEMMA Released ==
    ASSUME CommandsInv, NEW s \in Slots, session' = [session EXCEPT ![s] = Idle], Release(s)
    PROVE  /\ rows' \in [Slots -> SUBSET CartIds] /\ DOMAIN seen' = Slots /\ DOMAIN draft' = Slots
           /\ DOMAIN seen'[s] = {} /\ DOMAIN draft'[s] = {}
           /\ Served(s)' /\ RowsOK(s)' /\ DraftOK(s)'
           /\ \A t \in Slots \ {s}: /\ session'[t] = session[t] /\ rows'[t] = rows[t]
                                    /\ seen'[t] = seen[t] /\ draft'[t] = draft[t]
  <1>1. /\ session \in [Slots -> Sessions] /\ rows \in [Slots -> SUBSET CartIds]
        /\ DOMAIN seen = Slots /\ DOMAIN draft = Slots
    BY DEF CommandsInv, EngineInv, TypeOK, CartTypeOK
  <1>2. session'[s].at = "idle" /\ session'[s].effect = FALSE
    BY <1>1 DEF Idle
  <1>3. rows'[s] = {} /\ seen'[s] = Nothing /\ draft'[s] = Nothing
    BY <1>1 DEF Release
  <1>4. DOMAIN Nothing = {}
    BY DEF Nothing
  <1>5. /\ rows' \in [Slots -> SUBSET CartIds] /\ DOMAIN seen' = Slots /\ DOMAIN draft' = Slots
        /\ \A t \in Slots \ {s}: /\ session'[t] = session[t] /\ rows'[t] = rows[t]
                                 /\ seen'[t] = seen[t] /\ draft'[t] = draft[t]
    BY <1>1 DEF Release
  <1>6. Served(s)'
    BY <1>2 DEF Served
  <1>7. RowsOK(s)'
    BY <1>2, <1>3, <1>4 DEF RowsOK
  <1>8. DraftOK(s)'
    BY <1>2, <1>3, <1>4, NothingDrafted
  <1> QED
    BY <1>3, <1>4, <1>5, <1>6, <1>7, <1>8

(* A transaction that ends without COMMIT leaves the carts as they were.    *)
LEMMA DiscardStep ==
    ASSUME CommandsInv, EngineInv', NEW s \in Slots, Discard(s)
    PROVE  CommandsInv'
  <1>1. /\ carts' = carts /\ visits' = visits /\ clock' = clock
        /\ operationOf' = operationOf /\ offer' = offer
        /\ records' = records /\ session' = [session EXCEPT ![s] = Idle] /\ Release(s)
    BY DEF Discard, Fail, CommitRefused, OrphanAborts, cartVars, durable
  <1>2. DOMAIN seen'[s] = {} /\ DOMAIN draft'[s] = {} /\ Served(s)' /\ RowsOK(s)' /\ DraftOK(s)'
    BY <1>1, Released
  <1>3. /\ rows' \in [Slots -> SUBSET CartIds] /\ DOMAIN seen' = Slots /\ DOMAIN draft' = Slots
        /\ \A t \in Slots \ {s}: /\ session'[t] = session[t] /\ rows'[t] = rows[t]
                                 /\ seen'[t] = seen[t] /\ draft'[t] = draft[t]
    BY <1>1, Released
  <1>4. /\ \A c \in DOMAIN draft'[s]: c \in CartIds /\ draft'[s][c] \in Carts
        /\ \A t \in Slots \ {s}: DOMAIN seen'[s] \cap DOMAIN seen[t] = {}
    BY <1>2
  <1> QED
    BY <1>1, <1>2, <1>3, <1>4, SessionStep

(* The lines that execute() writes are within the limits of the table.      *)
LEMMA NewLinesTyped ==
    ASSUME CommandsInv, NEW s \in Slots, session[s].at = "started", Rejection(s) = None
    PROVE  /\ NewLines(s) \in Contents
           /\ Named(s) \subseteq DOMAIN seen[s]
           /\ Input(s).cart \in DOMAIN seen[s]
           /\ Operation(s) = "merge" => Input(s).source \in DOMAIN seen[s]
  <1>1. Named(s) \subseteq DOMAIN seen[s]
    BY SessionFacts DEF DraftOK, StillOpen, Owned, AllFound
  <1>2. Input(s).cart \in DOMAIN seen[s] /\ (Operation(s) = "merge" => Input(s).source \in DOMAIN seen[s])
    BY <1>1 DEF Named
  <1>3. PICK lines \in [Variants -> 0..MaxQuantity]: lines = seen[s][Input(s).cart].lines
    BY <1>2, SeenTyped
  <1>4. /\ Input(s) \in CartInputs /\ MaxQuantity \in Nat
        /\ Operation(s) \in {"add", "change", "remove", "clear", "merge"}
    BY InputFacts, SessionFacts, CartConstants DEF Served
  <1>7. ~OverLimit(s) /\ ~MissingLine(s) /\ ~TooManyLines(s)
    BY NoneIsNoCart DEF Rejection, Codes
  <1>8. Operation(s) \in {"add", "change", "remove"} => Input(s).variant \in Variants
    BY <1>7 DEF OverLimit, MissingLine, LinesOf
  <1>5. \A v \in Variants: Limit(v) \in 0..MaxQuantity
    <2>1. \A v \in Variants: offer[v].most \in 1..MaxQuantity
      BY CartConstants DEF CommandsInv, CartTypeOK
    <2> QED
      BY <1>4, <2>1 DEF Limit, Lesser
  <1>6. NewLines(s) \in [Variants -> 0..MaxQuantity]
    <2>1. CASE Operation(s) = "add"
      <3>1. NewLines(s) = [lines EXCEPT ![Input(s).variant] = @ + Input(s).quantity]
        BY <1>3, <2>1 DEF NewLines
      <3>2. NewLines(s)[Input(s).variant] <= Limit(Input(s).variant)
        <4>1. NewLines(s)[Input(s).variant] \in Nat
          BY <1>4, <1>8, <2>1, <3>1 DEF CartInputs
        <4> QED
          BY <1>4, <1>5, <1>7, <1>8, <2>1, <4>1 DEF OverLimit
      <3> QED
        BY <1>4, <1>5, <1>8, <2>1, <3>1, <3>2 DEF CartInputs
    <2>2. CASE Operation(s) = "change"
      <3>1. NewLines(s) = [lines EXCEPT ![Input(s).variant] = Input(s).quantity]
        BY <1>3, <2>2 DEF NewLines
      <3> QED
        BY <1>4, <1>8, <2>2, <3>1 DEF CartInputs
    <2>3. CASE Operation(s) = "remove"
      <3>1. NewLines(s) = [lines EXCEPT ![Input(s).variant] = 0]
        BY <1>3, <2>3 DEF NewLines
      <3> QED
        BY <1>4, <1>8, <2>3, <3>1
    <2>4. CASE Operation(s) = "clear"
      <3>1. NewLines(s) = [w \in Variants |-> 0]
        BY <2>4 DEF NewLines
      <3> QED
        BY <1>4, <3>1
    <2>5. CASE Operation(s) = "merge"
      <3>1. PICK more \in [Variants -> 0..MaxQuantity]: more = seen[s][Input(s).source].lines
        BY <1>2, <2>5, SeenTyped
      <3>2. NewLines(s) = [w \in Variants |-> Lesser(Limit(w), lines[w] + more[w])]
        BY <1>3, <2>5, <3>1 DEF NewLines
      <3>3. \A w \in Variants: Lesser(Limit(w), lines[w] + more[w]) \in 0..MaxQuantity
        BY <1>4, <1>5 DEF Lesser
      <3> QED
        BY <3>2, <3>3
    <2> QED
      BY <1>4, <2>1, <2>2, <2>3, <2>4, <2>5
  <1>9. NewLines(s) \in Contents
    <2>1. IsFiniteSet(LinesOf(NewLines(s)))
      BY CartConstants, FS_Subset DEF LinesOf
    <2>2. Cardinality(LinesOf(NewLines(s))) \in Nat
      BY <2>1, FS_CardinalityType
    <2> QED
      BY <1>6, <1>7, <2>2, CartConstants DEF TooManyLines, Contents
  <1> QED
    BY <1>1, <1>2, <1>9
-----------------------------------------------------------------------------
(* A refreshed cart is a cart, as long as its version can be counted.       *)
LEMMA RefreshedTyped ==
    ASSUME NEW row \in Carts, row.version < MaxVersion, NEW lines \in Contents, NEW later \in 0..Horizon
    PROVE  /\ Refreshed(row, lines, later) \in Carts
           /\ Refreshed(row, lines, later).lines = lines
           /\ Refreshed(row, lines, later).version = row.version + 1
           /\ Refreshed(row, lines, later).state = row.state /\ Refreshed(row, lines, later).owner = row.owner
           /\ Refreshed(row, lines, later).expires = later + Lifetime
  <1>1. row.version + 1 \in 1..MaxVersion /\ later + Lifetime \in 0..(Horizon + Lifetime)
    BY CartConstants DEF Carts
  <1>2. Refreshed(row, lines, later) \in Carts
    BY <1>1 DEF Carts, Refreshed
  <1> QED
    BY <1>2 DEF Carts, Refreshed

(* So is the merged one.                                                    *)
LEMMA MergedTyped ==
    ASSUME NEW row \in Carts, row.version < MaxVersion, NEW c \in CartIds
    PROVE  /\ AsMerged(row, c) \in Carts /\ AsMerged(row, c).lines = row.lines
           /\ AsMerged(row, c).version = row.version + 1 /\ AsMerged(row, c).owner = row.owner
           /\ AsMerged(row, c).state = "merged" /\ AsMerged(row, c).into = c
  <1>1. row.version + 1 \in 1..MaxVersion
    BY CartConstants DEF Carts
  <1>2. AsMerged(row, c) \in Carts
    BY <1>1 DEF Carts, AsMerged
  <1> QED
    BY <1>2 DEF Carts, AsMerged

(* What execute() wrote, from what the guard had read.                      *)
LEMMA EffectWritten ==
    ASSUME CommandsInv, NEW s \in Slots, session[s].at = "started", Rejection(s) = None,
           \A c \in Named(s): seen[s][c].version < MaxVersion, NEW later \in 0..Horizon
    PROVE  /\ \A c \in Named(s): c \in CartIds /\ Effect(s, later)[c] \in Carts
           /\ DOMAIN Effect(s, later) = Named(s)
           /\ Effect(s, later)[Input(s).cart] = Refreshed(seen[s][Input(s).cart], NewLines(s), later)
           /\ Operation(s) = "merge" =>
                  Effect(s, later)[Input(s).source] = AsMerged(seen[s][Input(s).source], Input(s).cart)
  <1>1. /\ Named(s) \subseteq DOMAIN seen[s] /\ NewLines(s) \in Contents
        /\ Input(s).cart \in Named(s) /\ Input(s).cart \in CartIds
        /\ Operation(s) = "merge" => Input(s).source \in Named(s)
        /\ Input(s).source # Input(s).cart
    BY NewLinesTyped, InputFacts DEF CommandsInv, CartTypeOK, Named, CartInputs
  <1>2. ASSUME NEW c \in Named(s) PROVE c \in CartIds /\ Effect(s, later)[c] \in Carts
    <2>1. c \in CartIds /\ seen[s][c] \in Carts
      BY <1>1, SeenTyped
    <2>2. Refreshed(seen[s][c], NewLines(s), later) \in Carts
      BY <1>1, <2>1, RefreshedTyped
    <2>3. AsMerged(seen[s][c], Input(s).cart) \in Carts
      BY <1>1, <2>1, MergedTyped
    <2> QED
      BY <2>1, <2>2, <2>3 DEF Effect
  <1> QED
    BY <1>1, <1>2 DEF Effect

(* execute() writes the target of the command, and the source of a merge.   *)
LEMMA WriteStep ==
    ASSUME CommandsInv, EngineInv', NEW s \in Slots, WriteCart(s)
    PROVE  CommandsInv'
  <1>0. /\ session \in [Slots -> Sessions] /\ session[s].at = "started" /\ Rejection(s) = None
        /\ rows \in [Slots -> SUBSET CartIds] /\ DOMAIN seen = Slots /\ DOMAIN draft = Slots
        /\ \A t \in Slots \ {s}: DOMAIN seen[s] \cap DOMAIN seen[t] = {}
        /\ \A c \in Named(s): seen[s][c].version < MaxVersion
    BY DEF CommandsInv, EngineInv, TypeOK, WriteCart, Write, CartTypeOK, RowLocks
  <1>1. /\ session'[s].at = "wrote" /\ session'[s].key = session[s].key
        /\ session'[s].digest = session[s].digest /\ session'[s].effect = TRUE
        /\ \A t \in Slots \ {s}: session'[t] = session[t]
    BY <1>0 DEF WriteCart, Write, Sessions
  <1>11. PICK later \in 0..Horizon: clock' = later /\ draft' = [draft EXCEPT ![s] = Effect(s, later)]
    <2>1. PICK later \in clock..Horizon: clock' = later /\ draft' = [draft EXCEPT ![s] = Effect(s, later)]
      BY DEF WriteCart
    <2>2. clock \in 0..Horizon
      BY DEF CommandsInv, CartTypeOK
    <2>3. later \in 0..Horizon
      BY <2>1, <2>2, CartConstants
    <2> QED
      BY <2>1, <2>3
  <1>2. /\ carts' = carts /\ visits' = visits /\ clock' = later
        /\ operationOf' = operationOf /\ offer' = offer
        /\ rows' = rows /\ seen' = seen /\ records' = records
        /\ draft' = [draft EXCEPT ![s] = Effect(s, later)]
    BY <1>11 DEF WriteCart, Write, durable
  <1>4. DOMAIN draft' = Slots /\ draft'[s] = Effect(s, later) /\ \A t \in Slots \ {s}: draft'[t] = draft[t]
    BY <1>0, <1>2
  <1>5. /\ \A c \in Named(s): c \in CartIds /\ Effect(s, later)[c] \in Carts
        /\ DOMAIN Effect(s, later) = Named(s)
        /\ Effect(s, later)[Input(s).cart] = Refreshed(seen[s][Input(s).cart], NewLines(s), later)
        /\ Operation(s) = "merge" =>
               Effect(s, later)[Input(s).source] = AsMerged(seen[s][Input(s).source], Input(s).cart)
    BY <1>0, EffectWritten
  <1>6. /\ Served(s)' /\ Operation(s)' = Operation(s) /\ Input(s)' = Input(s) /\ Named(s)' = Named(s)
        /\ StillOpen(s)' = StillOpen(s) /\ (Operation(s) # "merge" => NewLines(s)' = NewLines(s))
    BY <1>0, <1>1, <1>2, RequestKept
  <1>7. RowsOK(s)'
    BY <1>0, <1>1, <1>2, SessionFacts DEF RowsOK, ToLock
  <1>8. EffectDrafted(s)'
    <2> DEFINE old == seen[s][Input(s).cart]
               new == Effect(s, later)[Input(s).cart]
    <2>1. StillOpen(s)
      BY <1>0, SessionFacts DEF DraftOK
    <2>2. /\ Input(s).cart \in DOMAIN seen[s] /\ NewLines(s) \in Contents
          /\ Operation(s) = "merge" => Input(s).source \in DOMAIN seen[s]
          /\ Input(s).cart \in Named(s) /\ (Operation(s) = "merge" => Input(s).source \in Named(s))
      BY <1>0, NewLinesTyped DEF Named
    <2>3. old \in Carts /\ old.version < MaxVersion
      BY <1>0, <2>2, SeenTyped
    <2>4. ~StaleVersion(s) /\ (Operation(s) = "merge" => seen[s][Input(s).source].state = "active")
      BY <1>0, NoneIsNoCart DEF Rejection, Codes
    <2>6. /\ new \in Carts /\ new.lines = NewLines(s)
          /\ new = [old EXCEPT !.lines = new.lines, !.version = @ + 1, !.expires = new.expires]
      <3> HIDE DEF old, new
      <3>1. new = Refreshed(old, NewLines(s), later)
        BY <1>5 DEF old, new
      <3>2. PICK row \in Carts, lines \in Contents: row = old /\ lines = NewLines(s)
        BY <2>2, <2>3
      <3>3. new = Refreshed(row, lines, later) /\ row.version < MaxVersion
        BY <2>3, <3>1, <3>2
      <3>4. new \in Carts /\ new.lines = lines /\ new.expires = later + Lifetime
        BY <3>3, RefreshedTyped
      <3>5. new = [row EXCEPT !.lines = new.lines, !.version = @ + 1, !.expires = new.expires]
        BY <3>3, <3>4 DEF Refreshed
      <3> QED
        BY <3>2, <3>4, <3>5
    <2>7. ASSUME Operation(s) = "merge" PROVE MergeDrafted(s)'
      <3> DEFINE source == seen[s][Input(s).source]
      <3>1. source.state = "active" /\ source.version < MaxVersion
        BY <1>0, <2>2, <2>4, <2>7
      <3>2. draft'[s][Input(s).source] = AsMerged(source, Input(s).cart)
        BY <1>4, <1>5, <2>7
      <3>3. ASSUME NEW v \in Variants
            PROVE  \E fact \in Facts: new.lines[v] = Lesser(Lesser(MaxQuantity, fact.most),
                                                           old.lines[v] + source.lines[v])
        <4>1. offer[v] \in Facts
          BY DEF CommandsInv, CartTypeOK
        <4>2. NewLines(s)[v] = Lesser(Limit(v), old.lines[v] + source.lines[v])
          BY <2>7 DEF NewLines
        <4> HIDE DEF new
        <4> QED
          BY <2>6, <4>1, <4>2 DEF Limit
      <3> QED
        BY <1>2, <1>4, <1>6, <3>1, <3>2, <3>3 DEF MergeDrafted, AsMerged
    <2>8. old.version = Input(s).expected
      BY <2>4 DEF StaleVersion
    <2> HIDE DEF new
    <2>9. new = draft'[s][Input(s).cart]
      BY <1>4 DEF new
    <2> QED
      BY <1>2, <1>4, <1>5, <1>6, <2>1, <2>6, <2>7, <2>8, <2>9 DEF EffectDrafted
  <1>9. DraftOK(s)'
    BY <1>1, <1>8 DEF DraftOK
  <1>10. \A c \in DOMAIN draft'[s]: c \in CartIds /\ draft'[s][c] \in Carts
    BY <1>4, <1>5
  <1> QED
    BY <1>0, <1>1, <1>2, <1>4, <1>6, <1>7, <1>9, <1>10, SessionStep
-----------------------------------------------------------------------------
(* What a transaction that is about to commit will make of a cart: it was   *)
(* active, keeps its owner, gets the next version, and new lines only as    *)
(* the target of an effect.                                                 *)
LEMMA DraftChanges ==
    ASSUME CommandsInv, NEW s \in Slots, session[s].at \in {"committing", "orphan"}, NEW c \in DOMAIN draft[s]
    PROVE  /\ c \in DOMAIN seen[s] /\ c \in CartIds
           /\ carts[c] \in Carts /\ carts[c] # None /\ carts[c].state = "active" /\ carts[c].version < MaxVersion
           /\ draft[s][c] \in Carts /\ draft[s][c] # None
           /\ draft[s][c].owner = carts[c].owner /\ draft[s][c].version = carts[c].version + 1
           /\ \/ session[s].effect /\ c = Input(s).cart
              \/ draft[s][c].lines = carts[c].lines /\ draft[s][c].state # "active"
           /\ draft[s][c].state = "merged" => session[s].effect /\ Operation(s) = "merge" /\ c = Input(s).source
  <1>1. draft[s][c] \in Carts /\ draft[s][c] # None
    BY NoneIsNoCart DEF CommandsInv, CartTypeOK
  <1>2. CASE session[s].effect
    <2>1. EffectDrafted(s)
      BY <1>2, SessionFacts DEF DraftOK
    <2>2. Named(s) \subseteq DOMAIN seen[s] /\ c \in Named(s) /\ Input(s).cart \in Named(s)
      BY <2>1 DEF EffectDrafted, StillOpen, Owned, AllFound, Named
    <2>3. c \in DOMAIN seen[s] /\ c \in CartIds /\ seen[s][c] = carts[c] /\ carts[c] \in Carts
      BY <2>2, SeenTyped
    <2>4. CASE c = Input(s).cart
      <3>1. carts[c].state = "active"
        BY <2>1, <2>3, <2>4 DEF EffectDrafted, StillOpen
      <3>2. PICK new: new = draft[s][c]
        OBVIOUS
      <3>3. new = [carts[c] EXCEPT !.lines = new.lines, !.version = @ + 1, !.expires = new.expires]
        BY <2>1, <2>3, <2>4, <3>2 DEF EffectDrafted
      <3>4. new.owner = carts[c].owner /\ new.version = carts[c].version + 1 /\ new.state = "active"
        BY <2>3, <3>1, <3>3 DEF Carts
      <3>5. carts[c].version < MaxVersion
        BY <1>1, <2>3, <3>2, <3>4, CartConstants DEF Carts
      <3>6. carts[c] # None
        BY <2>3, NoneIsNoCart
      <3>7. draft[s][c].state # "merged"
        BY <3>2, <3>4
      <3>8. draft[s][c].owner = carts[c].owner /\ draft[s][c].version = carts[c].version + 1
        BY <3>2, <3>4
      <3> QED
        BY <1>1, <1>2, <2>3, <2>4, <3>1, <3>5, <3>6, <3>7, <3>8
    <2>5. CASE c # Input(s).cart
      <3>1. Operation(s) = "merge" /\ c = Input(s).source
        BY <2>2, <2>5 DEF Named
      <3>2. /\ carts[c].state = "active" /\ carts[c].version < MaxVersion
            /\ draft[s][c] = AsMerged(carts[c], Input(s).cart)
        BY <2>1, <2>3, <3>1 DEF EffectDrafted, MergeDrafted
      <3>3. Input(s).cart \in CartIds
        BY <2>2, SeenTyped
      <3>4. /\ draft[s][c].owner = carts[c].owner /\ draft[s][c].version = carts[c].version + 1
            /\ draft[s][c].lines = carts[c].lines /\ draft[s][c].state = "merged"
        BY <2>3, <3>2, <3>3, MergedTyped
      <3> QED
        BY <1>1, <1>2, <2>3, <3>1, <3>2, <3>4, NoneIsNoCart
    <2> QED
      BY <2>4, <2>5
  <1>3. CASE ~session[s].effect
    <2>1. EndDrafted(s)
      BY <1>3, SessionFacts DEF DraftOK
    <2>2. c \in DOMAIN seen[s] /\ seen[s][c].state = "active" /\ seen[s][c].version < MaxVersion
      BY <2>1 DEF EndDrafted
    <2>3. c \in CartIds /\ seen[s][c] = carts[c] /\ carts[c] \in Carts
      BY <2>2, SeenTyped
    <2>4. draft[s][c] = AsExpired(carts[c])
      BY <2>1, <2>3 DEF EndDrafted
    <2>5. /\ draft[s][c].owner = carts[c].owner /\ draft[s][c].version = carts[c].version + 1
          /\ draft[s][c].lines = carts[c].lines /\ draft[s][c].state = "expired"
      BY <2>2, <2>3, <2>4, ExpiredTyped
    <2> QED
      BY <1>1, <2>2, <2>3, <2>5, NoneIsNoCart
  <1> QED
    BY <1>2, <1>3

(* A commit resolves a command with success exactly when it has an effect.  *)
LEMMA CommitResolves ==
    ASSUME CommandsInv, NEW s \in Slots, CommitCart(s)
    PROVE  /\ session[s].at \in {"committing", "orphan"} /\ session[s].key \in Keys
           /\ session' = [session EXCEPT ![s] = Idle]
           /\ \A k \in Keys \ {session[s].key}: records'[k] = records[k]
           /\ session[s].effect =>
                  /\ records[session[s].key] = None /\ records'[session[s].key] # None
                  /\ records'[session[s].key].digest = Input(s)
                  /\ records'[session[s].key].result = Done(draft[s][Input(s).cart].version)
                  /\ records'[session[s].key].result \in Successes
           /\ ~session[s].effect =>
                  \/ records'[session[s].key] = records[session[s].key]
                  \/ /\ records[session[s].key] = None /\ records'[session[s].key] # None
                     /\ records'[session[s].key].result \notin Successes
  <1>1. /\ session[s].at \in {"committing", "orphan"} /\ Install(s) /\ EngineInv
        /\ session' = [session EXCEPT ![s] = Idle]
    BY DEF CommitCart, Commit, OrphanCommits, CommandsInv
  <1>2. PICK k \in Keys: k = session[s].key
    BY <1>1, InstallCases
  <1>3. records \in [Keys -> Rows \cup {None}]
    BY DEF CommandsInv, EngineInv, TypeOK
  <1>4. CASE /\ Resolving(s)
             /\ records' = [records EXCEPT ![session[s].key] = CompletedRow(session[s].digest, session[s].reply)]
    <2>1. records'[k] = CompletedRow(session[s].digest, session[s].reply) /\ records[k] = None
      BY <1>2, <1>3, <1>4 DEF Resolving
    <2>2. records'[k].digest = Input(s) /\ records'[k].result = session[s].reply
      BY <2>1 DEF CompletedRow, Input
    <2>3. records'[k] # None
      <3>1. session[s].digest \in Digests /\ session[s].reply \in Results
        BY <1>1, <1>4, InstallCases DEF Resolving
      <3>2. records'[k] \in Rows
        BY <2>1, <3>1, RowsTyped
      <3> QED
        BY <3>2, NoneIsNoValue
    <2>4. session[s].effect <=> session[s].reply \in Successes
      BY <1>4 DEF Resolving
    <2>5. session[s].effect => session[s].reply = Done(draft[s][Input(s).cart].version)
      BY <1>1, SessionFacts DEF DraftOK
    <2>6. \A l \in Keys \ {k}: records'[l] = records[l]
      BY <1>3, <1>4, <1>2
    <2> QED
      BY <1>1, <1>2, <2>1, <2>2, <2>3, <2>4, <2>5, <2>6
  <1>5. CASE Repeating(s) /\ records' = records
    BY <1>1, <1>2, <1>5 DEF Repeating
  <1> QED
    BY <1>1, <1>4, <1>5, InstallCases

(* The carts after a commit.                                                *)
LEMMA CommittedCarts ==
    ASSUME CommandsInv, NEW s \in Slots, CommitCart(s), NEW c \in CartIds
    PROVE  /\ c \in DOMAIN draft[s] => carts'[c] = draft[s][c]
           /\ c \notin DOMAIN draft[s] => carts'[c] = carts[c]
           /\ carts'[c] \in Carts \cup {None}
           /\ carts[c] # None => carts'[c] # None
  <1>1. carts'[c] = IF c \in DOMAIN draft[s] THEN draft[s][c] ELSE carts[c]
    BY DEF CommitCart
  <1>2. session[s].at \in {"committing", "orphan"}
    BY CommitResolves
  <1>3. c \in DOMAIN draft[s] => draft[s][c] \in Carts /\ draft[s][c] # None
    BY <1>2, DraftChanges
  <1>4. carts[c] \in Carts \cup {None}
    BY DEF CommandsInv, CartTypeOK
  <1> QED
    BY <1>1, <1>3, <1>4

(* The version and the lines that an effect commits are the ones its        *)
(* stored outcome stands for.                                               *)
LEMMA EffectCommitted ==
    ASSUME CommandsInv, NEW s \in Slots, CommitCart(s), session[s].effect,
           NEW c, c = Input(s).cart, NEW k, k = session[s].key,
           NEW lines, lines = carts[c].lines
    PROVE  /\ c \in CartIds /\ k \notin Succeeded(c) /\ Succeeded(c)' = Succeeded(c) \cup {k}
           /\ \A e \in CartIds \ {c}: Succeeded(e)' = Succeeded(e)
           /\ carts[c] # None /\ carts'[c] # None /\ carts[c].version < MaxVersion
           /\ carts'[c].version = carts[c].version + 1
           /\ records'[k].digest.expected = carts[c].version
           /\ records'[k].result.version = carts[c].version + 1
           /\ operationOf[k] # "merge" => carts'[c].lines = Replayed(lines, k)'
  <1>0. session[s].at \in {"committing", "orphan"} /\ EffectDrafted(s) /\ operationOf' = operationOf
    BY CommitResolves, SessionFacts DEF DraftOK, CommitCart
  <1>1. c \in DOMAIN draft[s]
    BY <1>0 DEF EffectDrafted, Named
  <1>2. /\ c \in DOMAIN seen[s] /\ c \in CartIds /\ carts[c] # None /\ carts[c].version < MaxVersion
        /\ carts[c] \in Carts /\ draft[s][c].version = carts[c].version + 1
    BY <1>0, <1>1, DraftChanges
  <1>3. carts'[c] = draft[s][c] /\ carts'[c] # None /\ seen[s][c] = carts[c]
    BY <1>1, <1>2, CommittedCarts, SeenTyped
  <1>4. /\ k \in Keys /\ records[k] = None /\ records'[k] # None
        /\ records'[k].digest = Input(s) /\ records'[k].result = Done(draft[s][c].version)
        /\ records'[k].result \in Successes /\ \A l \in Keys \ {k}: records'[l] = records[l]
    BY CommitResolves
  <1>5. k \notin Succeeded(c) /\ Succeeded(c)' = Succeeded(c) \cup {k}
    BY <1>4 DEF Succeeded
  <1>6. \A e \in CartIds \ {c}: Succeeded(e)' = Succeeded(e)
    BY <1>4 DEF Succeeded
  <1>7. records'[k].digest.expected = carts[c].version
    BY <1>0, <1>3, <1>4 DEF EffectDrafted
  <1>8. records'[k].result.version = carts[c].version + 1
    BY <1>2, <1>4 DEF Done
  <1>9. ASSUME operationOf[k] # "merge" PROVE carts'[c].lines = Replayed(lines, k)'
    <2>1. Operation(s) = operationOf[k] /\ Operation(s) \in {"add", "change", "remove", "clear"}
      BY <1>0, <1>9, InputFacts DEF Operation
    <2>2. draft[s][c].lines = NewLines(s)
      BY <1>0, <1>9, <2>1 DEF EffectDrafted
    <2>3. PICK d: d = Input(s)
      OBVIOUS
    <2>4. seen[s][Input(s).cart].lines = lines
      BY <1>3
    <2>5. NewLines(s) = CASE operationOf[k] = "add" -> [lines EXCEPT ![d.variant] = @ + d.quantity]
                          [] operationOf[k] = "change" -> [lines EXCEPT ![d.variant] = d.quantity]
                          [] operationOf[k] = "remove" -> [lines EXCEPT ![d.variant] = 0]
                          [] operationOf[k] = "clear" -> [v \in Variants |-> 0]
      BY <2>1, <2>3, <2>4 DEF NewLines
    <2>6. Replayed(lines, k)' = CASE operationOf[k] = "add" -> [lines EXCEPT ![d.variant] = @ + d.quantity]
                                  [] operationOf[k] = "change" -> [lines EXCEPT ![d.variant] = d.quantity]
                                  [] operationOf[k] = "remove" -> [lines EXCEPT ![d.variant] = 0]
                                  [] operationOf[k] = "clear" -> [v \in Variants |-> 0]
      BY <1>0, <1>4, <2>3 DEF Replayed
    <2> QED
      BY <1>3, <2>2, <2>5, <2>6
  <1> QED
    BY <1>2, <1>3, <1>5, <1>6, <1>7, <1>8, <1>9

(* A commit keeps the carts equal to what their commands made of them.      *)
LEMMA CommitHistory ==
    ASSUME CommandsInv, NEW s \in Slots, CommitCart(s)
    PROVE  CartIsItsHistory'
  <1>0. session[s].at \in {"committing", "orphan"} /\ operationOf' = operationOf
    BY CommitResolves DEF CommitCart
  <1>1. ASSUME NEW c \in CartIds, Succeeded(c)' = Succeeded(c),
               ~(session[s].effect /\ c = Input(s).cart)
        PROVE  VersionsAreTold(c)' /\ LinesFollow(c)'
    <2>1. \A k \in Succeeded(c): records'[k] = records[k]
      BY CommitResolves DEF Succeeded
    <2>2. CASE c \in DOMAIN draft[s]
      <3>1. /\ carts'[c] = draft[s][c] /\ carts'[c] # None /\ carts[c] # None
            /\ draft[s][c].version = carts[c].version + 1 /\ carts[c].version < MaxVersion
            /\ draft[s][c].lines = carts[c].lines
        BY <1>0, <1>1, <2>2, DraftChanges, CommittedCarts
      <3> QED
        BY <1>0, <1>1, <2>1, <3>1, HistoryKept
    <2>3. CASE c \notin DOMAIN draft[s]
      <3>1. carts'[c] = carts[c]
        BY <2>3, CommittedCarts
      <3> QED
        BY <1>0, <1>1, <2>1, <3>1, HistoryKept
    <2> QED
      BY <2>2, <2>3
  <1>2. CASE session[s].effect
    <2>1. PICK c, k, lines: c = Input(s).cart /\ k = session[s].key /\ lines = carts[c].lines
      OBVIOUS
    <2>2. /\ c \in CartIds /\ k \notin Succeeded(c) /\ Succeeded(c)' = Succeeded(c) \cup {k}
          /\ \A e \in CartIds \ {c}: Succeeded(e)' = Succeeded(e)
          /\ carts[c] # None /\ carts'[c] # None /\ carts[c].version < MaxVersion
          /\ carts'[c].version = carts[c].version + 1
          /\ records'[k].digest.expected = carts[c].version
          /\ records'[k].result.version = carts[c].version + 1
          /\ operationOf[k] # "merge" => carts'[c].lines = Replayed(lines, k)'
      BY <1>2, <2>1, EffectCommitted
    <2>3. \A l \in Succeeded(c): records'[l] = records[l]
      BY <2>1, <2>2, CommitResolves DEF Succeeded
    <2>4. VersionsAreTold(c)' /\ LinesFollow(c)'
      BY <1>0, <2>1, <2>2, <2>3, HistoryGrows
    <2>5. \A e \in CartIds \ {c}: VersionsAreTold(e)' /\ LinesFollow(e)'
      BY <1>1, <2>1, <2>2
    <2> QED
      BY <2>4, <2>5 DEF CartIsItsHistory
  <1>3. CASE ~session[s].effect
    <2>1. \A c \in CartIds: Succeeded(c)' = Succeeded(c)
      BY <1>3, CommitResolves DEF Succeeded
    <2> QED
      BY <1>1, <1>3, <2>1 DEF CartIsItsHistory
  <1> QED
    BY <1>2, <1>3

(* A commit installs the draft.                                             *)
LEMMA CommitStep ==
    ASSUME CommandsInv, EngineInv', NEW s \in Slots, CommitCart(s)
    PROVE  CommandsInv'
  <1>0. /\ session[s].at \in {"committing", "orphan"} /\ session' = [session EXCEPT ![s] = Idle] /\ Release(s)
        /\ visits' = visits /\ clock' = clock /\ operationOf' = operationOf /\ offer' = offer
    BY CommitResolves DEF CommitCart
  <1>1. /\ rows' \in [Slots -> SUBSET CartIds] /\ DOMAIN seen' = Slots /\ DOMAIN draft' = Slots
        /\ DOMAIN seen'[s] = {} /\ DOMAIN draft'[s] = {}
        /\ Served(s)' /\ RowsOK(s)' /\ DraftOK(s)'
        /\ \A t \in Slots \ {s}: /\ session'[t] = session[t] /\ rows'[t] = rows[t]
                                 /\ seen'[t] = seen[t] /\ draft'[t] = draft[t]
    BY <1>0, Released
  <1>2. CartTypeOK'
    <2>1. carts' \in [CartIds -> Carts \cup {None}]
      <3>1. \A c \in CartIds: carts'[c] \in Carts \cup {None}
        BY CommittedCarts
      <3>2. carts' = [c \in CartIds |-> carts'[c]]
        BY DEF CommitCart
      <3> QED
        BY <3>1, <3>2
    <2>2. ASSUME NEW t \in Slots
          PROVE  /\ \A c \in DOMAIN seen'[t]: c \in CartIds /\ seen'[t][c] \in Carts
                 /\ \A c \in DOMAIN draft'[t]: c \in CartIds /\ draft'[t][c] \in Carts
      <3>1. CASE t = s
        BY <1>1, <3>1
      <3>2. CASE t # s
        <4>1. seen'[t] = seen[t] /\ draft'[t] = draft[t]
          BY <1>1, <3>2
        <4> QED
          BY <4>1 DEF CommandsInv, CartTypeOK
      <3> QED
        BY <3>1, <3>2
    <2>3. /\ clock' \in 0..Horizon /\ \A k \in Keys: operationOf'[k] \in KeyOperations[k]
          /\ offer' \in [Variants -> Facts] /\ visits' \in [Visitors -> Visiting \cup {None}]
      BY <1>0 DEF CommandsInv, CartTypeOK
    <2> QED
      BY <1>1, <2>1, <2>2, <2>3 DEF CartTypeOK, Carts, Contents, LinesOf, Visiting
  <1>3. ASSUME NEW t \in Slots PROVE Served(t)' /\ RowsOK(t)' /\ DraftOK(t)'
    <2>1. CASE t = s
      BY <1>1, <2>1
    <2>2. CASE t # s
      <3>1. session'[t] = session[t] /\ rows'[t] = rows[t] /\ seen'[t] = seen[t] /\ draft'[t] = draft[t]
        BY <1>1, <2>2
      <3>2. \A c \in rows[t]: carts'[c] # None
        BY CommittedCarts, SessionFacts DEF RowsOK, CommandsInv, CartTypeOK
      <3>3. ASSUME NEW c \in DOMAIN seen[t] PROVE carts'[c] = carts[c]
        <4>1. c \notin DOMAIN seen[s]
          BY <2>2 DEF CommandsInv, RowLocks
        <4>2. c \in CartIds /\ c \notin DOMAIN draft[s]
          BY <1>0, <4>1, DraftChanges, SeenTyped
        <4> QED
          BY <4>2, CommittedCarts
      <3> QED
        BY <1>0, <3>1, <3>2, <3>3, SlotKept
    <2> QED
      BY <2>1, <2>2
  <1>4. RowLocks'
    <2>1. \A t \in Slots: DOMAIN seen'[t] \subseteq DOMAIN seen[t]
      BY <1>1
    <2> QED
      BY <2>1 DEF CommandsInv, RowLocks
  <1>5. OneOpenCart'
    <2>1. ASSUME NEW o \in Customers, NEW c \in ActiveOf(o)' PROVE c \in ActiveOf(o)
      <3>1. CASE c \in DOMAIN draft[s]
        <4>1. carts[c].owner = carts'[c].owner /\ carts[c].state = "active" /\ carts[c] # None
          BY <1>0, <3>1, DraftChanges, CommittedCarts
        <4> QED
          BY <4>1, <2>1 DEF ActiveOf
      <3>2. CASE c \notin DOMAIN draft[s]
        <4>1. c \in CartIds /\ carts'[c] = carts[c]
          BY <3>2, CommittedCarts DEF ActiveOf
        <4> QED
          BY <4>1, <2>1 DEF ActiveOf
      <3> QED
        BY <3>1, <3>2
    <2> QED
      BY <2>1 DEF CommandsInv, OneOpenCart
  <1>6. CartIsItsHistory'
    BY CommitHistory
  <1> QED
    BY <1>2, <1>3, <1>4, <1>5, <1>6 DEF CommandsInv
-----------------------------------------------------------------------------
(* A step outside the commands: a cart that changes is opened, or ended     *)
(* while nobody has it locked.                                              *)
LEMMA OutsideStep ==
    ASSUME CommandsInv, EngineInv', session' = session, records' = records, operationOf' = operationOf,
           rows' = rows, seen' = seen, draft' = draft, clock' \in 0..Horizon, offer' \in [Variants -> Facts],
           visits' \in [Visitors -> Visiting \cup {None}],
           carts' \in [CartIds -> Carts \cup {None}],
           \A c \in CartIds:
               \/ carts'[c] = carts[c]
               \/ /\ carts[c] = None /\ carts'[c] # None
                  /\ carts'[c].version = 1 /\ carts'[c].lines = [v \in Variants |-> 0]
               \/ /\ carts[c] # None /\ carts'[c] # None /\ carts'[c].lines = carts[c].lines
                  /\ carts'[c].version = carts[c].version + 1 /\ carts[c].version < MaxVersion
                  /\ \A s \in Slots: c \notin DOMAIN seen[s],
           OneOpenCart'
    PROVE  CommandsInv'
  <1>1. CartTypeOK'
    <2>1. /\ \A k \in Keys: operationOf'[k] \in KeyOperations[k]
          /\ rows' \in [Slots -> SUBSET CartIds] /\ DOMAIN seen' = Slots /\ DOMAIN draft' = Slots
          /\ \A s \in Slots: \A c \in DOMAIN seen'[s]: c \in CartIds /\ seen'[s][c] \in Carts
          /\ \A s \in Slots: \A c \in DOMAIN draft'[s]: c \in CartIds /\ draft'[s][c] \in Carts
      BY DEF CommandsInv, CartTypeOK
    <2> QED
      BY <2>1 DEF CartTypeOK, Carts, Contents, LinesOf, Visiting
  <1>2. ASSUME NEW s \in Slots PROVE Served(s)' /\ RowsOK(s)' /\ DraftOK(s)'
    <2>1. RowsOK(s) /\ rows[s] \subseteq CartIds /\ DOMAIN seen[s] \subseteq rows[s]
      BY SessionFacts DEF RowsOK, CommandsInv, CartTypeOK
    <2>2. \A c \in rows[s]: carts'[c] # None
      BY <2>1 DEF RowsOK
    <2>3. \A c \in DOMAIN seen[s]: carts'[c] = carts[c]
      BY <2>1 DEF RowsOK
    <2> QED
      BY <2>2, <2>3, SlotKept
  <1>3. RowLocks'
    BY DEF CommandsInv, RowLocks
  <1>4. ASSUME NEW c \in CartIds PROVE VersionsAreTold(c)' /\ LinesFollow(c)'
    <2>1. Succeeded(c)' = Succeeded(c)
      BY DEF Succeeded
    <2> QED
      BY <2>1, HistoryKept
  <1> QED
    BY <1>1, <1>2, <1>3, <1>4 DEF CommandsInv, CartIsItsHistory

(* A new cart.                                                              *)
LEMMA NewCartTyped ==
    ASSUME CommandsInv, NEW o \in Owners
    PROVE  /\ NewCart(o) \in Carts /\ NewCart(o) # None
           /\ NewCart(o).owner = o /\ NewCart(o).version = 1 /\ NewCart(o).lines = [v \in Variants |-> 0]
  <1>1. /\ clock + Lifetime \in 0..(Horizon + Lifetime) /\ 1 \in 1..MaxVersion
    BY CartConstants DEF CommandsInv, CartTypeOK
  <1>3. [v \in Variants |-> 0] \in Contents
    <2>0. 0 \in 0..MaxQuantity /\ MaxLines \in Nat
      BY CartConstants
    <2>1. PICK none \in [Variants -> 0..MaxQuantity]: none = [v \in Variants |-> 0]
      BY <2>0
    <2>2. LinesOf(none) = {}
      BY <2>1 DEF LinesOf
    <2>3. Cardinality(LinesOf(none)) = 0
      BY <2>2, FS_EmptySet, Zenon
    <2> QED
      BY <2>0, <2>1, <2>3 DEF Contents
  <1>2. NewCart(o) \in Carts
    BY <1>1, <1>3 DEF NewCart, Carts
  <1> QED
    BY <1>2, NoneIsNoCart DEF NewCart

(* A guest gets a cart: no customer gets one by it.                         *)
LEMMA GuestStep ==
    ASSUME CommandsInv, EngineInv', NEW g \in Guests, NEW c \in CartIds, CreateGuestCart(g, c)
    PROVE  CommandsInv'
  <1>0. /\ carts \in [CartIds -> Carts \cup {None}] /\ clock \in 0..Horizon /\ offer \in [Variants -> Facts]
        /\ carts[c] = None /\ carts' = [carts EXCEPT ![c] = NewCart(g)]
        /\ visits' \in [Visitors -> Visiting \cup {None}]
    BY DEF CommandsInv, CartTypeOK, CreateGuestCart, Unused
  <1>1. /\ session' = session /\ records' = records /\ operationOf' = operationOf
        /\ rows' = rows /\ seen' = seen /\ draft' = draft /\ clock' = clock /\ offer' = offer
    BY DEF CreateGuestCart, vars, work
  <1>2. /\ NewCart(g) \in Carts /\ NewCart(g) # None /\ NewCart(g).owner = g
        /\ NewCart(g).version = 1 /\ NewCart(g).lines = [v \in Variants |-> 0]
    BY NewCartTyped DEF Owners
  <1>3. carts' \in [CartIds -> Carts \cup {None}]
    BY <1>0, <1>2
  <1>4. \A e \in CartIds: \/ carts'[e] = carts[e]
                          \/ /\ carts[e] = None /\ carts'[e] # None
                             /\ carts'[e].version = 1 /\ carts'[e].lines = [v \in Variants |-> 0]
    BY <1>0, <1>2
  <1>5. OneOpenCart'
    <2>1. \A o \in Customers: ActiveOf(o)' \subseteq ActiveOf(o)
      BY <1>0, <1>2, CartConstants DEF ActiveOf
    <2> QED
      BY <2>1 DEF CommandsInv, OneOpenCart
  <1> QED
    BY <1>0, <1>1, <1>3, <1>4, <1>5, OutsideStep

(* The carts that get() has expired.                                        *)
LEMMA EndedCarts ==
    ASSUME CartInv, NEW w \in Visitors, \A e \in Ending(w): carts[e].version < MaxVersion, NEW c \in CartIds
    PROVE  /\ Ended(w)[c] \in Carts \cup {None}
           /\ c \notin Ending(w) => Ended(w)[c] = carts[c]
           /\ c \in Ending(w) =>
                 /\ carts[c] # None /\ carts[c].state = "active" /\ c \in Found(w)
                 /\ Ended(w)[c] # None /\ Ended(w)[c].lines = carts[c].lines
                 /\ Ended(w)[c].version = carts[c].version + 1 /\ carts[c].version < MaxVersion
                 /\ Ended(w)[c].state = "expired"
                 /\ \A s \in Slots: c \notin DOMAIN seen[s]
  <1>1. Ended(w)[c] = IF c \in Ending(w) THEN AsExpired(carts[c]) ELSE carts[c]
    BY DEF Ended
  <1>2. carts[c] \in Carts \cup {None}
    BY DEF CartInv, CommandsInv, CartTypeOK
  <1>3. c \in Ending(w) => c \in Found(w) /\ carts[c].state = "active" /\ carts[c].version < MaxVersion
    BY DEF Ending
  <1>4. c \in Found(w) => carts[c] # None /\ \A s \in Slots: c \notin DOMAIN seen[s]
    BY DEF CartInv, VisitsOK
  <1>5. c \in Ending(w) =>
            /\ AsExpired(carts[c]) \in Carts /\ AsExpired(carts[c]) # None
            /\ AsExpired(carts[c]).state = "expired"
            /\ AsExpired(carts[c]).lines = carts[c].lines /\ AsExpired(carts[c]).version = carts[c].version + 1
    BY <1>2, <1>3, <1>4, ExpiredTyped
  <1> QED
    BY <1>1, <1>2, <1>3, <1>4, <1>5

(* get() that ends leaves its connection and nothing else.                  *)
LEMMA Left ==
    ASSUME CommandsInv, NEW w \in Visitors, Leave(w)
    PROVE  /\ session' = session /\ records' = records /\ operationOf' = operationOf
           /\ rows' = rows /\ seen' = seen /\ draft' = draft
           /\ clock' \in 0..Horizon /\ offer' \in [Variants -> Facts]
           /\ visits' \in [Visitors -> Visiting \cup {None}]
           /\ visits'[w] = None /\ \A x \in Visitors \ {w}: visits'[x] = visits[x]
  BY DEF CommandsInv, CartTypeOK, Leave, vars, work

(* get() expires the cart it finds.                                         *)
LEMMA EndGetStep ==
    ASSUME CartInv, EngineInv', NEW w \in Visitors, EndGet(w)
    PROVE  CommandsInv'
  <1>0. carts' = Ended(w) /\ Leave(w) /\ CommandsInv /\ \A e \in Ending(w): carts[e].version < MaxVersion
    BY DEF CartInv, EndGet
  <1>1. /\ session' = session /\ records' = records /\ operationOf' = operationOf
        /\ rows' = rows /\ seen' = seen /\ draft' = draft
        /\ clock' \in 0..Horizon /\ offer' \in [Variants -> Facts]
        /\ visits' \in [Visitors -> Visiting \cup {None}]
    BY <1>0, Left
  <1>2. carts' \in [CartIds -> Carts \cup {None}]
    <2>1. Ended(w) = [c \in CartIds |-> Ended(w)[c]]
      BY DEF Ended
    <2> QED
      BY <1>0, <2>1, EndedCarts
  <1>3. \A c \in CartIds:
            \/ carts'[c] = carts[c]
            \/ /\ carts[c] # None /\ carts'[c] # None /\ carts'[c].lines = carts[c].lines
               /\ carts'[c].version = carts[c].version + 1 /\ carts[c].version < MaxVersion
               /\ \A s \in Slots: c \notin DOMAIN seen[s]
    BY <1>0, EndedCarts
  <1>4. OneOpenCart'
    <2>1. \A p \in Customers: ActiveOf(p)' \subseteq ActiveOf(p)
      BY <1>0, EndedCarts DEF ActiveOf
    <2> QED
      BY <1>0, <2>1 DEF CommandsInv, OneOpenCart
  <1> QED
    BY <1>0, <1>1, <1>2, <1>3, <1>4, OutsideStep

(* get() with create = true: the new cart is the only open one.             *)
LEMMA GetOrCreateStep ==
    ASSUME CartInv, EngineInv', NEW w \in Visitors, NEW n \in CartIds, GetOrCreate(w, n)
    PROVE  CommandsInv'
  <1> DEFINE o == visits[w].owner
  <1>0. /\ carts' = [Ended(w) EXCEPT ![n] = NewCart(o)] /\ Leave(w) /\ CommandsInv
        /\ \A e \in Ending(w): carts[e].version < MaxVersion
        /\ carts[n] = None /\ o \in Customers /\ o \in Owners /\ Visits(w, o) /\ Remaining(w) = {}
    BY DEF CartInv, GetOrCreate, Unused, Owners, Visits
  <1>1. /\ session' = session /\ records' = records /\ operationOf' = operationOf
        /\ rows' = rows /\ seen' = seen /\ draft' = draft
        /\ clock' \in 0..Horizon /\ offer' \in [Variants -> Facts]
        /\ visits' \in [Visitors -> Visiting \cup {None}]
    BY <1>0, Left
  <1> HIDE DEF o
  <1>2. /\ NewCart(o) \in Carts /\ NewCart(o) # None /\ NewCart(o).owner = o
        /\ NewCart(o).version = 1 /\ NewCart(o).lines = [v \in Variants |-> 0]
    BY <1>0, NewCartTyped
  <1>3. /\ DOMAIN carts' = CartIds /\ carts'[n] = NewCart(o)
        /\ \A c \in CartIds \ {n}: carts'[c] = Ended(w)[c]
        /\ carts' = [c \in CartIds |-> carts'[c]]
    BY <1>0 DEF Ended
  <1>4. carts' \in [CartIds -> Carts \cup {None}]
    <2>1. \A c \in CartIds: carts'[c] \in Carts \cup {None}
      BY <1>0, <1>2, <1>3, EndedCarts
    <2> QED
      BY <1>3, <2>1
  <1>5. ASSUME NEW c \in CartIds
        PROVE  \/ carts'[c] = carts[c]
               \/ /\ carts[c] = None /\ carts'[c] # None
                  /\ carts'[c].version = 1 /\ carts'[c].lines = [v \in Variants |-> 0]
               \/ /\ carts[c] # None /\ carts'[c] # None /\ carts'[c].lines = carts[c].lines
                  /\ carts'[c].version = carts[c].version + 1 /\ carts[c].version < MaxVersion
                  /\ \A s \in Slots: c \notin DOMAIN seen[s]
    <2>1. CASE c = n
      BY <1>0, <1>2, <1>3, <2>1
    <2>2. CASE c # n
      BY <1>0, <1>3, <2>2, EndedCarts
    <2> QED
      BY <2>1, <2>2
  <1>6. OneOpenCart'
    <2>0. ActiveOf(o) \subseteq Ending(w)
      <3>1. Found(w) = CartsOf(o)
        BY <1>0 DEF CartInv, VisitsOK
      <3> QED
        BY <1>0, <3>1 DEF CartsOf, ActiveOf, Remaining, Ending
    <2>1. ASSUME NEW p \in Customers, NEW c \in ActiveOf(p)'
          PROVE  IF p = o THEN c = n ELSE c \in ActiveOf(p)
      <3>0. c \in CartIds /\ carts'[c] # None /\ carts'[c].owner = p /\ carts'[c].state = "active"
        BY <2>1 DEF ActiveOf
      <3>1. CASE c = n
        BY <1>2, <1>3, <3>0, <3>1
      <3>2. CASE c # n
        <4>1. carts'[c] = Ended(w)[c]
          BY <1>3, <3>0, <3>2
        <4>2. c \notin Ending(w) /\ carts'[c] = carts[c]
          BY <1>0, <3>0, <4>1, EndedCarts
        <4>3. c \in ActiveOf(p)
          BY <3>0, <4>2 DEF ActiveOf
        <4> QED
          BY <2>0, <4>2, <4>3
      <3> QED
        BY <3>1, <3>2
    <2> QED
      BY <1>0, <2>1 DEF CommandsInv, OneOpenCart
  <1> QED
    BY <1>0, <1>1, <1>4, <1>5, <1>6, OutsideStep

(* Time, the catalog, and the age of the records.                           *)
LEMMA QuietStep ==
    ASSUME CommandsInv, EngineInv', session' = session, records' = records, operationOf' = operationOf,
           rows' = rows, seen' = seen, draft' = draft, clock' \in 0..Horizon, offer' \in [Variants -> Facts],
           visits' \in [Visitors -> Visiting \cup {None}],
           carts' = carts
    PROVE  CommandsInv'
  <1>1. carts' \in [CartIds -> Carts \cup {None}]
    BY DEF CommandsInv, CartTypeOK
  <1>2. OneOpenCart'
    BY DEF CommandsInv, OneOpenCart, ActiveOf
  <1> QED
    BY <1>1, <1>2, OutsideStep

(* get() takes its rows, or ends without COMMIT.                            *)
LEMMA BeginGetStep ==
    ASSUME CommandsInv, EngineInv', NEW w \in Visitors, NEW o \in Owners, BeginGet(w, o)
    PROVE  CommandsInv'
  <1>1. /\ session' = session /\ records' = records /\ operationOf' = operationOf /\ carts' = carts
        /\ rows' = rows /\ seen' = seen /\ draft' = draft
        /\ clock' \in 0..Horizon /\ offer' \in [Variants -> Facts]
    BY DEF CommandsInv, CartTypeOK, BeginGet, vars, work
  <1>2. [owner |-> o, found |-> CartsOf(o)] \in Visiting
    BY DEF Visiting, CartsOf
  <1>3. visits' \in [Visitors -> Visiting \cup {None}]
    BY <1>2 DEF CommandsInv, CartTypeOK, BeginGet
  <1> QED
    BY <1>1, <1>3, QuietStep

LEMMA GetFailsStep ==
    ASSUME CommandsInv, EngineInv', NEW w \in Visitors, GetFails(w)
    PROVE  CommandsInv'
  <1>1. carts' = carts /\ Leave(w)
    BY DEF GetFails
  <1>2. /\ session' = session /\ records' = records /\ operationOf' = operationOf
        /\ rows' = rows /\ seen' = seen /\ draft' = draft
        /\ clock' \in 0..Horizon /\ offer' \in [Variants -> Facts]
        /\ visits' \in [Visitors -> Visiting \cup {None}]
    BY <1>1, Left
  <1> QED
    BY <1>1, <1>2, QuietStep

(* Every step of the carts keeps what the commands rest on.                 *)
LEMMA CommandsInvStep == CartInv /\ [CartNext]_allVars => CommandsInv'
  <1> SUFFICES ASSUME CartInv, [CartNext]_allVars PROVE CommandsInv'
    OBVIOUS
  <1>0. /\ EngineInv' /\ CommandsInv /\ clock \in 0..Horizon /\ offer \in [Variants -> Facts]
        /\ visits \in [Visitors -> Visiting \cup {None}]
    BY CartStepIsEngineStep, EngineInvStep DEF CartInv, CommandsInv, CartTypeOK
  <1>1. ASSUME NEW s \in Slots, CartStep(s) PROVE CommandsInv'
    <2>1. CASE EngineOnly(s)
      BY <1>0, <2>1, EngineOnlyStep
    <2>2. CASE AuthorizeOwner(s)
      BY <1>0, <2>2, AuthorizeStep
    <2>3. CASE SelectCarts(s)
      BY <1>0, <2>3, SelectStep
    <2>4. CASE LockCart(s)
      BY <1>0, <2>4, LockStep
    <2>5. CASE DenyCart(s)
      BY <1>0, <2>5, DenyStep
    <2>6. CASE AdmitCart(s)
      BY <1>0, <2>6, AdmitStep
    <2>7. CASE WriteCart(s)
      BY <1>0, <2>7, WriteStep
    <2>8. CASE FinishCart(s)
      BY <1>0, <2>8, FinishStep
    <2>9. CASE RefuseCart(s)
      BY <1>0, <2>9, RefuseStep
    <2>10. CASE Discard(s)
      BY <1>0, <2>10, DiscardStep
    <2>11. CASE CommitCart(s)
      BY <1>0, <2>11, CommitStep
    <2> QED
      BY <1>1, <2>1, <2>2, <2>3, <2>4, <2>5, <2>6, <2>7, <2>8, <2>9, <2>10, <2>11 DEF CartStep
  <1>2. ASSUME NEW s \in Slots, NEW k \in Keys, NEW d \in Digests, ReceiveCart(s, k, d) PROVE CommandsInv'
    BY <1>0, <1>2, ReceiveStep
  <1>3. ASSUME NEW g \in Guests, NEW c \in CartIds, CreateGuestCart(g, c) PROVE CommandsInv'
    BY <1>0, <1>3, GuestStep
  <1>4. ASSUME NEW w \in Visitors, NEW o \in Owners, BeginGet(w, o) PROVE CommandsInv'
    BY <1>0, <1>4, BeginGetStep
  <1>5. ASSUME NEW w \in Visitors, EndGet(w) \/ GetFails(w) PROVE CommandsInv'
    BY <1>0, <1>5, EndGetStep, GetFailsStep
  <1>10. ASSUME NEW w \in Visitors, NEW c \in CartIds, GetOrCreate(w, c) PROVE CommandsInv'
    BY <1>0, <1>10, GetOrCreateStep
  <1>6. ASSUME NEW v \in Variants, NEW fact \in Facts, CatalogChanges(v, fact) PROVE CommandsInv'
    <2>1. /\ session' = session /\ records' = records /\ operationOf' = operationOf
          /\ rows' = rows /\ seen' = seen /\ draft' = draft /\ clock' = clock /\ carts' = carts /\ visits' = visits
          /\ offer' \in [Variants -> Facts]
      BY <1>0, <1>6 DEF CatalogChanges, vars, work
    <2> QED
      BY <1>0, <2>1, QuietStep
  <1>7. CASE Tick
    <2>1. /\ session' = session /\ records' = records /\ operationOf' = operationOf
          /\ rows' = rows /\ seen' = seen /\ draft' = draft /\ offer' = offer /\ carts' = carts /\ visits' = visits
          /\ clock' \in 0..Horizon
      BY <1>0, <1>7, CartConstants DEF Tick, vars, work
    <2> QED
      BY <1>0, <2>1, QuietStep
  <1>8. ASSUME NEW k \in AgeingKeys, Ageing(k) PROVE CommandsInv'
    <2>1. /\ session' = session /\ records' = records /\ operationOf' = operationOf
          /\ rows' = rows /\ seen' = seen /\ draft' = draft /\ offer' = offer /\ carts' = carts /\ visits' = visits
          /\ clock' = clock
      BY <1>8 DEF Ageing, ExpireRecord, cartVars, work
    <2> QED
      BY <1>0, <2>1, QuietStep
  <1>9. CASE UNCHANGED allVars
    <2>1. /\ session' = session /\ records' = records /\ operationOf' = operationOf
          /\ rows' = rows /\ seen' = seen /\ draft' = draft /\ offer' = offer /\ carts' = carts /\ visits' = visits
          /\ clock' = clock
      BY <1>9 DEF allVars, vars, cartVars, work
    <2> QED
      BY <1>0, <2>1, QuietStep
  <1> QED
    BY <1>1, <1>2, <1>3, <1>4, <1>5, <1>6, <1>7, <1>8, <1>9, <1>10 DEF CartNext
-----------------------------------------------------------------------------
(* A step that starts no get(): what those that go on have found stands.    *)
LEMMA VisitsKept ==
    ASSUME CartInv,
           \A w \in Visitors: visits'[w] # None =>
               /\ visits'[w] = visits[w]
               /\ \A c \in Found(w): carts'[c] = carts[c]
               /\ \A o \in Customers: Visits(w, o) => CartsOf(o)' = CartsOf(o)
               /\ \A s \in Slots: Found(w) \cap DOMAIN seen'[s] = {}
    PROVE  VisitsOK'
  <1>1. \A w \in Visitors: Found(w)' = IF visits'[w] = None THEN {} ELSE Found(w)
    BY DEF Found
  <1>2. \A w \in Visitors, o \in Customers: Visits(w, o)' => visits'[w] # None /\ Visits(w, o)
    BY DEF Visits
  <1>3. \A w \in Visitors: Found(w)' \subseteq CartIds /\ \A c \in Found(w)': carts'[c] # None
    BY <1>1 DEF CartInv, VisitsOK
  <1>4. ASSUME NEW w \in Visitors, NEW o \in Customers, Visits(w, o)' PROVE Found(w)' = CartsOf(o)'
    BY <1>1, <1>2, <1>4 DEF CartInv, VisitsOK
  <1>5. \A w \in Visitors, s \in Slots: Found(w)' \cap DOMAIN seen'[s] = {}
    BY <1>1
  <1>6. ASSUME NEW w \in Visitors, NEW x \in Visitors, w # x
        PROVE  /\ Found(w)' \cap Found(x)' = {}
               /\ \A o \in Customers: ~(Visits(w, o)' /\ Visits(x, o)')
    BY <1>1, <1>2, <1>6 DEF CartInv, VisitsOK
  <1> QED
    BY <1>3, <1>4, <1>5, <1>6 DEF VisitsOK

(* A step of a command that commits nothing and locks no cart.              *)
LEMMA VisitsQuiet ==
    ASSUME CartInv, carts' = carts, visits' = visits, \A s \in Slots: DOMAIN seen'[s] \subseteq DOMAIN seen[s]
    PROVE  VisitsOK'
  <1>1. \A o: CartsOf(o)' = CartsOf(o)
    BY DEF CartsOf
  <1>2. \A w \in Visitors, s \in Slots: Found(w) \cap DOMAIN seen'[s] = {}
    BY DEF CartInv, VisitsOK
  <1> QED
    BY <1>1, <1>2, VisitsKept

(* A command locks a cart that no get() has found.                          *)
LEMMA VisitsLock ==
    ASSUME CartInv, NEW s \in Slots, LockCart(s)
    PROVE  VisitsOK'
  <1>0. carts' = carts /\ visits' = visits /\ DOMAIN seen = Slots
    BY DEF LockCart, cartVars, CartInv, CommandsInv, CartTypeOK
  <1>1. PICK n: n = NextToLock(s)
    OBVIOUS
  <1>2. \A w \in Visitors: n \notin Found(w)
    BY <1>1 DEF LockCart, CartFree
  <1>3. DOMAIN seen'[s] = DOMAIN seen[s] \cup {n} /\ \A t \in Slots \ {s}: seen'[t] = seen[t]
    BY <1>0, <1>1 DEF LockCart
  <1>4. ASSUME NEW w \in Visitors, NEW t \in Slots PROVE Found(w) \cap DOMAIN seen'[t] = {}
    <2>1. \A u \in Slots: Found(w) \cap DOMAIN seen[u] = {}
      BY DEF CartInv, VisitsOK
    <2> QED
      BY <1>2, <1>3, <2>1
  <1>5. \A o: CartsOf(o)' = CartsOf(o)
    BY <1>0 DEF CartsOf
  <1> QED
    BY <1>0, <1>4, <1>5, VisitsKept

(* A commit changes carts that its transaction has locked, and no cart of a *)
(* customer becomes active by it.                                           *)
LEMMA VisitsCommit ==
    ASSUME CartInv, NEW s \in Slots, CommitCart(s)
    PROVE  VisitsOK'
  <1>0. /\ CommandsInv /\ visits' = visits /\ session[s].at \in {"committing", "orphan"}
        /\ session' = [session EXCEPT ![s] = Idle] /\ Release(s)
    BY CommitResolves DEF CartInv, CommitCart
  <1>1. DOMAIN seen'[s] = {} /\ \A t \in Slots \ {s}: seen'[t] = seen[t]
    BY <1>0, Released
  <1>2. ASSUME NEW w \in Visitors, NEW c \in Found(w)
        PROVE  c \in CartIds /\ c \notin DOMAIN draft[s] /\ carts'[c] = carts[c]
    <2>1. c \in CartIds /\ c \notin DOMAIN seen[s]
      BY DEF CartInv, VisitsOK
    <2>2. c \notin DOMAIN draft[s]
      BY <1>0, <2>1, DraftChanges
    <2> QED
      BY <1>0, <2>1, <2>2, CommittedCarts
  <1>3. ASSUME NEW w \in Visitors, NEW o \in Customers, Visits(w, o) PROVE CartsOf(o)' = CartsOf(o)
    <2>1. Found(w) = CartsOf(o)
      BY <1>3 DEF CartInv, VisitsOK
    <2>2. ASSUME NEW c \in CartsOf(o) PROVE c \in CartsOf(o)'
      BY <1>2, <2>1 DEF CartsOf
    <2>3. ASSUME NEW c \in CartsOf(o)' PROVE c \in CartsOf(o)
      <3>0. c \in CartIds /\ carts'[c] # None /\ carts'[c].owner = o /\ carts'[c].state = "active"
        BY DEF CartsOf
      <3>1. CASE c \in DOMAIN draft[s]
        <4>1. carts[c] # None /\ carts[c].owner = o /\ carts[c].state = "active"
          BY <1>0, <3>0, <3>1, DraftChanges, CommittedCarts
        <4> QED
          BY <3>0, <4>1 DEF CartsOf
      <3>2. CASE c \notin DOMAIN draft[s]
        BY <1>0, <3>0, <3>2, CommittedCarts DEF CartsOf
      <3> QED
        BY <3>1, <3>2
    <2> QED
      BY <2>2, <2>3
  <1>4. \A w \in Visitors, t \in Slots: Found(w) \cap DOMAIN seen'[t] = {}
    BY <1>1 DEF CartInv, VisitsOK
  <1> QED
    BY <1>0, <1>2, <1>3, <1>4, VisitsKept

(* A guest's new cart is nobody else's.                                     *)
LEMMA VisitsGuest ==
    ASSUME CartInv, NEW g \in Guests, NEW n \in CartIds, CreateGuestCart(g, n)
    PROVE  VisitsOK'
  <1>0. /\ carts[n] = None /\ carts' = [carts EXCEPT ![n] = NewCart(g)] /\ DOMAIN carts = CartIds
        /\ visits' = visits /\ seen' = seen /\ CommandsInv
    BY DEF CreateGuestCart, Unused, work, CartInv, CommandsInv, CartTypeOK
  <1>1. carts'[n] # None /\ carts'[n].owner = g /\ \A c \in CartIds \ {n}: carts'[c] = carts[c]
    BY <1>0, NewCartTyped DEF Owners
  <1>2. \A w \in Visitors: \A c \in Found(w): carts'[c] = carts[c]
    BY <1>0, <1>1 DEF CartInv, VisitsOK
  <1>3. \A o \in Customers: CartsOf(o)' = CartsOf(o)
    BY <1>0, <1>1, CartConstants DEF CartsOf
  <1>4. \A w \in Visitors, s \in Slots: Found(w) \cap DOMAIN seen'[s] = {}
    BY <1>0 DEF CartInv, VisitsOK
  <1> QED
    BY <1>0, <1>2, <1>3, <1>4, VisitsKept

(* get() finds the carts of its customer while it has the rows alone.       *)
LEMMA VisitsBegin ==
    ASSUME CartInv, NEW w \in Visitors, NEW o \in Owners, BeginGet(w, o)
    PROVE  VisitsOK'
  <1> DEFINE got == CartsOf(o)
  <1>0. /\ carts' = carts /\ seen' = seen /\ DOMAIN visits = Visitors
        /\ visits' = [visits EXCEPT ![w] = [owner |-> o, found |-> got]]
        /\ o \in Customers => \A x \in Visitors: ~Visits(x, o)
        /\ \A c \in got: (\A s \in Slots: c \notin DOMAIN seen[s]) /\ (\A x \in Visitors: c \notin Found(x))
    BY DEF BeginGet, work, CustomerFree, CartFree, HoldsCart, CartInv, CommandsInv, CartTypeOK
  <1>1. got \subseteq CartIds /\ \A c \in got: carts[c] # None
    BY DEF CartsOf
  <1>2. \A p: CartsOf(p)' = CartsOf(p)
    BY <1>0 DEF CartsOf
  <1>3. got = CartsOf(o)
    OBVIOUS
  <1> HIDE DEF got
  <1>4. /\ visits'[w].owner = o /\ Found(w)' \subseteq got /\ (visits'[w] # None => Found(w)' = got)
        /\ \A x \in Visitors \ {w}: visits'[x] = visits[x] /\ Found(x)' = Found(x)
    BY <1>0 DEF Found
  <1>5. /\ \A p \in Customers: Visits(w, p)' => p = o /\ Found(w)' = got
        /\ \A x \in Visitors \ {w}, p \in Customers: Visits(x, p)' <=> Visits(x, p)
    BY <1>4 DEF Visits
  <1>6. ASSUME NEW x \in Visitors
        PROVE  /\ Found(x)' \subseteq CartIds /\ \A c \in Found(x)': carts'[c] # None
               /\ \A p \in Customers: Visits(x, p)' => Found(x)' = CartsOf(p)'
               /\ \A s \in Slots: Found(x)' \cap DOMAIN seen'[s] = {}
    <2>1. CASE x = w
      BY <1>0, <1>1, <1>2, <1>3, <1>4, <1>5, <2>1
    <2>2. CASE x # w
      <3>1. Found(x)' = Found(x) /\ \A p \in Customers: Visits(x, p)' <=> Visits(x, p)
        BY <1>4, <1>5, <2>2
      <3> QED
        BY <1>0, <1>2, <3>1 DEF CartInv, VisitsOK
    <2> QED
      BY <2>1, <2>2
  <1>7. ASSUME NEW x \in Visitors, NEW y \in Visitors, x # y
        PROVE  /\ Found(x)' \cap Found(y)' = {}
               /\ \A p \in Customers: ~(Visits(x, p)' /\ Visits(y, p)')
    <2>1. ASSUME NEW z \in Visitors \ {w}
          PROVE  /\ Found(w)' \cap Found(z)' = {}
                 /\ \A p \in Customers: ~(Visits(w, p)' /\ Visits(z, p)')
      BY <1>0, <1>4, <1>5
    <2>2. CASE x # w /\ y # w
      <3>1. Found(x) \cap Found(y) = {} /\ \A p \in Customers: ~(Visits(x, p) /\ Visits(y, p))
        BY <1>7 DEF CartInv, VisitsOK
      <3> QED
        BY <1>4, <1>5, <2>2, <3>1
    <2> QED
      BY <1>7, <2>1, <2>2
  <1> QED
    BY <1>6, <1>7 DEF VisitsOK

(* A get() that ends changes its own carts, or gives its customer one; no   *)
(* other has found them.                                                    *)
LEMMA VisitsEnd ==
    ASSUME CartInv, NEW w \in Visitors, EndGet(w) \/ GetFails(w) \/ \E n \in CartIds: GetOrCreate(w, n)
    PROVE  VisitsOK'
  <1>0. /\ Leave(w) /\ CommandsInv /\ DOMAIN carts = CartIds
    BY DEF EndGet, GetFails, GetOrCreate, CartInv, CommandsInv, CartTypeOK
  <1>1. seen' = seen /\ visits'[w] = None /\ \A x \in Visitors \ {w}: visits'[x] = visits[x]
    BY <1>0, Left
  <1>2. ASSUME NEW c \in CartIds
        PROVE  \/ carts'[c] = carts[c]
               \/ c \in Found(w) /\ carts'[c].state = "expired"
               \/ /\ carts[c] = None /\ visits[w] # None /\ visits[w].owner \in Customers
                  /\ carts'[c].owner = visits[w].owner
    <2>1. CASE EndGet(w)
      BY <2>1, EndedCarts DEF EndGet
    <2>2. CASE GetFails(w)
      BY <2>2 DEF GetFails
    <2>3. ASSUME NEW n \in CartIds, GetOrCreate(w, n)
          PROVE  \/ carts'[c] = carts[c]
                 \/ c \in Found(w) /\ carts'[c].state = "expired"
                 \/ /\ carts[c] = None /\ visits[w] # None /\ visits[w].owner \in Customers
                    /\ carts'[c].owner = visits[w].owner
      <3>1. /\ carts' = [Ended(w) EXCEPT ![n] = NewCart(visits[w].owner)] /\ carts[n] = None
            /\ visits[w] # None /\ visits[w].owner \in Customers
            /\ \A e \in Ending(w): carts[e].version < MaxVersion
        BY <2>3 DEF GetOrCreate, Unused
      <3>2. CASE c = n
        <4>1. carts'[c] = NewCart(visits[w].owner)
          BY <3>1, <3>2 DEF Ended
        <4> QED
          BY <3>1, <3>2, <4>1 DEF NewCart
      <3>3. CASE c # n
        <4>1. carts'[c] = Ended(w)[c]
          BY <3>1, <3>3 DEF Ended
        <4> QED
          BY <3>1, <4>1, EndedCarts
      <3> QED
        BY <3>2, <3>3
    <2> QED
      BY <2>1, <2>2, <2>3
  <1>3. ASSUME NEW x \in Visitors \ {w}
        PROVE  /\ \A c \in Found(x): c \in CartIds /\ carts'[c] = carts[c]
               /\ \A o \in Customers: Visits(x, o) => CartsOf(o)' = CartsOf(o)
               /\ \A s \in Slots: Found(x) \cap DOMAIN seen'[s] = {}
    <2>1. /\ Found(x) \subseteq CartIds /\ Found(x) \cap Found(w) = {} /\ \A c \in Found(x): carts[c] # None
          /\ \A o \in Customers: Visits(x, o) => Found(x) = CartsOf(o) /\ ~Visits(w, o)
          /\ \A s \in Slots: Found(x) \cap DOMAIN seen[s] = {}
      BY DEF CartInv, VisitsOK
    <2>2. \A c \in Found(x): c \in CartIds /\ carts'[c] = carts[c]
      BY <1>2, <2>1
    <2>3. ASSUME NEW o \in Customers, Visits(x, o) PROVE CartsOf(o)' = CartsOf(o)
      <3>1. Found(x) = CartsOf(o) /\ ~Visits(w, o)
        BY <2>1, <2>3
      <3>2. ASSUME NEW c \in CartsOf(o) PROVE c \in CartsOf(o)'
        BY <2>2, <3>1 DEF CartsOf
      <3>3. ASSUME NEW c \in CartsOf(o)' PROVE c \in CartsOf(o)
        <4>1. c \in CartIds /\ carts'[c] # None /\ carts'[c].owner = o /\ carts'[c].state = "active"
          BY DEF CartsOf
        <4>2. carts'[c] = carts[c]
          BY <1>2, <3>1, <4>1 DEF Visits
        <4> QED
          BY <4>1, <4>2 DEF CartsOf
      <3> QED
        BY <3>2, <3>3
    <2> QED
      BY <1>1, <2>1, <2>2, <2>3
  <1> QED
    BY <1>1, <1>3, VisitsKept

(* Every step keeps what the visits of get() rest on.                       *)
LEMMA VisitsOKStep == CartInv /\ [CartNext]_allVars => VisitsOK'
  <1> SUFFICES ASSUME CartInv, [CartNext]_allVars PROVE VisitsOK'
    OBVIOUS
  <1>1. ASSUME NEW s \in Slots, CartStep(s) PROVE VisitsOK'
    <2>1. CASE \/ EngineOnly(s) \/ AuthorizeOwner(s) \/ SelectCarts(s) \/ DenyCart(s) \/ AdmitCart(s)
               \/ WriteCart(s) \/ FinishCart(s) \/ RefuseCart(s)
      <3>1. carts' = carts /\ visits' = visits /\ seen' = seen
        BY <2>1 DEF EngineOnly, AuthorizeOwner, SelectCarts, DenyCart, AdmitCart, WriteCart, FinishCart,
                    RefuseCart, cartVars, work
      <3> QED
        BY <3>1, VisitsQuiet
    <2>2. CASE LockCart(s)
      BY <2>2, VisitsLock
    <2>3. CASE Discard(s)
      <3>1. carts' = carts /\ visits' = visits /\ DOMAIN seen = Slots /\ seen' = [seen EXCEPT ![s] = Nothing]
        BY <2>3 DEF Discard, Release, cartVars, CartInv, CommandsInv, CartTypeOK
      <3>2. \A t \in Slots: DOMAIN seen'[t] \subseteq DOMAIN seen[t]
        BY <3>1 DEF Nothing
      <3> QED
        BY <3>1, <3>2, VisitsQuiet
    <2>4. CASE CommitCart(s)
      BY <2>4, VisitsCommit
    <2> QED
      BY <1>1, <2>1, <2>2, <2>3, <2>4 DEF CartStep
  <1>2. ASSUME NEW g \in Guests, NEW c \in CartIds, CreateGuestCart(g, c) PROVE VisitsOK'
    BY <1>2, VisitsGuest
  <1>3. ASSUME NEW w \in Visitors, NEW o \in Owners, BeginGet(w, o) PROVE VisitsOK'
    BY <1>3, VisitsBegin
  <1>4. ASSUME NEW w \in Visitors, EndGet(w) \/ GetFails(w) PROVE VisitsOK'
    BY <1>4, VisitsEnd
  <1>5. ASSUME NEW w \in Visitors, NEW c \in CartIds, GetOrCreate(w, c) PROVE VisitsOK'
    BY <1>5, VisitsEnd
  <1>6. CASE \/ \E s \in Slots, k \in Keys, d \in Digests: ReceiveCart(s, k, d)
             \/ \E v \in Variants, fact \in Facts: CatalogChanges(v, fact)
             \/ Tick
             \/ \E k \in AgeingKeys: Ageing(k)
             \/ UNCHANGED allVars
    <2>1. carts' = carts /\ visits' = visits /\ seen' = seen
      BY <1>6 DEF ReceiveCart, CatalogChanges, Tick, Ageing, allVars, cartVars, work
    <2> QED
      BY <2>1, VisitsQuiet
  <1> QED
    BY <1>1, <1>2, <1>3, <1>4, <1>5, <1>6 DEF CartNext

(* Every step of the carts keeps the invariant.                             *)
LEMMA CartInvStep == CartInv /\ [CartNext]_allVars => CartInv'
  BY CommandsInvStep, VisitsOKStep DEF CartInv
-----------------------------------------------------------------------------
(* The inductive invariant of the carts.                                    *)
THEOREM CartInvariant == CartSpec => []CartInv
  BY CartInvInit, CartInvStep, PTL DEF CartSpec

(* The variables keep their types: quantities, limits and the number of     *)
(* lines of sales.cart_lines and deadlines of sales.carts for any inputs    *)
(* (service.ts, CartService).                                               *)
THEOREM CartTyped == CartSpec => []CartTypeOK
  BY CartInvariant, PTL DEF CartInv, CommandsInv

(* A cart command is a command of the engine, so that everything proved of  *)
(* Commands.run holds of the carts.                                         *)
THEOREM CartImplementsEngine == CartSpec => Spec
  <1>1. CartInit => Init
    BY DEF CartInit
  <1> QED
    BY <1>1, CartInvariant, CartStepIsEngineStep, PTL DEF CartInv, CartSpec, Spec

(* No lost update: the carts are what their commands made of them.          *)
THEOREM CartsAreTheirHistory == CartSpec => []CartIsItsHistory
  BY CartInvariant, PTL DEF CartInv, CommandsInv

(* A customer has one active cart at most, though no index is asked.        *)
THEOREM OneActive == CartSpec => []OneActiveCart
  <1>1. CommandsInv => OneActiveCart
    <2> SUFFICES ASSUME CommandsInv, NEW o \in Customers PROVE Cardinality(ActiveOf(o)) <= 1
      BY DEF OneActiveCart
    <2>1. CASE ActiveOf(o) = {}
      BY <2>1, FS_EmptySet
    <2>2. CASE ActiveOf(o) # {}
      <3>1. PICK c \in ActiveOf(o): ActiveOf(o) = {c}
        BY <2>2 DEF CommandsInv, OneOpenCart
      <3>2. Cardinality({c}) = 1
        BY FS_Singleton
      <3> QED
        BY <3>1, <3>2
    <2> QED
      BY <2>1, <2>2
  <1> QED
    BY <1>1, CartInvariant, PTL DEF CartInv

(* What a step does to one cart.                                            *)
LEMMA CartMoves ==
    ASSUME CartInv, [CartNext]_allVars, NEW c \in CartIds, carts'[c] # carts[c], carts[c] # None
    PROVE  \/ \E s \in Slots: CommitCart(s) /\ c \in DOMAIN draft[s]
           \/ carts[c].state = "active" /\ carts'[c].state = "expired"
  <1>1. ASSUME NEW s \in Slots, CartStep(s) PROVE CommitCart(s) /\ c \in DOMAIN draft[s]
    <2>1. CommitCart(s)
      BY <1>1 DEF CartStep, EngineOnly, AuthorizeOwner, SelectCarts, LockCart, DenyCart, AdmitCart, WriteCart,
                  FinishCart, RefuseCart, Discard, cartVars
    <2> QED
      BY <2>1, CommittedCarts DEF CartInv
  <1>2. ASSUME NEW s \in Slots, NEW k \in Keys, NEW d \in Digests, ReceiveCart(s, k, d) PROVE FALSE
    BY <1>2 DEF ReceiveCart, cartVars
  <1>3. ASSUME NEW g \in Guests, NEW n \in CartIds, CreateGuestCart(g, n) PROVE FALSE
    <2>1. carts[n] = None /\ carts' = [carts EXCEPT ![n] = NewCart(g)] /\ DOMAIN carts = CartIds
      BY <1>3 DEF CreateGuestCart, Unused, CartInv, CommandsInv, CartTypeOK
    <2> QED
      BY <2>1
  <1>4. ASSUME NEW w \in Visitors, EndGet(w) \/ GetFails(w)
        PROVE  carts[c].state = "active" /\ carts'[c].state = "expired"
    <2>1. carts' = Ended(w) /\ \A e \in Ending(w): carts[e].version < MaxVersion
      BY <1>4 DEF EndGet, GetFails
    <2> QED
      BY <2>1, EndedCarts
  <1>5. ASSUME NEW w \in Visitors, NEW n \in CartIds, GetOrCreate(w, n)
        PROVE  carts[c].state = "active" /\ carts'[c].state = "expired"
    <2>1. /\ carts' = [Ended(w) EXCEPT ![n] = NewCart(visits[w].owner)] /\ carts[n] = None
          /\ \A e \in Ending(w): carts[e].version < MaxVersion
      BY <1>5 DEF GetOrCreate, Unused
    <2>2. carts'[c] = Ended(w)[c]
      BY <2>1 DEF Ended
    <2> QED
      BY <2>1, <2>2, EndedCarts
  <1>10. ASSUME NEW w \in Visitors, NEW o \in Owners, BeginGet(w, o) PROVE FALSE
    BY <1>10 DEF BeginGet
  <1>6. ASSUME NEW v \in Variants, NEW fact \in Facts, CatalogChanges(v, fact) PROVE FALSE
    BY <1>6 DEF CatalogChanges
  <1>7. CASE Tick
    BY <1>7 DEF Tick
  <1>8. ASSUME NEW k \in AgeingKeys, Ageing(k) PROVE FALSE
    BY <1>8 DEF Ageing, cartVars
  <1>9. CASE UNCHANGED allVars
    BY <1>9 DEF allVars, cartVars
  <1> QED
    BY <1>1, <1>2, <1>3, <1>4, <1>5, <1>6, <1>7, <1>8, <1>9, <1>10 DEF CartNext

(* A merged or expired cart stays as it is.                                 *)
THEOREM TerminalStay == CartSpec => TerminalCartsStay
  <1>1. CartInv /\ [CartNext]_allVars =>
            [\A c \in CartIds: carts[c] # None => (carts[c].state # "active" => carts'[c] = carts[c])]_carts
    <2> SUFFICES ASSUME CartInv, [CartNext]_allVars, NEW c \in CartIds, carts[c] # None,
                        carts[c].state # "active", carts'[c] # carts[c]
                 PROVE  FALSE
      OBVIOUS
    <2>1. PICK s \in Slots: CommitCart(s) /\ c \in DOMAIN draft[s]
      BY CartMoves
    <2> QED
      BY <2>1, CommitResolves, DraftChanges DEF CartInv
  <1> QED
    BY <1>1, CartInvariant, PTL DEF CartSpec, TerminalCartsStay

(* The limit of a sum cuts it, and leaves none of its lines out.            *)
LEMMA SumIsCut ==
    ASSUME NEW most \in 1..MaxQuantity, NEW m \in 0..MaxQuantity, NEW n \in 0..MaxQuantity
    PROVE  /\ Lesser(Lesser(MaxQuantity, most), m + n) = Lesser(m + n, Lesser(MaxQuantity, most))
           /\ Lesser(m + n, Lesser(MaxQuantity, most)) > 0 <=> m > 0 \/ n > 0
  BY CartConstants DEF Lesser

(* A merge that commits: its source goes into its target, which gets the    *)
(* lines of both.                                                           *)
LEMMA MergeCommitted ==
    ASSUME CommandsInv, NEW s \in Slots, CommitCart(s), NEW c \in DOMAIN draft[s], draft[s][c].state = "merged"
    PROVE  \E t \in CartIds:
               /\ carts'[c].lines = carts[c].lines /\ carts'[c].into = t
               /\ carts[t].state = "active" /\ carts'[t].state = "active"
               /\ LinesOf(carts'[t].lines) = LinesOf(carts[t].lines) \cup LinesOf(carts[c].lines)
               /\ \A v \in Variants: \E fact \in Facts:
                      carts'[t].lines[v] = Lesser(carts[t].lines[v] + carts[c].lines[v],
                                                  Lesser(MaxQuantity, fact.most))
  <1>0. /\ session[s].at \in {"committing", "orphan"} /\ session[s].effect
        /\ Operation(s) = "merge" /\ c = Input(s).source
    BY CommitResolves, DraftChanges
  <1>1. EffectDrafted(s) /\ MergeDrafted(s)
    BY <1>0, SessionFacts DEF DraftOK, EffectDrafted
  <1>2. PICK t: t = Input(s).cart
    OBVIOUS
  <1>3. t \in DOMAIN draft[s] /\ t \in DOMAIN seen[s] /\ c \in DOMAIN seen[s]
    BY <1>0, <1>1, <1>2 DEF EffectDrafted, Named, StillOpen, Owned, AllFound
  <1>4. /\ t \in CartIds /\ c \in CartIds /\ seen[s][t] = carts[t] /\ seen[s][c] = carts[c]
        /\ carts[t] \in Carts /\ carts[c] \in Carts
        /\ carts[t].lines \in [Variants -> 0..MaxQuantity] /\ carts[c].lines \in [Variants -> 0..MaxQuantity]
    BY <1>3, SeenTyped
  <1>5. carts'[t] = draft[s][t] /\ carts'[c] = draft[s][c]
    BY <1>3, <1>4, CommittedCarts
  <1>6. carts'[c].lines = carts[c].lines /\ carts'[c].into = t
    <2>1. draft[s][c] = AsMerged(carts[c], t) /\ carts[c].version < MaxVersion
      BY <1>0, <1>1, <1>2, <1>4 DEF MergeDrafted
    <2> QED
      BY <1>4, <1>5, <2>1, MergedTyped
  <1>7. carts[t].state = "active" /\ carts'[t].state = "active"
    <2>1. carts[t].state = "active"
      BY <1>1, <1>2, <1>4 DEF EffectDrafted, StillOpen
    <2>2. PICK new: new = draft[s][t]
      OBVIOUS
    <2>3. new = [carts[t] EXCEPT !.lines = new.lines, !.version = @ + 1, !.expires = new.expires]
      BY <1>1, <1>2, <1>4, <2>2 DEF EffectDrafted
    <2>4. new.state = carts[t].state
      BY <1>4, <2>3 DEF Carts
    <2> QED
      BY <1>5, <2>1, <2>2, <2>4
  <1>8. ASSUME NEW v \in Variants
        PROVE  /\ \E fact \in Facts:
                      carts'[t].lines[v] = Lesser(carts[t].lines[v] + carts[c].lines[v],
                                                  Lesser(MaxQuantity, fact.most))
               /\ carts'[t].lines[v] > 0 <=> carts[t].lines[v] > 0 \/ carts[c].lines[v] > 0
    <2>1. PICK fact \in Facts: carts'[t].lines[v] =
                                   Lesser(Lesser(MaxQuantity, fact.most), carts[t].lines[v] + carts[c].lines[v])
      BY <1>0, <1>1, <1>2, <1>4, <1>5 DEF MergeDrafted
    <2>2. fact.most \in 1..MaxQuantity
      BY CartConstants
    <2>3. carts[t].lines[v] \in 0..MaxQuantity /\ carts[c].lines[v] \in 0..MaxQuantity
      BY <1>4
    <2> QED
      BY <2>1, <2>2, <2>3, SumIsCut
  <1>9. LinesOf(carts'[t].lines) = LinesOf(carts[t].lines) \cup LinesOf(carts[c].lines)
    BY <1>8 DEF LinesOf
  <1> QED
    BY <1>4, <1>6, <1>7, <1>8, <1>9

(* A merge moves every line, cuts it at a limit of the catalog only, and    *)
(* leaves its target open (service.ts, merge).                              *)
THEOREM MergeMoves == CartSpec => MergeMovesEveryLine
  <1>1. CartInv /\ [CartNext]_allVars =>
            [\A c \in CartIds:
                 carts[c] # None /\ carts[c] # carts'[c] /\ carts'[c].state = "merged" =>
                     LET t == carts'[c].into
                     IN  /\ carts'[c].lines = carts[c].lines
                         /\ carts[t].state = "active" /\ carts'[t].state = "active"
                         /\ LinesOf(carts'[t].lines) = LinesOf(carts[t].lines) \cup LinesOf(carts[c].lines)
                         /\ \A v \in Variants:
                                LET sum == carts[t].lines[v] + carts[c].lines[v]
                                IN  carts'[t].lines[v] \in
                                        {Lesser(sum, Lesser(MaxQuantity, fact.most)): fact \in Facts}]_carts
    <2> SUFFICES ASSUME CartInv, [CartNext]_allVars, NEW c \in CartIds, carts[c] # None,
                        carts[c] # carts'[c], carts'[c].state = "merged"
                 PROVE  LET t == carts'[c].into
                        IN  /\ carts'[c].lines = carts[c].lines
                            /\ carts[t].state = "active" /\ carts'[t].state = "active"
                            /\ LinesOf(carts'[t].lines) = LinesOf(carts[t].lines) \cup LinesOf(carts[c].lines)
                            /\ \A v \in Variants: \E fact \in Facts:
                                   carts'[t].lines[v] = Lesser(carts[t].lines[v] + carts[c].lines[v],
                                                               Lesser(MaxQuantity, fact.most))
      OBVIOUS
    <2>1. PICK s \in Slots: CommitCart(s) /\ c \in DOMAIN draft[s]
      BY CartMoves
    <2>2. draft[s][c].state = "merged"
      BY <2>1, CommittedCarts DEF CartInv
    <2> QED
      BY <2>1, <2>2, MergeCommitted DEF CartInv
  <1> QED
    BY <1>1, CartInvariant, PTL DEF CartSpec, MergeMovesEveryLine
-----------------------------------------------------------------------------
(* Finitely many numbers have a greatest.                                   *)
LEMMA GreatestMember ==
    ASSUME NEW R, IsFiniteSet(R), R # {}, NEW f, \A x \in R: f[x] \in Nat
    PROVE  \E x \in R: \A y \in R: ~(f[x] < f[y])
  <1> DEFINE Bad == {T \in SUBSET R: T # {} /\ \A x \in T: \E y \in T: f[x] < f[y]}
  <1>1. SUFFICES ASSUME Bad # {} PROVE FALSE
    <2>1. R \notin Bad
      BY <1>1
    <2> QED
      BY <2>1
  <1>2. IsWellFoundedOn(StrictSubsetOrdering(R), FiniteSubsetsOf(R))
    BY FS_StrictSubsetOrderingWellFounded
  <1>3. Bad \subseteq FiniteSubsetsOf(R)
    BY FS_FiniteSubsetsOfFinite
  <1> HIDE DEF Bad
  <1>4. PICK T \in Bad: \A U \in Bad: ~(<<U, T>> \in StrictSubsetOrdering(R))
    BY <1>1, <1>2, <1>3, WFMin, Zenon
  <1> USE DEF Bad
  <1>5. PICK x \in T: TRUE
    OBVIOUS
  <1> DEFINE U == {y \in T: f[x] < f[y]}
  <1>6. U \in Bad
    <2>1. U # {} /\ U \in SUBSET R
      BY <1>5
    <2>2. ASSUME NEW y \in U PROVE \E z \in U: f[y] < f[z]
      <3>1. PICK z \in T: f[y] < f[z]
        OBVIOUS
      <3>2. f[x] \in Nat /\ f[y] \in Nat /\ f[z] \in Nat
        BY <1>5, <3>1
      <3> QED
        BY <3>1, <3>2
    <2> QED
      BY <2>1, <2>2
  <1>7. U \subseteq T /\ x \notin U
    <2>1. f[x] \in Nat
      BY <1>5
    <2> QED
      BY <2>1
  <1>8. <<U, T>> \in StrictSubsetOrdering(R)
    BY <1>5, <1>6, <1>7 DEF StrictSubsetOrdering
  <1> QED
    BY <1>4, <1>6, <1>8

(* Command lock, customer row and cart rows are never waited for in a       *)
(* circle.                                                                  *)
THEOREM NoCycle == CartSpec => []NoLockCycle
  <1>1. CommandsInv => NoLockCycle
    <2> SUFFICES ASSUME CommandsInv, NEW circle \in SUBSET Slots, circle # {},
                        \A s \in circle: \E t \in circle: WaitsFor(s, t)
                 PROVE  FALSE
      BY DEF NoLockCycle
    <2> DEFINE R == {s \in circle: session[s].at = "read"}
    <2>1. ASSUME NEW s \in circle, session[s].at \in {"locked", "read"}
          PROVE  \E t \in R: TRUE
      <3>1. CASE session[s].at = "locked"
        <4>1. PICK t \in circle: HoldsCustomer(t, KeyOwner[session[s].key])
          BY <3>1 DEF WaitsFor
        <4>2. session[t].at # "begun" /\ session[t].at # "locked"
          BY <4>1 DEF HoldsCustomer, LockedStages
        <4>3. session[t].at = "read"
          BY <4>2 DEF WaitsFor
        <4> QED
          BY <4>3
      <3> QED
        BY <2>1, <3>1
    <2>2. R # {}
      <3>1. PICK s \in circle: TRUE
        OBVIOUS
      <3>2. CASE session[s].at = "begun"
        <4>1. PICK t \in circle: HoldsKey(t, session[s].key)
          BY <3>2 DEF WaitsFor
        <4>2. session[t].at # "begun"
          BY <4>1 DEF HoldsKey, LockedStages
        <4>3. session[t].at \in {"locked", "read"}
          BY <4>2 DEF WaitsFor
        <4> QED
          BY <2>1, <4>3
      <3>3. CASE session[s].at # "begun"
        <4>1. session[s].at \in {"locked", "read"}
          BY <3>3 DEF WaitsFor
        <4> QED
          BY <2>1, <4>1
      <3> QED
        BY <3>2, <3>3
    <2>3. ASSUME NEW s \in R
          PROVE  /\ ToLock(s) # {} /\ NextToLock(s) \in Nat
                 /\ \E t \in R: NextToLock(s) < NextToLock(t)
      <3>1. PICK t \in circle: ToLock(s) # {} /\ HoldsCart(t, NextToLock(s))
        BY DEF WaitsFor
      <3>2. NextToLock(s) \in Nat
        BY <3>1, NextIsLeast, CartConstants DEF ToLock, CommandsInv, CartTypeOK
      <3>3. RowsOK(t) /\ NextToLock(s) \in DOMAIN seen[t]
        BY <3>1, SessionFacts DEF HoldsCart
      <3>4. session[t].at \notin {"begun", "locked"}
        BY <3>3 DEF RowsOK
      <3>5. session[t].at = "read" /\ ToLock(t) # {}
        BY <3>4 DEF WaitsFor
      <3>6. NextToLock(t) \in ToLock(t)
        BY <3>5, NextIsLeast
      <3> QED
        BY <3>1, <3>2, <3>3, <3>5, <3>6 DEF RowsOK
    <2> DEFINE f == [s \in R |-> NextToLock(s)]
    <2>4. IsFiniteSet(R)
      BY CartConstants, FS_Subset
    <2>5. \A s \in R: f[s] \in Nat
      BY <2>3
    <2>6. \A s \in R: \E t \in R: f[s] < f[t]
      BY <2>3
    <2> HIDE DEF f, R
    <2>7. \E s \in R: \A t \in R: ~(f[s] < f[t])
      BY <2>2, <2>4, <2>5, GreatestMember
    <2> QED
      BY <2>6, <2>7
  <1> QED
    BY <1>1, CartInvariant, PTL DEF CartInv
=============================================================================
