------------------------------ MODULE Commands ------------------------------
(***************************************************************************)
(* The idempotent command engine: Commands.run inside Database.transaction *)
(* (packages/platform/src/commands.ts and database.ts).  One slot is one   *)
(* pooled PostgreSQL connection; its session walks through the statements  *)
(* of one HTTP request.  What the transaction has written but not committed *)
(* lives in the session; the variables hold what is committed.             *)
(*                                                                         *)
(* The domain part of a command (who may run it, what its guard and its    *)
(* effect do) is left open here: a composing module conjoins it to these   *)
(* actions, as StockCommands and CartCommands do.                          *)
(***************************************************************************)
EXTENDS Naturals

CONSTANTS
    Slots,      \* connections of the pool
    Keys,       \* full idempotency scopes: surface, actor scope, actor, operation, key
    Digests,    \* hashes of the validated input (no collisions)
    Successes,  \* results execute() may return
    Refusals,   \* results built from a deterministic error code
    None

Results == Successes \cup Refusals
Rows == [digest: Digests, state: {"started", "completed"}, result: Results \cup {None}]

Resolutions == [digest: Digests, result: Results]

ASSUME ResultsAreDisjoint == Successes \cap Refusals = {}
ASSUME NoneIsNoValue ==
    /\ None \notin Keys
    /\ None \notin Digests
    /\ None \notin Results
    /\ None \notin Rows
    /\ None \notin Resolutions

VARIABLES
    records,    \* committed platform.idempotency_records, one per key at most
    expired,    \* keys whose committed record is past its expires_at
    applied,    \* history: committed effects per key
    answers,    \* history: <<digest, result>> pairs answered per key
    session     \* the request each connection is serving

durable == <<records, expired, applied>>
vars == <<records, expired, applied, answers, session>>

(* "committing": COMMIT is sent and unanswered.  "orphan": the API gave up  *)
(* on the COMMIT, while the server may still carry it out.                  *)
Stages == {"idle", "begun", "locked", "authorized", "read", "started", "wrote",
           "committing", "orphan"}

(* Transactions that still can end in a plain ROLLBACK.                     *)
Running == {"begun", "locked", "authorized", "read", "started", "wrote"}

(* The advisory transaction lock is held from commandLock to the very end.  *)
LockedStages == {"locked", "authorized", "read", "started", "wrote", "committing", "orphan"}

Idle == [at |-> "idle", key |-> None, digest |-> None, old |-> None, stale |-> FALSE,
         row |-> None, effect |-> FALSE, reply |-> None]

Sessions == [at: Stages, key: Keys \cup {None}, digest: Digests \cup {None},
             old: Rows \cup {None}, stale: BOOLEAN, row: Rows \cup {None},
             effect: BOOLEAN, reply: Results \cup {None}]

HoldsKey(s, k) == session[s].at \in LockedStages /\ session[s].key = k

(* An uncommitted record of another connection: the unique index makes an   *)
(* INSERT of the same scope wait for it.                                    *)
HasPending(s, k) == session[s].key = k /\ session[s].row # None
-----------------------------------------------------------------------------
TypeOK ==
    /\ records \in [Keys -> Rows \cup {None}]
    /\ expired \in SUBSET Keys
    /\ applied \in [Keys -> Nat]
    /\ answers \in [Keys -> SUBSET (Digests \X Results)]
    /\ session \in [Slots -> Sessions]

Init ==
    /\ records = [k \in Keys |-> None]
    /\ expired = {}
    /\ applied = [k \in Keys |-> 0]
    /\ answers = [k \in Keys |-> {}]
    /\ session = [s \in Slots |-> Idle]
-----------------------------------------------------------------------------
(* A request reaches the engine and its transaction begins.  Retries are    *)
(* simply later requests with a key that was used before.                   *)
Receive(s, k, d) ==
    /\ session[s].at = "idle"
    /\ session' = [session EXCEPT ![s] = [Idle EXCEPT !.at = "begun", !.key = k, !.digest = d]]
    /\ UNCHANGED <<durable, answers>>

(* Mutant of TakeCommandLock: the lock is asked for and not waited for.     *)
ProceedWithoutLock(s) ==
    /\ session[s].at = "begun"
    /\ session' = [session EXCEPT ![s].at = "locked"]
    /\ UNCHANGED <<durable, answers>>

(* pg_advisory_xact_lock on the hash of the scope: waits for any holder.    *)
TakeCommandLock(s) ==
    /\ session[s].at = "begun"
    /\ \A t \in Slots: ~HoldsKey(t, session[s].key)
    /\ session' = [session EXCEPT ![s].at = "locked"]
    /\ UNCHANGED <<durable, answers>>

(* options.authorize returned an actor; a FORBIDDEN it throws is a Fail.    *)
Authorize(s) ==
    /\ session[s].at = "locked"
    /\ session' = [session EXCEPT ![s].at = "authorized"]
    /\ UNCHANGED <<durable, answers>>

(* SELECT ... FOR UPDATE of the record, with its age by the database clock. *)
ReadRecord(s) ==
    /\ session[s].at = "authorized"
    /\ session' = [session EXCEPT ![s] =
           [@ EXCEPT !.at = "read", !.old = records[session[s].key],
                     !.stale = session[s].key \in expired]]
    /\ UNCHANGED <<durable, answers>>

(* The guard denied: no record is written, yet what the guard itself wrote  *)
(* is committed.                                                            *)
Deny(s) ==
    /\ session[s].at = "read"
    /\ session' = [session EXCEPT ![s].at = "committing"]
    /\ UNCHANGED <<durable, answers>>

(* Mutant of AnswerFromRecord: the hash of the input is not compared.       *)
ReplayAnyInput(s) ==
    /\ session[s].at = "read"
    /\ session[s].old # None
    /\ session' = [session EXCEPT ![s] = [@ EXCEPT !.at = "committing", !.reply = session[s].old.result]]
    /\ UNCHANGED <<durable, answers>>

(* Mutant of AnswerFromRecord: a used key is a conflict, whatever its state. *)
ConflictOnRepeat(s) ==
    /\ session[s].at = "read"
    /\ session[s].old # None
    /\ session' = [session EXCEPT ![s].at = "committing"]
    /\ UNCHANGED <<durable, answers>>

(* The guard passed and a record exists: only an unexpired completed record *)
(* of the same input is replayed; any other is a 409 that carries no result. *)
AnswerFromRecord(s) ==
    LET old == session[s].old
        replayable == /\ old.digest = session[s].digest
                      /\ ~session[s].stale
                      /\ old.state = "completed"
    IN  /\ session[s].at = "read"
        /\ old # None
        /\ session' = [session EXCEPT ![s] =
               [@ EXCEPT !.at = "committing", !.reply = IF replayable THEN old.result ELSE None]]
        /\ UNCHANGED <<durable, answers>>

NewRow(d) == [digest |-> d, state |-> "started", result |-> None]

CompletedRow(d, r) == [digest |-> d, state |-> "completed", result |-> r]

(* Mutant of Start: an expired record is overwritten and its key used again. *)
StartOver(s) ==
    /\ session[s].at = "read"
    /\ session[s].old = None \/ session[s].stale
    /\ session' = [session EXCEPT ![s] = [@ EXCEPT !.at = "started", !.row = NewRow(session[s].digest)]]
    /\ UNCHANGED <<durable, answers>>

(* The guard passed and there is no record: INSERT 'started', SAVEPOINT.    *)
Start(s) ==
    LET k == session[s].key
    IN  /\ session[s].at = "read"
        /\ session[s].old = None
        /\ records[k] = None
        /\ \A t \in Slots \ {s}: ~HasPending(t, k)
        /\ session' = [session EXCEPT ![s] = [@ EXCEPT !.at = "started", !.row = NewRow(session[s].digest)]]
        /\ UNCHANGED <<durable, answers>>

(* execute() wrote its effect, in full or in part, under the savepoint.     *)
Write(s) ==
    /\ session[s].at = "started"
    /\ session' = [session EXCEPT ![s] = [@ EXCEPT !.at = "wrote", !.effect = TRUE]]
    /\ UNCHANGED <<durable, answers>>

(* RELEASE SAVEPOINT and UPDATE ... 'completed' with the snapshot; effect   *)
(* says whether what execute() wrote survived the savepoint.                *)
Complete(s, r, effect) ==
    session' = [session EXCEPT ![s] =
        [@ EXCEPT !.at = "committing", !.reply = r, !.effect = effect,
                  !.row = CompletedRow(session[s].row.digest, r)]]

Succeed(s, r) ==
    /\ session[s].at = "wrote"
    /\ Complete(s, r, session[s].effect)
    /\ UNCHANGED <<durable, answers>>

(* Mutant of Refuse: the savepoint is released and not rolled back to.      *)
RefuseWithoutRollback(s, r) ==
    /\ session[s].at \in {"started", "wrote"}
    /\ Complete(s, r, session[s].effect)
    /\ UNCHANGED <<durable, answers>>

(* A deterministic error, before or after some writes of execute(): ROLLBACK *)
(* TO SAVEPOINT undoes the effect, the refusal becomes the stored outcome.  *)
Refuse(s, r) ==
    /\ session[s].at \in {"started", "wrote"}
    /\ Complete(s, r, FALSE)
    /\ UNCHANGED <<durable, answers>>

(* Any other failure before COMMIT rolls everything back: FORBIDDEN, a lock *)
(* or statement timeout, a deadlock, a lost connection, the death of the    *)
(* process.  Nothing is retried inside the API.                             *)
Fail(s) ==
    /\ session[s].at \in Running
    /\ session' = [session EXCEPT ![s] = Idle]
    /\ UNCHANGED <<durable, answers>>

(* What the server makes durable when it carries out the COMMIT of slot s.  *)
Install(s) ==
    LET k == session[s].key
    IN  /\ records' = IF session[s].row = None THEN records
                      ELSE [records EXCEPT ![k] = session[s].row]
        /\ applied' = IF session[s].effect THEN [applied EXCEPT ![k] = @ + 1] ELSE applied
        /\ UNCHANGED expired

(* COMMIT answered: the caller gets the result, if the path produced one.   *)
Commit(s) ==
    LET k == session[s].key
    IN  /\ session[s].at = "committing"
        /\ Install(s)
        /\ answers' = IF session[s].reply = None THEN answers
                      ELSE [answers EXCEPT ![k] = @ \cup {<<session[s].digest, session[s].reply>>}]
        /\ session' = [session EXCEPT ![s] = Idle]

(* Mutant of CommitRefused: the command tag of the answer is not looked at. *)
AnswerRolledBack(s) ==
    LET k == session[s].key
    IN  /\ session[s].at = "committing"
        /\ answers' = IF session[s].reply = None THEN answers
                      ELSE [answers EXCEPT ![k] = @ \cup {<<session[s].digest, session[s].reply>>}]
        /\ session' = [session EXCEPT ![s] = Idle]
        /\ UNCHANGED durable

(* The server answered COMMIT with ROLLBACK: the caller gets ROLLED_BACK.   *)
CommitRefused(s) ==
    /\ session[s].at = "committing"
    /\ session' = [session EXCEPT ![s] = Idle]
    /\ UNCHANGED <<durable, answers>>

(* No answer to COMMIT (error, timeout, dead process): COMMIT_UNKNOWN, and  *)
(* the connection is destroyed.  The server still holds the transaction.    *)
CommitLost(s) ==
    /\ session[s].at = "committing"
    /\ session' = [session EXCEPT ![s].at = "orphan"]
    /\ UNCHANGED <<durable, answers>>

OrphanCommits(s) ==
    /\ session[s].at = "orphan"
    /\ Install(s)
    /\ session' = [session EXCEPT ![s] = Idle]
    /\ UNCHANGED answers

OrphanAborts(s) ==
    /\ session[s].at = "orphan"
    /\ session' = [session EXCEPT ![s] = Idle]
    /\ UNCHANGED <<durable, answers>>

(* Seven days pass over a committed record.                                 *)
ExpireRecord(k) ==
    /\ records[k] # None
    /\ k \notin expired
    /\ expired' = expired \cup {k}
    /\ UNCHANGED <<records, applied, answers, session>>
-----------------------------------------------------------------------------
Step(s) ==
    \/ TakeCommandLock(s)
    \/ Authorize(s)
    \/ ReadRecord(s)
    \/ Deny(s)
    \/ AnswerFromRecord(s)
    \/ Start(s)
    \/ Write(s)
    \/ \E r \in Successes: Succeed(s, r)
    \/ \E r \in Refusals: Refuse(s, r)
    \/ Fail(s)
    \/ Commit(s)
    \/ CommitRefused(s)
    \/ CommitLost(s)
    \/ OrphanCommits(s)
    \/ OrphanAborts(s)

Next ==
    \/ \E s \in Slots: Step(s)
    \/ \E s \in Slots, k \in Keys, d \in Digests: Receive(s, k, d)
    \/ \E k \in Keys: ExpireRecord(k)

Spec == Init /\ [][Next]_vars
-----------------------------------------------------------------------------
(* Retries, lost COMMITs and timeouts never make a command take effect      *)
(* twice: at most one committed effect per idempotency scope.               *)
EffectAtMostOnce == \A k \in Keys: applied[k] <= 1

(* A committed record is a finished one, and it says what happened: the     *)
(* effect is durable exactly when the stored outcome is a success, so no    *)
(* refusal keeps a partial effect and no effect is without its record.      *)
NoHalfDoneCommand ==
    \A k \in Keys:
        IF records[k] = None THEN applied[k] = 0
        ELSE /\ records[k].state = "completed"
             /\ applied[k] = 1 <=> records[k].result \in Successes

(* What a caller was told is what the database holds, however the commit    *)
(* that produced it and the later attempts interleave: every answer that    *)
(* carries a result repeats the stored outcome, for the stored input.       *)
AnswersAreDurable ==
    \A k \in Keys: \A a \in answers[k]:
        /\ records[k] # None
        /\ a = <<records[k].digest, records[k].result>>

(* A committed outcome is history: no later attempt replaces or removes it. *)
OutcomesNeverChange ==
    [][\A k \in Keys: records[k] # None => records'[k] = records[k]]_records

(* The engine implements OnceOnly: a committed record is the resolution.    *)
Outcome(k) == IF records[k] = None THEN None
              ELSE [digest |-> records[k].digest, result |-> records[k].result]

Once == INSTANCE OnceOnly WITH outcome <- [k \in Keys |-> Outcome(k)], effects <- applied

OnceSpec == Once!Spec
-----------------------------------------------------------------------------
(* The inductive invariant behind the properties above.                     *)

(* Two transactions past commandLock serve different keys.                  *)
KeyMutex ==
    \A s, t \in Slots:
        (s # t /\ session[s].at \in LockedStages /\ session[t].at \in LockedStages)
            => session[s].key # session[t].key

(* What each stage of a session has written and knows.                      *)
Serving(s) ==
    /\ session[s].at = "idle" => session[s] = Idle
    /\ session[s].at # "idle" => session[s].key \in Keys /\ session[s].digest \in Digests

BeforeRecord(s) ==
    session[s].at \in {"begun", "locked", "authorized", "read"} =>
        session[s].row = None /\ session[s].effect = FALSE /\ session[s].reply = None

OldIsCurrent(s) == session[s].at = "read" => session[s].old = records[session[s].key]

RecordOpen(s) ==
    session[s].at \in {"started", "wrote"} =>
        /\ records[session[s].key] = None
        /\ session[s].row = NewRow(session[s].digest)
        /\ session[s].effect <=> session[s].at = "wrote"

Resolving(s) ==
    /\ records[session[s].key] = None
    /\ session[s].reply \in Results
    /\ session[s].row = CompletedRow(session[s].digest, session[s].reply)
    /\ session[s].effect <=> session[s].reply \in Successes

Repeating(s) ==
    /\ session[s].row = None
    /\ session[s].effect = FALSE
    /\ session[s].reply # None =>
           /\ records[session[s].key] # None
           /\ records[session[s].key].digest = session[s].digest
           /\ records[session[s].key].result = session[s].reply

AtCommit(s) == session[s].at \in {"committing", "orphan"} => Resolving(s) \/ Repeating(s)

SessionOK(s) == Serving(s) /\ BeforeRecord(s) /\ OldIsCurrent(s) /\ RecordOpen(s) /\ AtCommit(s)

SessionsOK == \A s \in Slots: SessionOK(s)

DurableOK ==
    \A k \in Keys:
        IF records[k] = None THEN applied[k] = 0 /\ answers[k] = {}
        ELSE /\ records[k].state = "completed"
             /\ records[k].result \in Results
             /\ applied[k] = IF records[k].result \in Successes THEN 1 ELSE 0
             /\ answers[k] \subseteq {<<records[k].digest, records[k].result>>}

(* The engine's strengthening: locks exclude, sessions know the truth, and  *)
(* the committed state is consistent (commands.ts, Commands.run).           *)
EngineInv == TypeOK /\ KeyMutex /\ SessionsOK /\ DurableOK
=============================================================================
