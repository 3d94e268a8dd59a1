--------------------------- MODULE CommandsRetry ---------------------------
(***************************************************************************)
(* The command engine with clients that follow the documented recovery: an *)
(* attempt that ended without a result (DB_BUSY, COMMIT_UNKNOWN, a lost    *)
(* connection) is repeated with the same key and the same input until a    *)
(* result arrives.  Failures of the environment are finite here: the       *)
(* budget MaxFaults is a bound of the model, not of the code.              *)
(***************************************************************************)
EXTENDS Commands

CONSTANT MaxFaults
ASSUME MaxFaultsIsNat == MaxFaults \in Nat

VARIABLE faults     \* environment failures so far

retryVars == <<vars, faults>>

RetryInit == Init /\ faults = 0

(* A client keeps asking for its key only while it has no result for it.    *)
Ask(k) ==
    /\ answers[k] = {}
    /\ \E s \in Slots, d \in Digests: Receive(s, k, d)
    /\ UNCHANGED faults

(* The statements of a session, when nothing in its environment fails.      *)
Advance(s) ==
    /\ \/ TakeCommandLock(s)
       \/ Authorize(s)
       \/ ReadRecord(s)
       \/ AnswerFromRecord(s)
       \/ Start(s)
       \/ Write(s)
       \/ \E r \in Successes: Succeed(s, r)
       \/ \E r \in Refusals: Refuse(s, r)
       \/ Commit(s)
    /\ UNCHANGED faults

(* The server notices the closed connection, having committed or not.       *)
EndOrphan(s) ==
    /\ OrphanCommits(s) \/ OrphanAborts(s)
    /\ UNCHANGED faults

Fault(s) ==
    /\ faults < MaxFaults
    /\ faults' = faults + 1
    /\ Fail(s) \/ Deny(s) \/ CommitRefused(s) \/ CommitLost(s)

RetryNext ==
    \/ \E k \in Keys: Ask(k)
    \/ \E s \in Slots: Advance(s) \/ EndOrphan(s) \/ Fault(s)

(* The pool serves waiting requests in turn, so a client that keeps asking  *)
(* is admitted; PostgreSQL runs each admitted session and ends the orphans. *)
RetrySpec ==
    /\ RetryInit /\ [][RetryNext]_retryVars
    /\ \A k \in Keys: SF_retryVars(Ask(k))
    /\ \A s \in Slots: WF_retryVars(Advance(s)) /\ WF_retryVars(EndOrphan(s))

(* A client that repeats its command after failures, lost commits included, *)
(* is eventually shown a result: the orphan of a lost COMMIT cannot hold    *)
(* the command lock for ever, and a commit that did happen is replayed.     *)
EveryClientLearns == \A k \in Keys: <>(answers[k] # {})
=============================================================================
