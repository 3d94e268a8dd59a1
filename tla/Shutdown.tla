------------------------------- MODULE Shutdown -------------------------------
(***************************************************************************)
(* How an API or worker process stops: runLifecycle (lifecycle.ts) starts  *)
(* a deadline and closes the Nest application, which calls the hooks of    *)
(* Foundation (foundation.ts) around the closing of the HTTP server; the   *)
(* hooks stop and drain WorkTracker (work.ts) and the pool of Database     *)
(* (database.ts) and close Telemetry (telemetry.ts); and how the           *)
(* middleware of configureHttp (http.ts, all under packages/platform/src)  *)
(* answers and logs the requests that come in meanwhile.                   *)
(*                                                                         *)
(* Nest and the pg pool are external and modelled from how they are used:  *)
(* app.close() calls onModuleDestroy, closes the server, then calls        *)
(* onApplicationShutdown; pool.end() waits for the clients checked out.    *)
(***************************************************************************)
EXTENDS Naturals, FiniteSets, Sequences

CONSTANTS
    Requests,   \* HTTP requests
    Jobs,       \* calls of WorkTracker.run
    PoolSize    \* config.database.max

ASSUME PoolSizeIsPositive == PoolSize \in Nat \ {0}

VARIABLES
    phase,      \* how far the closing of the application has come
    stopping,   \* the flags of Foundation, WorkTracker and Database, set together
    awaited,    \* the jobs drain() found pending
    request,    \* per request: where its handler is
    gone,       \* requests whose connection is closed
    answer,     \* per request: the code of its response, delivered or not
    log,        \* per request: the codes of its http_completed records
    job         \* per job: where WorkTracker.run is

http == <<request, gone, answer, log>>
vars == <<phase, stopping, awaited, http, job>>

(* "refusing": the destroy hooks have run and the server is closing.        *)
(* "ending": pool.end() waits.  "flushing": telemetry.close().  "closed",   *)
(* "failed": app.close() was resolved or rejected, the deadline is off and  *)
(* the event loop runs empty.  "stopped", "exited": the process has ended,  *)
(* with code 0 or 1.  "killed": process.exit(1) at the deadline.            *)
Phases == {"serving", "signalled", "refusing", "draining", "ending", "flushing",
           "closed", "failed", "stopped", "exited", "killed"}

Settled == {"closed", "failed", "stopped", "exited"}

(* "admitted": past the draining check, with no transaction asked for yet.  *)
(* "queued": the pool has no client to spare.  "connecting": one is opened. *)
Handler == {"none", "admitted", "queued", "connecting", "transacting", "done"}

Codes == {"OK", "CONFLICT", "COMMIT_UNKNOWN", "INTERNAL_ERROR", "DRAINING"}

Work == {"none", "running", "acknowledging", "acknowledged", "abandoned", "failed"}

Init ==
    /\ phase = "serving"
    /\ stopping = FALSE
    /\ awaited = {}
    /\ request = [r \in Requests |-> "none"]
    /\ gone = {}
    /\ answer = [r \in Requests |-> "none"]
    /\ log = [r \in Requests |-> <<>>]
    /\ job = [j \in Jobs |-> "none"]

Alive == phase \notin {"stopped", "exited", "killed"}
Pending == {j \in Jobs: job[j] \in {"running", "acknowledging"}}
OnClient == {r \in Requests: request[r] \in {"connecting", "transacting"}}

ShutdownTypeOK ==
    /\ phase \in Phases
    /\ stopping \in BOOLEAN
    /\ awaited \in SUBSET Jobs
    /\ request \in [Requests -> Handler]
    /\ gone \in SUBSET Requests
    /\ answer \in [Requests -> Codes \cup {"none"}]
    /\ log \in [Requests -> Seq({"OK", "CONFLICT", "UNAVAILABLE"})]
    /\ job \in [Jobs -> Work]
    /\ IsFiniteSet(OnClient) /\ Cardinality(OnClient) <= PoolSize
-----------------------------------------------------------------------------
(* Requests.                                                                *)

(* A failure of the database that has no status of its own is a 503.        *)
Status(code) == CASE code = "OK" -> 200 [] code = "CONFLICT" -> 409 [] OTHER -> 503

(* The record has the code of the status, not that of the response.         *)
Recorded(status) == CASE status < 400 -> "OK" [] status = 409 -> "CONFLICT" [] OTHER -> "UNAVAILABLE"

(* Mutant of End: 'finish' and 'close' each write a record.                 *)
EndTwice(r, status) == [log EXCEPT ![r] = Append(@, Recorded(status))]

(* `end', of the first of the two events.                                   *)
End(r, status) == IF log[r] = <<>> THEN [log EXCEPT ![r] = <<Recorded(status)>>] ELSE log

(* The response is written; it finishes unless the connection is closed.    *)
Respond(r, code) ==
    /\ request' = [request EXCEPT ![r] = "done"]
    /\ answer' = [answer EXCEPT ![r] = code]
    /\ log' = IF r \in gone THEN log ELSE End(r, Status(code))
    /\ UNCHANGED <<phase, stopping, awaited, gone, job>>

GoOn(r, stage) ==
    /\ request' = [request EXCEPT ![r] = stage]
    /\ UNCHANGED <<phase, stopping, awaited, gone, answer, log, job>>

(* The middleware answers 503 DRAINING once the destroy hook has run.       *)
Arrive(r) ==
    /\ phase \in {"serving", "signalled", "refusing"}
    /\ request[r] = "none"
    /\ IF stopping THEN Respond(r, "DRAINING") ELSE GoOn(r, "admitted")

(* The connection closes, after the response or before it.                  *)
HangUp(r) ==
    /\ Alive
    /\ request[r] # "none"
    /\ r \notin gone
    /\ gone' = gone \cup {r}
    /\ log' = End(r, IF request[r] = "done" THEN Status(answer[r]) ELSE 503)
    /\ UNCHANGED <<phase, stopping, awaited, request, answer, job>>

(* transaction() throws DRAINING, or asks the pool for a client.            *)
AskForClient(r) ==
    /\ Alive
    /\ request[r] = "admitted"
    /\ IF stopping THEN Respond(r, "DRAINING") ELSE GoOn(r, "queued")

(* Mutant of Connect: the pool opens a client whenever it is asked to.      *)
ConnectBeyondPool(r) ==
    /\ Alive
    /\ phase \notin {"ending", "flushing"} \cup Settled
    /\ request[r] = "queued"
    /\ GoOn(r, "connecting")

(* The pool opens at most PoolSize clients, and none once it is ending.     *)
Connect(r) ==
    /\ Alive
    /\ phase \notin {"ending", "flushing"} \cup Settled
    /\ request[r] = "queued"
    /\ Cardinality(OnClient) < PoolSize
    /\ GoOn(r, "connecting")

(* The client that was being opened goes to its waiter, ending or not.      *)
GetClient(r) ==
    /\ Alive
    /\ request[r] = "connecting"
    /\ GoOn(r, "transacting")

Waiting(r) == request[r] \in {"queued", "connecting"}

(* Mutant of GiveUp: the wait for a client has no timeout of its own and is  *)
(* only broken off when the pool is closed.                                 *)
GiveUpAtTheEnd(r) ==
    /\ phase = "ending"
    /\ Waiting(r)
    /\ Respond(r, "INTERNAL_ERROR")

(* connectionTimeoutMillis: nobody waits for a client for ever.  The error  *)
(* has no code of PostgreSQL.                                               *)
GiveUp(r) ==
    /\ Alive
    /\ Waiting(r)
    /\ Respond(r, "INTERNAL_ERROR")

(* Commit, rollback or failure, each bounded by a timeout; the client goes  *)
(* back to the pool and the response is written.                            *)
EndTransaction(r) ==
    /\ Alive
    /\ request[r] = "transacting"
    /\ \E code \in {"OK", "CONFLICT", "COMMIT_UNKNOWN"}: Respond(r, code)
-----------------------------------------------------------------------------
(* Jobs.                                                                    *)

(* run() throws 'Worker draining' when stopping, and the job stays outside. *)
Submit(j) ==
    /\ Alive
    /\ ~stopping
    /\ job[j] = "none"
    /\ job' = [job EXCEPT ![j] = "running"]
    /\ UNCHANGED <<phase, stopping, awaited, http>>

(* The operation resolves; it may have heard the abort signal or not.       *)
Finish(j) ==
    /\ Alive
    /\ job[j] = "running"
    /\ job' = [job EXCEPT ![j] = IF stopping THEN "abandoned" ELSE "acknowledging"]
    /\ UNCHANGED <<phase, stopping, awaited, http>>

Acknowledge(j) ==
    /\ Alive
    /\ job[j] = "acknowledging"
    /\ job' = [job EXCEPT ![j] = "acknowledged"]
    /\ UNCHANGED <<phase, stopping, awaited, http>>

(* The operation or its acknowledgement rejects.                            *)
FailJob(j) ==
    /\ Alive
    /\ job[j] \in {"running", "acknowledging"}
    /\ job' = [job EXCEPT ![j] = "failed"]
    /\ UNCHANGED <<phase, stopping, awaited, http>>
-----------------------------------------------------------------------------
(* Closing.                                                                 *)

(* SIGINT or SIGTERM: the deadline is armed and app.close() is called.      *)
Signal ==
    /\ phase = "serving"
    /\ phase' = "signalled"
    /\ UNCHANGED <<stopping, awaited, http, job>>

(* onModuleDestroy: all three flags are set and the jobs are aborted.       *)
Destroy ==
    /\ phase = "signalled"
    /\ phase' = "refusing"
    /\ stopping' = TRUE
    /\ UNCHANGED <<awaited, http, job>>

(* The server is closed when every connected request has its response; then *)
(* onApplicationShutdown calls drain(), which waits for the pending jobs.   *)
CloseServer ==
    /\ phase = "refusing"
    /\ \A r \in Requests: request[r] \in {"none", "done"} \/ r \in gone
    /\ phase' = "draining"
    /\ awaited' = Pending
    /\ UNCHANGED <<stopping, http, job>>

(* Mutant of EndPool: the pool is closed without waiting for drain().       *)
EndPoolFirst ==
    /\ phase = "draining"
    /\ phase' = "ending"
    /\ UNCHANGED <<stopping, awaited, http, job>>

(* drain() has settled; database.close() ends the pool.                     *)
EndPool ==
    /\ phase = "draining"
    /\ awaited \cap Pending = {}
    /\ phase' = "ending"
    /\ UNCHANGED <<stopping, awaited, http, job>>

(* pool.end() resolves when the last client, in use or being opened, is     *)
(* gone; then the error reports and the spans are flushed.                  *)
ClosePool ==
    /\ phase = "ending"
    /\ OnClient = {}
    /\ phase' = "flushing"
    /\ UNCHANGED <<stopping, awaited, http, job>>

(* app.close() is resolved, or rejected by what closes telemetry; either    *)
(* way the deadline is cleared.                                             *)
CloseSettles ==
    /\ phase = "flushing"
    /\ phase' \in {"closed", "failed"}
    /\ UNCHANGED <<stopping, awaited, http, job>>

(* Mutant of Exit: the interval of a worker is cleared after success only.  *)
ExitAfterSuccess ==
    /\ phase = "closed"
    /\ \A r \in Requests: request[r] \in {"none", "done"}
    /\ phase' = "stopped"
    /\ UNCHANGED <<stopping, awaited, http, job>>

(* Nobody calls process.exit: the process ends when its event loop is       *)
(* empty, that is after the last handler, with the code that was set.       *)
Exit ==
    /\ phase \in {"closed", "failed"}
    /\ \A r \in Requests: request[r] \in {"none", "done"}
    /\ phase' = IF phase = "closed" THEN "stopped" ELSE "exited"
    /\ UNCHANGED <<stopping, awaited, http, job>>

(* Mutant of Deadline: the timer only covers the closing of the server.     *)
DeadlineWhileServing ==
    /\ phase \in {"signalled", "refusing"}
    /\ phase' = "killed"
    /\ UNCHANGED <<stopping, awaited, http, job>>

(* Five seconds after the signal the process exits with 1, unless           *)
(* app.close() has settled.                                                 *)
Deadline ==
    /\ phase \in {"signalled", "refusing", "draining", "ending", "flushing"}
    /\ phase' = "killed"
    /\ UNCHANGED <<stopping, awaited, http, job>>

Next ==
    \/ \E r \in Requests:
        \/ Arrive(r) \/ HangUp(r) \/ AskForClient(r) \/ Connect(r) \/ GetClient(r)
        \/ GiveUp(r) \/ EndTransaction(r)
    \/ \E j \in Jobs: Submit(j) \/ Finish(j) \/ Acknowledge(j) \/ FailJob(j)
    \/ Signal
    \/ Destroy
    \/ CloseServer
    \/ EndPool
    \/ ClosePool
    \/ CloseSettles
    \/ Exit
    \/ Deadline

(* Handlers go on, transactions and waits for a client are bounded by their *)
(* timeouts, the deadline is a timer, and a process with an empty event     *)
(* loop ends.  Nothing says that a job ends, or that app.close() is fast.   *)
Spec ==
    /\ Init /\ [][Next]_vars
    /\ \A r \in Requests: WF_vars(AskForClient(r)) /\ WF_vars(GiveUp(r)) /\ WF_vars(EndTransaction(r))
    /\ WF_vars(Deadline) /\ WF_vars(Exit)
-----------------------------------------------------------------------------
(* Each request is logged once, by what became of it: with its response, or *)
(* with 503 when the connection closed before that.                         *)
LoggedOnce ==
    \A r \in Requests:
        /\ request[r] = "done" \/ r \in gone => Len(log[r]) = 1
        /\ answer[r] = "none" /\ log[r] # <<>> => log[r] = <<"UNAVAILABLE">>
        /\ request[r] = "done" /\ r \notin gone => log[r] = <<Recorded(Status(answer[r]))>>

(* A process that ends before its deadline has cut nothing off: every       *)
(* client still connected has its answer, no transaction was open, no job   *)
(* was left between its effect and its acknowledgement, and each request is *)
(* in the log once; the pool was not even closed under a job that might     *)
(* need it, although drain() looks at the pending jobs only once, and no    *)
(* client of it was in use or still being opened when telemetry, which      *)
(* transactions report to, was closed.  A close that is rejected cuts       *)
(* nothing off either: its exit code 1 warns of records not flushed.        *)
CleanStop ==
    /\ LoggedOnce
    /\ phase \in {"ending", "flushing"} \cup Settled => Pending = {}
    /\ phase \in {"flushing"} \cup Settled =>
        /\ \A r \in Requests \ gone: request[r] \in {"none", "done"}
        /\ OnClient = {}

(* Why that is so.  A refused request is never admitted again and a job      *)
(* never starts once the flags are set, so what the closing has waited for  *)
(* stays settled; and a response is what ends a handler (foundation.ts:64,  *)
(* work.ts:10-21, http.ts:62-75).                                           *)
StopInv ==
    /\ ShutdownTypeOK
    /\ CleanStop
    /\ phase \in {"refusing", "draining", "ending", "flushing"} \cup Settled => stopping
    /\ phase = "draining" => Pending \subseteq awaited
    /\ phase \in {"draining", "ending"} =>
        \A r \in Requests \ gone: request[r] \in {"none", "done"}
    /\ \A r \in Requests:
        /\ request[r] = "done" <=> answer[r] # "none"
        /\ request[r] # "done" /\ r \notin gone => log[r] = <<>>

(* A signal is always followed by the end of the process, even when a job   *)
(* ignores its abort signal for ever, or when app.close() is rejected and   *)
(* its deadline cleared; and until then no admitted request is left hanging.*)
StopsInTheEnd ==
    /\ phase = "signalled" ~> ~Alive
    /\ \A r \in Requests: request[r] = "admitted" ~> (request[r] = "done" \/ ~Alive)
=============================================================================
