--------------------------- MODULE ShutdownProofs ---------------------------
(* Proofs about the stopping of a process, for any number of requests and   *)
(* jobs and any size of the pool.                                           *)
EXTENDS Shutdown, FiniteSetTheorems, TLAPS

(* A process that serves nothing yet satisfies the invariant.               *)
LEMMA StopInit == Init => StopInv
  <1> SUFFICES ASSUME Init PROVE StopInv
    OBVIOUS
  <1>1. OnClient = {} /\ Pending = {}
    BY DEF Init, OnClient, Pending
  <1>2. log \in [Requests -> Seq({"OK", "CONFLICT", "UNAVAILABLE"})]
    <2>1. <<>> \in Seq({"OK", "CONFLICT", "UNAVAILABLE"})
      OBVIOUS
    <2> QED
      BY <2>1 DEF Init
  <1>3. IsFiniteSet(OnClient) /\ Cardinality(OnClient) <= PoolSize
    BY <1>1, FS_EmptySet, PoolSizeIsPositive
  <1>4. ShutdownTypeOK
    BY <1>2, <1>3 DEF Init, ShutdownTypeOK, Phases, Handler, Codes, Work
  <1>5. CleanStop
    BY <1>1 DEF Init, CleanStop, LoggedOnce, Settled
  <1> QED
    BY <1>1, <1>4, <1>5 DEF Init, StopInv, Settled

(* The part of the invariant that is about requests and not about phases.   *)
RequestsOK ==
    /\ request \in [Requests -> Handler]
    /\ gone \in SUBSET Requests
    /\ answer \in [Requests -> Codes \cup {"none"}]
    /\ log \in [Requests -> Seq({"OK", "CONFLICT", "UNAVAILABLE"})]
    /\ IsFiniteSet(OnClient) /\ Cardinality(OnClient) <= PoolSize
    /\ LoggedOnce
    /\ \A r \in Requests:
        /\ request[r] = "done" <=> answer[r] # "none"
        /\ request[r] # "done" /\ r \notin gone => log[r] = <<>>

(* The part that is about the closing: what it waited for stays settled.    *)
ClosingOK ==
    /\ phase \in Phases
    /\ stopping \in BOOLEAN
    /\ awaited \in SUBSET Jobs
    /\ job \in [Jobs -> Work]
    /\ phase \in {"ending", "flushing"} \cup Settled => Pending = {}
    /\ phase \in {"flushing"} \cup Settled => OnClient = {}
    /\ phase \in {"refusing", "draining", "ending", "flushing"} \cup Settled => stopping
    /\ phase = "draining" => Pending \subseteq awaited
    /\ phase \in {"draining", "ending", "flushing"} \cup Settled =>
        \A r \in Requests \ gone: request[r] \in {"none", "done"}

(* The two parts are the whole.                                             *)
LEMMA StopParts == StopInv <=> RequestsOK /\ ClosingOK
  BY DEF StopInv, RequestsOK, ClosingOK, ShutdownTypeOK, CleanStop

LEMMA StopPartsNext ==
    ASSUME RequestsOK', ClosingOK'
    PROVE  StopInv'
  BY DEF StopInv, RequestsOK, ClosingOK, ShutdownTypeOK, CleanStop

(* A record that `end' writes is one record.                                *)
LEMMA RecordIsOne ==
    ASSUME RequestsOK, NEW r \in Requests, NEW status \in Nat
    PROVE  /\ Recorded(status) \in {"OK", "CONFLICT", "UNAVAILABLE"}
           /\ End(r, status) \in [Requests -> Seq({"OK", "CONFLICT", "UNAVAILABLE"})]
           /\ \A q \in Requests: q # r => End(r, status)[q] = log[q]
           /\ log[r] = <<>> => End(r, status)[r] = <<Recorded(status)>>
           /\ log[r] # <<>> => End(r, status)[r] = log[r]
  <1>1. Recorded(status) \in {"OK", "CONFLICT", "UNAVAILABLE"}
    BY DEF Recorded
  <1>2. <<Recorded(status)>> \in Seq({"OK", "CONFLICT", "UNAVAILABLE"})
    BY <1>1
  <1> QED
    BY <1>1, <1>2 DEF End, RequestsOK

(* A response settles its request, whether or not the client is there.      *)
LEMMA RespondKeeps ==
    ASSUME StopInv, NEW r \in Requests, NEW code \in Codes, request[r] # "done", Respond(r, code)
    PROVE  StopInv'
  <1>1. RequestsOK /\ ClosingOK
    BY StopParts
  <1>2. OnClient' = OnClient \ {r}
    BY <1>1 DEF Respond, OnClient, RequestsOK
  <1>3. RequestsOK'
    <2>1. IsFiniteSet(OnClient') /\ Cardinality(OnClient') <= PoolSize
      <3>1. IsFiniteSet(OnClient) /\ Cardinality(OnClient) \in Nat /\ Cardinality(OnClient) <= PoolSize
        BY <1>1, FS_CardinalityType DEF RequestsOK
      <3>2. IsFiniteSet(OnClient \ {r}) /\ Cardinality(OnClient \ {r}) <= Cardinality(OnClient)
        BY <3>1, FS_RemoveElement, SMTT(30)
      <3>3. Cardinality(OnClient \ {r}) \in Nat
        BY <3>2, FS_CardinalityType
      <3> QED
        BY <1>2, <3>1, <3>2, <3>3, PoolSizeIsPositive
    <2>2. Status(code) \in Nat /\ code # "none"
      BY DEF Status, Codes
    <2>3. CASE r \in gone
      <3>1. log' = log /\ Len(log[r]) = 1
        BY <1>1, <2>3 DEF Respond, RequestsOK, LoggedOnce
      <3> QED
        BY <1>1, <2>1, <2>2, <2>3, <3>1 DEF Respond, RequestsOK, LoggedOnce, Handler
    <2>4. CASE r \notin gone
      <3>1. log' = End(r, Status(code)) /\ log[r] = <<>>
        BY <1>1, <2>4 DEF Respond, RequestsOK
      <3>2. /\ log' \in [Requests -> Seq({"OK", "CONFLICT", "UNAVAILABLE"})]
            /\ \A q \in Requests: q # r => log'[q] = log[q]
            /\ log'[r] = <<Recorded(Status(code))>>
        BY <1>1, <2>2, <3>1, RecordIsOne
      <3>3. Len(<<Recorded(Status(code))>>) = 1
        OBVIOUS
      <3>4. /\ request' = [request EXCEPT ![r] = "done"]
            /\ answer' = [answer EXCEPT ![r] = code]
            /\ gone' = gone
        BY DEF Respond
      <3>5. LoggedOnce'
        BY <1>1, <2>2, <3>2, <3>3, <3>4 DEF RequestsOK, LoggedOnce
      <3> QED
        BY <1>1, <2>1, <2>2, <3>2, <3>4, <3>5 DEF RequestsOK, Handler
    <2> QED
      BY <2>3, <2>4
  <1>4. ClosingOK'
    BY <1>1, <1>2 DEF Respond, ClosingOK, RequestsOK, Pending
  <1> QED
    BY <1>3, <1>4, StopPartsNext

(* A handler that goes on to a client is counted by the pool.               *)
LEMMA GoOnKeeps ==
    ASSUME StopInv, NEW r \in Requests, request[r] # "done",
           NEW stage \in {"admitted", "queued", "connecting"}, GoOn(r, stage),
           stage = "connecting" => phase \notin {"flushing"} \cup Settled /\ Cardinality(OnClient) < PoolSize,
           r \in gone \/ phase \notin {"draining", "ending", "flushing"} \cup Settled,
           request[r] \notin {"connecting", "transacting"}
    PROVE  StopInv'
  <1>1. RequestsOK /\ ClosingOK
    BY StopParts
  <1>2. OnClient' = IF stage = "connecting" THEN OnClient \cup {r} ELSE OnClient
    BY <1>1 DEF GoOn, OnClient, RequestsOK
  <1>3. IsFiniteSet(OnClient') /\ Cardinality(OnClient') <= PoolSize
    <2>1. IsFiniteSet(OnClient) /\ Cardinality(OnClient) \in Nat /\ Cardinality(OnClient) <= PoolSize
      BY <1>1, FS_CardinalityType DEF RequestsOK
    <2>2. IsFiniteSet(OnClient \cup {r}) /\ Cardinality(OnClient \cup {r}) <= Cardinality(OnClient) + 1
      <3>1. /\ IsFiniteSet(OnClient \cup {r})
            /\ \/ Cardinality(OnClient \cup {r}) = Cardinality(OnClient)
               \/ Cardinality(OnClient \cup {r}) = Cardinality(OnClient) + 1
        BY ONLY <2>1, FS_AddElement
      <3> QED
        BY ONLY <2>1, <3>1
    <2>3. Cardinality(OnClient \cup {r}) \in Nat
      BY <2>2, FS_CardinalityType
    <2>4. CASE stage = "connecting"
      BY <1>2, <2>1, <2>2, <2>3, <2>4, PoolSizeIsPositive
    <2>5. CASE stage # "connecting"
      BY <1>2, <2>1, <2>5
    <2> QED
      BY <2>4, <2>5
  <1>4. RequestsOK'
    BY <1>1, <1>3 DEF GoOn, RequestsOK, LoggedOnce, Handler
  <1>5. ClosingOK'
    <2>1. phase \in {"flushing"} \cup Settled => OnClient' = OnClient
      BY <1>2
    <2>2. \A q \in Requests \ gone: phase \in {"draining", "ending", "flushing"} \cup Settled => request'[q] = request[q]
      BY <1>1 DEF GoOn, RequestsOK
    <2> QED
      BY <1>1, <2>1, <2>2 DEF GoOn, ClosingOK, Pending
  <1> QED
    BY <1>4, <1>5, StopPartsNext

(* The client that was opened stays counted.                                *)
LEMMA GetClientKeeps ==
    ASSUME StopInv, NEW r \in Requests, GetClient(r)
    PROVE  StopInv'
  <1>1. RequestsOK /\ ClosingOK
    BY StopParts
  <1>2. request[r] = "connecting" /\ r \in OnClient /\ OnClient' = OnClient
    BY <1>1 DEF GetClient, GoOn, OnClient, RequestsOK
  <1>3. RequestsOK'
    BY <1>1, <1>2 DEF GetClient, GoOn, RequestsOK, LoggedOnce, Handler
  <1>4. ClosingOK'
    BY <1>1, <1>2 DEF GetClient, GoOn, ClosingOK, RequestsOK, Pending
  <1> QED
    BY <1>3, <1>4, StopPartsNext

(* A connection that closes leaves its record, if there is none yet.        *)
LEMMA HangUpKeeps ==
    ASSUME StopInv, NEW r \in Requests, HangUp(r)
    PROVE  StopInv'
  <1>1. RequestsOK /\ ClosingOK
    BY StopParts
  <1> DEFINE status == IF request[r] = "done" THEN Status(answer[r]) ELSE 503
  <1>2. status \in Nat /\ (request[r] # "done" => Recorded(status) = "UNAVAILABLE")
    BY DEF Status, Recorded
  <1>3. log' = End(r, status) /\ gone' = gone \cup {r} /\ UNCHANGED <<phase, stopping, awaited, request, answer, job>>
    BY DEF HangUp
  <1> HIDE DEF status
  <1>4. /\ log' \in [Requests -> Seq({"OK", "CONFLICT", "UNAVAILABLE"})]
        /\ \A q \in Requests: q # r => log'[q] = log[q]
        /\ log[r] = <<>> => log'[r] = <<Recorded(status)>>
        /\ log[r] # <<>> => log'[r] = log[r]
    BY <1>1, <1>2, <1>3, RecordIsOne
  <1>5. OnClient' = OnClient /\ Pending' = Pending
    BY <1>3 DEF OnClient, Pending
  <1>6. LoggedOnce'
    <2>1. Len(<<Recorded(status)>>) = 1 /\ Len(<<>>) = 0
      OBVIOUS
    <2>2. r \notin gone
      BY DEF HangUp
    <2>3. request[r] = "done" => log[r] # <<>> /\ Len(log[r]) = 1
      <3>1. request[r] = "done" => Len(log[r]) = 1
        BY <1>1 DEF RequestsOK, LoggedOnce
      <3>2. log[r] = <<>> => Len(log[r]) = 0
        BY <2>1
      <3> QED
        BY <3>1, <3>2
    <2>4. request[r] # "done" => log[r] = <<>>
      BY <1>1, <2>2 DEF RequestsOK
    <2> QED
      BY <1>1, <1>2, <1>3, <1>4, <2>1, <2>3, <2>4 DEF RequestsOK, LoggedOnce
  <1>7. RequestsOK'
    BY <1>1, <1>3, <1>4, <1>5, <1>6 DEF RequestsOK
  <1>8. ClosingOK'
    BY <1>1, <1>3, <1>5 DEF ClosingOK
  <1> QED
    BY <1>7, <1>8, StopPartsNext

(* A step of a job, or of the closing, that leaves requests alone.          *)
LEMMA RequestsKept ==
    ASSUME RequestsOK, UNCHANGED http
    PROVE  RequestsOK'
  BY DEF RequestsOK, LoggedOnce, OnClient, http

(* Every step keeps the invariant.                                          *)
LEMMA StopStep == StopInv /\ [Next]_vars => StopInv'
  <1> SUFFICES ASSUME StopInv, [Next]_vars PROVE StopInv'
    OBVIOUS
  <1>0. RequestsOK /\ ClosingOK
    BY StopParts
  <1>1. ASSUME NEW r \in Requests,
               \/ Arrive(r) \/ HangUp(r) \/ AskForClient(r) \/ Connect(r) \/ GetClient(r)
               \/ GiveUp(r) \/ EndTransaction(r)
        PROVE  StopInv'
    <2>0. {"OK", "CONFLICT", "COMMIT_UNKNOWN", "INTERNAL_ERROR", "DRAINING"} \subseteq Codes
      BY DEF Codes
    <2>1. CASE Arrive(r)
      BY <2>0, <2>1, RespondKeeps, GoOnKeeps DEF Arrive, Settled
    <2>2. CASE HangUp(r)
      BY <2>2, HangUpKeeps
    <2>3. CASE AskForClient(r)
      BY <1>0, <2>0, <2>3, RespondKeeps, GoOnKeeps DEF AskForClient, ClosingOK
    <2>4. CASE Connect(r)
      BY <1>0, <2>4, GoOnKeeps DEF Connect, ClosingOK, Alive
    <2>7. CASE GetClient(r)
      BY <2>7, GetClientKeeps
    <2>5. CASE GiveUp(r)
      BY <2>0, <2>5, RespondKeeps DEF GiveUp, Waiting
    <2>6. CASE EndTransaction(r)
      BY <2>0, <2>6, RespondKeeps DEF EndTransaction
    <2> QED
      BY <1>1, <2>1, <2>2, <2>3, <2>4, <2>5, <2>6, <2>7
  <1>2. ASSUME UNCHANGED http, ClosingOK' PROVE StopInv'
    BY <1>0, <1>2, RequestsKept, StopPartsNext
  <1>3. ASSUME NEW j \in Jobs, Submit(j) \/ Finish(j) \/ Acknowledge(j) \/ FailJob(j)
        PROVE  StopInv'
    <2>1. UNCHANGED http /\ UNCHANGED <<phase, stopping, awaited>> /\ OnClient' = OnClient
      BY <1>3 DEF Submit, Finish, Acknowledge, FailJob, http, OnClient
    <2>2. CASE Submit(j)
      <3>1. phase \notin {"refusing", "draining", "ending", "flushing"} \cup Settled
        BY <1>0, <2>2 DEF Submit, ClosingOK
      <3>2. ClosingOK'
        BY <1>0, <2>1, <2>2, <3>1 DEF Submit, ClosingOK, Work, http
      <3> QED
        BY <1>2, <2>1, <3>2
    <2>3. CASE Finish(j) \/ Acknowledge(j) \/ FailJob(j)
      <3>1. Pending' \subseteq Pending /\ job' \in [Jobs -> Work]
        BY <1>0, <2>3 DEF Finish, Acknowledge, FailJob, ClosingOK, Pending, Work
      <3>2. ClosingOK'
        BY <1>0, <2>1, <3>1 DEF ClosingOK, http
      <3> QED
        BY <1>2, <2>1, <3>2
    <2> QED
      BY <1>3, <2>2, <2>3
  <1>4. ASSUME Signal \/ Destroy \/ CloseServer \/ EndPool \/ ClosePool \/ CloseSettles \/ Exit \/ Deadline
        PROVE  StopInv'
    <2>1. UNCHANGED http /\ UNCHANGED job /\ Pending' = Pending /\ OnClient' = OnClient
      BY <1>4 DEF Signal, Destroy, CloseServer, EndPool, ClosePool, CloseSettles, Exit, Deadline, http, Pending, OnClient
    <2>2. ClosingOK'
      <3>1. CASE Signal \/ Destroy \/ Deadline
        BY <1>0, <2>1, <3>1 DEF Signal, Destroy, Deadline, ClosingOK, Phases, Settled
      <3>2. CASE CloseServer
        BY <1>0, <2>1, <3>2 DEF CloseServer, ClosingOK, Phases, Settled, Pending, http
      <3>3. CASE EndPool
        BY <1>0, <2>1, <3>3 DEF EndPool, ClosingOK, Phases, Settled, http
      <3>4. CASE ClosePool \/ CloseSettles \/ Exit
        BY <1>0, <2>1, <3>4 DEF ClosePool, CloseSettles, Exit, ClosingOK, Phases, Settled, http
      <3> QED
        BY <1>4, <3>1, <3>2, <3>3, <3>4
    <2> QED
      BY <1>2, <2>1, <2>2
  <1>5. ASSUME UNCHANGED vars PROVE StopInv'
    <2>1. UNCHANGED http /\ UNCHANGED <<phase, stopping, awaited, job, request, gone>>
      BY <1>5 DEF vars, http
    <2>2. ClosingOK'
      BY <1>0, <2>1 DEF ClosingOK, Pending, OnClient
    <2> QED
      BY <1>2, <2>1, <2>2
  <1> QED
    BY <1>1, <1>3, <1>4, <1>5 DEF Next

(* What the closing has waited for stays settled, in every run of any       *)
(* process (foundation.ts, work.ts, http.ts).                               *)
THEOREM StopInvariant == Spec => []StopInv
  <1>1. Init => StopInv
    BY StopInit
  <1>2. StopInv /\ [Next]_vars => StopInv'
    BY StopStep
  <1> QED
    BY <1>1, <1>2, PTL DEF Spec

(* A process that ends before its deadline has cut nothing off: no answer,  *)
(* no transaction, no acknowledgement, no log record (lifecycle.ts:18-30).  *)
THEOREM ExitsClean == Spec => []CleanStop
  <1>1. StopInv => CleanStop
    BY DEF StopInv
  <1> QED
    BY <1>1, StopInvariant, PTL
=============================================================================
