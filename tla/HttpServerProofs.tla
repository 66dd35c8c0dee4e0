-------------------------- MODULE HttpServerProofs --------------------------
(***************************************************************************)
(* Proofs about HttpServer, for every pool, every set of requests, every   *)
(* retention and size: under all its writers access.log is one LogRotation,*)
(* with its invariant and as an AppendLog; both logs have the requests in  *)
(* the order in which the clients made them; one writer at a time is       *)
(* inside Logger::write; and whoever has an answer is in both logs.        *)
(***************************************************************************)
EXTENDS HttpServer, LogRotationProofs

(* Every step is one of the access log, or leaves it alone. *)
LEMMA AccessStep ==
  ASSUME [Next]_vars
  PROVE  [LogNext]_logVars
PROOF
  <1> USE DEF LogNext, WriteStep, access
  <1>1. CASE Start \/ Stop
    BY <1>1, Zenon DEF Start, Stop
  <1>2. CASE RunServer
    BY <1>2, Zenon DEF RunServer, BeginHeader, EndHeader, Stopped, Lock, Unlock
  <1>3. CASE Rotate
    BY <1>3, Zenon DEF Rotate
  <1>4. CASE ReopenStreams
    BY <1>4, Zenon DEF ReopenStreams
  <1>5. CASE Kill
    BY <1>5, Zenon DEF Kill
  <1>6. CASE Restart
    BY <1>6, Zenon DEF Restart
  <1>7. ASSUME NEW t \in Threads, Serve(t) \/ RotateStatus(t)
        PROVE  [LogNext]_logVars
    BY <1>7, Zenon DEF Serve, LogAccess, EndAccess, LogStatus, EndStatus, Reply, Leave,
       RotateStatus, Lock, Unlock
  <1>8. ASSUME NEW t \in Threads, NEW q \in Inputs, Arrive(t, q)
        PROVE  [LogNext]_logVars
    BY <1>8, Zenon DEF Arrive, Receive
  <1>9. CASE UNCHANGED vars
    BY <1>9, Zenon DEF vars
  <1> QED
    BY <1>1, <1>2, <1>3, <1>4, <1>5, <1>6, <1>7, <1>8, <1>9, Zenon DEF Next

(* The threads, the main thread and the ends of the process only do to     *)
(* access.log what LogRotation has actions for.                            *)
LEMMA AccessFollowsRotation ==
  Spec => LogSpec
PROOF
  <1>1. Init => LogInit
    BY DEF Init
  <1>2. [Next]_vars => [LogNext]_logVars
    BY AccessStep
  <1> QED
    BY <1>1, <1>2, PTL DEF Spec, LogSpec

(* So its files are in order and none is too large, however the requests   *)
(* are interleaved.                                                        *)
THEOREM AccessInvariance ==
  Spec => []LogInv
PROOF
  <1> QED
    BY AccessFollowsRotation, LogInvariance, PTL

(* And they are an append-only log. *)
THEOREM AccessIsALog ==
  Spec => ImplementsAppendLog
PROOF
  <1> QED
    BY AccessFollowsRotation, FilesAreALog, PTL

----------------------------------------------------------------------------
(* The order of the requests in the logs.                                  *)

Busy == {"access", "write", "status", "entry", "reply", "uptime"}

Statements == Busy \cup {"none", "idle"}

Outcomes == {"none", "answered", "closed", "uptime", "cut"}

ClientTypes ==
  /\ written \in Nat /\ statusGiven \in Nat
  /\ requests \in Nat /\ requests <= MaxRequests
  /\ thread \in [Threads -> Statements] /\ request \in [Threads -> Nat]
  /\ outcome \in [Requests -> Outcomes] /\ earlier \in [Requests -> SUBSET Requests]
  /\ entry \in [Requests -> Nat] /\ statusEntry \in [Requests -> Nat]

(* A request that a thread has has not ended, and no other thread has it. *)
PoolInv ==
  /\ \A t \in Threads : request[t] <= requests
  /\ \A t \in Threads : thread[t] \in Busy => request[t] # 0
  /\ \A t \in Threads : request[t] # 0 => outcome[request[t]] = "none"
  /\ \A s, t \in Threads : request[s] # 0 /\ request[s] = request[t] => s = t

(* What has not come has left nothing, what came before has ended. *)
HistoryInv ==
  /\ \A r \in Requests : r > requests =>
       outcome[r] = "none" /\ entry[r] = 0 /\ statusEntry[r] = 0
  /\ \A q \in Requests : \A r \in earlier[q] : outcome[r] # "none"

EntryInv == \A r \in Requests : entry[r] <= written /\ statusEntry[r] <= statusGiven

ClientInv == ClientTypes /\ PoolInv /\ HistoryInv /\ EntryInv /\ LogsFollowClients

(* Steps that are no step of a request leave the invariant as it is. *)
LEMMA ClientFrame ==
  ASSUME ClientInv,
         UNCHANGED <<request, clients, entry, statusEntry, statusGiven>>,
         written' = written \/ written' = written + 1,
         thread' \in [Threads -> Statements],
         \A t \in Threads : thread'[t] \in Busy => thread[t] \in Busy
  PROVE  ClientInv'
PROOF
  <1> USE DEF ClientInv, clients
  <1>1. ClientTypes'
    BY DEF ClientTypes
  <1>2. PoolInv'
    BY DEF PoolInv
  <1>3. HistoryInv'
    BY DEF HistoryInv
  <1>4. EntryInv'
    BY DEF EntryInv, ClientTypes
  <1>5. LogsFollowClients'
    BY DEF LogsFollowClients
  <1> QED
    BY <1>1, <1>2, <1>3, <1>4, <1>5

(* A request arrives. *)
LEMMA ClientArrive ==
  ASSUME ClientInv, NEW t \in Threads, NEW q \in Inputs, Arrive(t, q)
  PROVE  ClientInv'
PROOF
  <1> USE DEF ClientInv, Arrive, Receive, access, logVars, statusJson
  <1>1. /\ requests' = requests + 1 /\ requests + 1 \in Requests
        /\ request' = [request EXCEPT ![t] = requests + 1]
        /\ thread' \in [Threads -> Statements]
        /\ outcome' = outcome /\ entry' = entry /\ statusEntry' = statusEntry
        /\ written' = written /\ statusGiven' = statusGiven
        /\ earlier' = [earlier EXCEPT ![requests + 1] = {r \in Requests : outcome[r] # "none"}]
    <2>1. requests + 1 \in Requests
      BY HttpAssumption DEF ClientTypes, Requests
    <2>2. PICK next \in {"access", "uptime"} : thread' = [thread EXCEPT ![t] = next]
      BY Zenon
    <2>3. thread' \in [Threads -> Statements]
      BY <2>2 DEF ClientTypes, Statements, Busy
    <2> QED
      BY <2>1, <2>3, Zenon
  <1>2. ClientTypes'
    BY <1>1 DEF ClientTypes, Requests
  <1>3. PoolInv'
    <2>1. \A s \in Threads : request'[s] = IF s = t THEN requests + 1 ELSE request[s]
      BY <1>1 DEF ClientTypes
    <2>2. \A s \in Threads : s # t => thread'[s] = thread[s]
      BY DEF ClientTypes
    <2>3. outcome[requests + 1] = "none"
      BY <1>1 DEF HistoryInv, ClientTypes
    <2>4. \A s \in Threads : request[s] # requests + 1
      BY DEF PoolInv, ClientTypes
    <2> QED
      BY <1>1, <2>1, <2>2, <2>3, <2>4 DEF PoolInv, ClientTypes
  <1>4. HistoryInv'
    <2>1. \A p \in Requests : \A r \in earlier'[p] : outcome[r] # "none"
      BY <1>1 DEF HistoryInv, ClientTypes
    <2> QED
      BY <1>1, <2>1 DEF HistoryInv, ClientTypes, Requests
  <1>5. EntryInv'
    BY <1>1 DEF EntryInv
  <1>6. LogsFollowClients'
    <2>1. entry[requests + 1] = 0 /\ statusEntry[requests + 1] = 0
      BY <1>1 DEF HistoryInv, ClientTypes
    <2>2. \A p \in Requests : p # requests + 1 => earlier'[p] = earlier[p]
      BY <1>1 DEF ClientTypes
    <2> QED
      BY <1>1, <2>1, <2>2 DEF LogsFollowClients
  <1> QED
    BY <1>2, <1>3, <1>4, <1>5, <1>6

(* Its line in access.log comes after all that are there. *)
LEMMA ClientLogAccess ==
  ASSUME ClientInv, NEW t \in Threads, LogAccess(t)
  PROVE  ClientInv'
PROOF
  <1> USE DEF ClientInv, LogAccess, Lock, CallWrite, statusJson, clients
  <1>1. /\ request[t] \in Requests /\ outcome[request[t]] = "none"
        /\ request[t] <= requests
    BY HttpAssumption DEF PoolInv, ClientTypes, Busy, Requests
  <1>2. /\ entry' = [entry EXCEPT ![request[t]] = written + 1] /\ written' = written + 1
        /\ statusEntry' = statusEntry /\ statusGiven' = statusGiven
        /\ request' = request /\ requests' = requests /\ outcome' = outcome
        /\ earlier' = earlier
        /\ thread' = [thread EXCEPT ![t] = "write"]
    BY Zenon
  <1>3. \A r \in Requests : entry'[r] = IF r = request[t] THEN written + 1 ELSE entry[r]
    BY <1>1, <1>2 DEF ClientTypes
  <1>4. ClientTypes'
    BY <1>1, <1>2 DEF ClientTypes, Statements, Busy
  <1>5. PoolInv'
    BY <1>1, <1>2 DEF PoolInv, ClientTypes, Busy
  <1>6. HistoryInv'
    BY <1>1, <1>2, <1>3 DEF HistoryInv, ClientTypes
  <1>7. EntryInv'
    BY <1>2, <1>3 DEF EntryInv, ClientTypes
  <1>8. LogsFollowClients'
    <2> SUFFICES ASSUME NEW p \in Requests, NEW r \in earlier[p], entry'[p] # 0
                 PROVE  entry'[r] < entry'[p]
      BY <1>2 DEF LogsFollowClients
    <2>1. r \in Requests /\ r # request[t]
      BY <1>1 DEF HistoryInv, ClientTypes
    <2> QED
      BY <1>3, <2>1 DEF LogsFollowClients, EntryInv, ClientTypes
  <1> QED
    BY <1>4, <1>5, <1>6, <1>7, <1>8

(* And so does its entry in status.json. *)
LEMMA ClientLogStatus ==
  ASSUME ClientInv, NEW t \in Threads, LogStatus(t)
  PROVE  ClientInv'
PROOF
  <1> USE DEF ClientInv, LogStatus, Status!Give, access, logVars, clients
  <1>1. /\ request[t] \in Requests /\ outcome[request[t]] = "none"
        /\ request[t] <= requests
    BY HttpAssumption DEF PoolInv, ClientTypes, Busy, Requests
  <1>2. /\ statusEntry' = [statusEntry EXCEPT ![request[t]] = statusGiven + 1]
        /\ statusGiven' = statusGiven + 1
        /\ entry' = entry /\ written' = written
        /\ request' = request /\ requests' = requests /\ outcome' = outcome
        /\ earlier' = earlier
        /\ thread' = [thread EXCEPT ![t] = "entry"]
    BY Zenon
  <1>3. \A r \in Requests :
          statusEntry'[r] = IF r = request[t] THEN statusGiven + 1 ELSE statusEntry[r]
    BY <1>1, <1>2 DEF ClientTypes
  <1>4. ClientTypes'
    BY <1>1, <1>2 DEF ClientTypes, Statements, Busy
  <1>5. PoolInv'
    BY <1>1, <1>2 DEF PoolInv, ClientTypes, Busy
  <1>6. HistoryInv'
    BY <1>1, <1>2, <1>3 DEF HistoryInv, ClientTypes
  <1>7. EntryInv'
    BY <1>2, <1>3 DEF EntryInv, ClientTypes
  <1>8. LogsFollowClients'
    <2> SUFFICES ASSUME NEW p \in Requests, NEW r \in earlier[p], statusEntry'[p] # 0
                 PROVE  statusEntry'[r] < statusEntry'[p]
      BY <1>2 DEF LogsFollowClients
    <2>1. r \in Requests /\ r # request[t]
      BY <1>1 DEF HistoryInv, ClientTypes
    <2> QED
      BY <1>3, <2>1 DEF LogsFollowClients, EntryInv, ClientTypes
  <1> QED
    BY <1>4, <1>5, <1>6, <1>7, <1>8

(* The request ends, and is free of its thread. *)
LEMMA ClientReply ==
  ASSUME ClientInv, NEW t \in Threads, Reply(t)
  PROVE  ClientInv'
PROOF
  <1> USE DEF ClientInv, Reply, access, logVars, statusJson
  <1>1. /\ request[t] \in Requests /\ request[t] # 0
        /\ request[t] <= requests
    BY HttpAssumption DEF PoolInv, ClientTypes, Busy, Requests
  <1>2. /\ UNCHANGED <<entry, statusEntry, written, statusGiven, requests, earlier>>
        /\ \A r \in Requests : r # request[t] => outcome'[r] = outcome[r]
        /\ outcome'[request[t]] \in Outcomes \ {"none"}
        /\ \A s \in Threads : request'[s] = IF s = t THEN 0 ELSE request[s]
        /\ \A s \in Threads : thread'[s] = IF s = t THEN "idle" ELSE thread[s]
    <2>1. PICK o \in {"closed", "uptime", "answered"} : outcome' = [outcome EXCEPT ![request[t]] = o]
      BY Zenon
    <2>2. /\ \A r \in Requests : r # request[t] => outcome'[r] = outcome[r]
          /\ outcome'[request[t]] \in Outcomes \ {"none"}
      BY <1>1, <2>1 DEF ClientTypes, Outcomes
    <2>3. /\ \A s \in Threads : request'[s] = IF s = t THEN 0 ELSE request[s]
          /\ \A s \in Threads : thread'[s] = IF s = t THEN "idle" ELSE thread[s]
      BY DEF ClientTypes
    <2> QED
      BY <2>2, <2>3, Zenon
  <1>3. ClientTypes'
    <2>1. outcome' \in [Requests -> Outcomes]
      <3>1. PICK o \in {"closed", "uptime", "answered"} : outcome' = [outcome EXCEPT ![request[t]] = o]
        BY Zenon
      <3>2. o \in Outcomes /\ outcome \in [Requests -> Outcomes]
        BY DEF ClientTypes, Outcomes
      <3> QED
        BY ONLY <3>1, <3>2
    <2>2. thread' \in [Threads -> Statements] /\ request' \in [Threads -> Nat]
      BY DEF ClientTypes, Statements
    <2> QED
      BY <1>2, <2>1, <2>2 DEF ClientTypes
  <1>4. PoolInv'
    BY <1>1, <1>2, HttpAssumption DEF PoolInv, ClientTypes, Busy, Requests
  <1>5. HistoryInv'
    BY <1>1, <1>2 DEF HistoryInv, ClientTypes
  <1>6. EntryInv' /\ LogsFollowClients'
    BY <1>2 DEF EntryInv, LogsFollowClients
  <1> QED
    BY <1>3, <1>4, <1>5, <1>6

(* The process ends with the requests its threads had. *)
LEMMA ClientKill ==
  ASSUME ClientInv, Kill
  PROVE  ClientInv'
PROOF
  <1> USE DEF ClientInv, Kill, EndLog, Status!Lose
  <1>1. /\ UNCHANGED <<entry, statusEntry, written, statusGiven, requests, earlier>>
        /\ outcome' \in [Requests -> Outcomes]
        /\ \A r \in Requests : outcome'[r] \in {outcome[r], "cut"}
        /\ \A r \in Requests : r > requests => outcome'[r] = outcome[r]
        /\ thread' \in [Threads -> Statements] /\ request' \in [Threads -> Nat]
        /\ \A s \in Threads : request'[s] = 0 /\ thread'[s] = "none"
    <2>1. UNCHANGED <<entry, statusEntry, written, statusGiven, requests, earlier>>
      BY Zenon
    <2>2. /\ outcome' \in [Requests -> Outcomes]
          /\ \A r \in Requests : outcome'[r] \in {outcome[r], "cut"}
      <3>1. outcome' = [r \in Requests |->
               IF \E s \in Threads : request[s] = r THEN "cut" ELSE outcome[r]]
        BY Zenon
      <3>2. \A r \in Requests : outcome'[r] \in {outcome[r], "cut"}
        BY <3>1, Zenon
      <3>3. \A r \in Requests : outcome[r] \in Outcomes /\ "cut" \in Outcomes
        BY DEF ClientTypes, Outcomes
      <3>4. outcome' = [r \in Requests |-> outcome'[r]]
        BY <3>1
      <3> QED
        BY <3>2, <3>3, <3>4
    <2>3. \A r \in Requests : r > requests => outcome'[r] = outcome[r]
      <3>1. \A r \in Requests : r > requests => ~\E s \in Threads : request[s] = r
        BY HttpAssumption DEF PoolInv, ClientTypes, Requests
      <3> QED
        BY <3>1, Zenon
    <2>4. /\ thread' \in [Threads -> Statements] /\ request' \in [Threads -> Nat]
          /\ \A s \in Threads : request'[s] = 0 /\ thread'[s] = "none"
      BY DEF Statements
    <2> QED
      BY <2>1, <2>2, <2>3, <2>4
  <1>2. ClientTypes'
    BY <1>1 DEF ClientTypes
  <1>3. PoolInv'
    BY <1>1 DEF PoolInv, ClientTypes, Busy
  <1>4. HistoryInv'
    BY <1>1 DEF HistoryInv, ClientTypes
  <1>5. EntryInv' /\ LogsFollowClients'
    BY <1>1 DEF EntryInv, LogsFollowClients
  <1> QED
    BY <1>2, <1>3, <1>4, <1>5

(* The clients see an empty log at first. *)
LEMMA ClientInit ==
  ASSUME Init
  PROVE  ClientInv
PROOF
  <1> USE DEF Init, LogInit, Status!Init
  <1>1. ClientTypes
    BY HttpAssumption DEF ClientTypes, Statements, Outcomes
  <1>2. PoolInv /\ HistoryInv
    BY DEF PoolInv, HistoryInv, Busy
  <1>3. EntryInv /\ LogsFollowClients
    BY DEF EntryInv, LogsFollowClients
  <1> QED
    BY <1>1, <1>2, <1>3 DEF ClientInv

(* Every step preserves the order. *)
LEMMA ClientNext ==
  ASSUME ClientInv, [Next]_vars
  PROVE  ClientInv'
PROOF
  <1> USE DEF access, statusJson, pool, clients, logVars
  <1>0. thread \in [Threads -> Statements]
    BY DEF ClientInv, ClientTypes
  <1>1. CASE UNCHANGED <<request, clients, entry, statusEntry, statusGiven>>
             /\ (written' = written \/ written' = written + 1) /\ UNCHANGED thread
    BY <1>0, <1>1, ClientFrame
  <1>2. CASE Start
    <2>1. thread' = thread \/ thread' = [t \in Threads |-> "idle"]
      BY <1>2 DEF Start
    <2>2. /\ thread' \in [Threads -> Statements]
          /\ \A t \in Threads : thread'[t] \in Busy => thread[t] \in Busy
      BY <1>0, <2>1 DEF Statements, Busy
    <2> QED
      BY <1>2, <2>2, ClientFrame DEF Start
  <1>3. CASE RunServer \/ Stop
    BY <1>1, <1>3, Zenon DEF RunServer, BeginHeader, EndHeader, Stopped, Stop, Lock, Unlock,
       CallWrite, PutLine
  <1>4. CASE Rotate
    BY <1>1, <1>4, Zenon DEF Rotate, SkipFile, RemoveOldest, Rename, OpenEmpty
  <1>5. CASE ReopenStreams
    BY <1>1, <1>5, Zenon DEF ReopenStreams, OpenStreams
  <1>6. CASE Kill
    BY <1>6, ClientKill
  <1>7. CASE Restart
    BY <1>1, <1>7, Zenon DEF Restart, RestartLog
  <1>8. ASSUME NEW t \in Threads, Serve(t) \/ RotateStatus(t)
        PROVE  ClientInv'
    <2>1. CASE EndAccess(t)
      <3>1. thread[t] = "write" /\ thread' = [thread EXCEPT ![t] = "status"]
        BY <2>1 DEF EndAccess
      <3>2. /\ thread' \in [Threads -> Statements]
            /\ \A s \in Threads : thread'[s] \in Busy => thread[s] \in Busy
        BY <1>0, <3>1 DEF Statements, Busy
      <3> QED
        BY <2>1, <3>2, ClientFrame DEF EndAccess, Unlock, PutLine
    <2>2. CASE EndStatus(t)
      <3>1. thread[t] = "entry" /\ thread' = [thread EXCEPT ![t] = "reply"]
        BY <2>2 DEF EndStatus
      <3>2. /\ thread' \in [Threads -> Statements]
            /\ \A s \in Threads : thread'[s] \in Busy => thread[s] \in Busy
        BY <1>0, <3>1 DEF Statements, Busy
      <3> QED
        BY <2>2, <3>2, ClientFrame DEF EndStatus, Status!Keep
    <2>3. CASE Leave(t)
      <3>1. thread[t] = "idle" /\ thread' = [thread EXCEPT ![t] = "none"]
        BY <2>3 DEF Leave
      <3>2. /\ thread' \in [Threads -> Statements]
            /\ \A s \in Threads : thread'[s] \in Busy => thread[s] \in Busy
        BY <1>0, <3>1 DEF Statements, Busy
      <3> QED
        BY <2>3, <3>2, ClientFrame DEF Leave
    <2>4. CASE RotateStatus(t)
      BY <1>1, <2>4, Zenon DEF RotateStatus, Status!DropOldest
    <2> QED
      BY <1>8, <2>1, <2>2, <2>3, <2>4, ClientLogAccess, ClientLogStatus, ClientReply, Zenon
      DEF Serve
  <1>9. CASE UNCHANGED vars
    BY <1>1, <1>9, Zenon DEF vars
  <1> QED
    BY <1>2, <1>3, <1>4, <1>5, <1>6, <1>7, <1>8, <1>9, ClientArrive, Zenon DEF Next

(* A request that had ended before another came precedes it in both logs,  *)
(* through rotations, failures and restarts.                               *)
THEOREM LogsFollowTheClients ==
  Spec => []LogsFollowClients
PROOF
  <1>1. Init => ClientInv
    BY ClientInit
  <1>2. ClientInv /\ [Next]_vars => ClientInv'
    BY ClientNext
  <1>3. ClientInv => LogsFollowClients
    BY DEF ClientInv
  <1> QED
    BY <1>1, <1>2, <1>3, PTL DEF Spec

----------------------------------------------------------------------------
(* The owner of the mutex.                                                 *)

(* The owner is in a call of write(), and no thread is in one before the   *)
(* server has started.                                                     *)
MutexInv ==
  /\ server \in {"off", "version", "version2", "fields", "fields2", "running",
                 "stopping", "stopped", "failed", "ended"}
  /\ status \in [Threads -> {0, 200, 401, 404, 405}]
  /\ loggerMutex \in Threads \cup {Main, NoOne}
  /\ Writing <=> loggerMutex # NoOne
  /\ \A t \in Threads : thread[t] = "write" <=> loggerMutex = t
  /\ server \in {"off", "ended"} => \A t \in Threads : thread[t] = "none"

LEMMA MutexInit ==
  ASSUME Init
  PROVE  MutexInv
  BY HttpAssumption DEF Init, LogInit, MutexInv, Writing

(* Every step preserves it. *)
LEMMA MutexNext ==
  ASSUME ClientTypes, MutexInv, [Next]_vars
  PROVE  MutexInv'
PROOF
  <1> USE DEF MutexInv
  <1>0. /\ thread \in [Threads -> Statements] /\ Main \notin Threads
        /\ NoOne \notin Threads /\ Main # NoOne
    BY HttpAssumption DEF ClientTypes
  <1>1. CASE UNCHANGED <<server, thread, status, loggerMutex>> /\ Writing' = Writing
    BY <1>1, Zenon
  <1>2. CASE Start
    <2>1. /\ UNCHANGED <<status, loggerMutex>> /\ Writing' = Writing
          /\ server = "off" /\ server' \in {"version", "failed"}
          /\ thread' = thread \/ thread' = [t \in Threads |-> "idle"]
      BY <1>2 DEF Start, access, logVars, Writing
    <2>2. \A t \in Threads : loggerMutex # t /\ thread'[t] # "write"
      BY <2>1
    <2> QED
      BY <2>1, <2>2
  <1>3. ASSUME NEW line \in {"version", "fields"}, NEW next \in {"version2", "fields2"},
               BeginHeader(line, next)
        PROVE  MutexInv'
    <2>1. /\ UNCHANGED <<thread, status>> /\ server = line /\ server' = next
          /\ loggerMutex = NoOne /\ loggerMutex' = Main /\ Writing'
      BY <1>3 DEF BeginHeader, Lock, CallWrite, pool, Writing
    <2> QED
      BY <1>0, <2>1
  <1>4. ASSUME NEW line \in {"version2", "fields2"}, NEW next \in {"fields", "running"},
               EndHeader(line, next)
        PROVE  MutexInv'
    <2>1. /\ UNCHANGED <<thread, status>> /\ server = line /\ server' = next
          /\ loggerMutex = Main /\ loggerMutex' = NoOne /\ ~Writing'
      BY <1>4 DEF EndHeader, Unlock, PutLine, pool, Writing
    <2> QED
      BY <1>0, <2>1
  <1>5. CASE Stop \/ Stopped
    <2>1. /\ UNCHANGED <<thread, status, loggerMutex>> /\ Writing' = Writing
          /\ server' \in {"stopping", "stopped"}
      BY <1>5 DEF Stop, Stopped, access, logVars, pool, Writing
    <2> QED
      BY <2>1
  <1>6. CASE Rotate
    <2>1. UNCHANGED <<server, thread, status, loggerMutex>> /\ Writing /\ Writing'
      BY <1>6 DEF Rotate, pool, SkipFile, RemoveOldest, Rename, Move, OpenEmpty, At, Writing
    <2> QED
      BY <1>1, <2>1
  <1>7. CASE ReopenStreams
    <2>1. UNCHANGED <<server, thread, status, loggerMutex>> /\ Writing' = Writing
      BY <1>7 DEF ReopenStreams, pool, OpenStreams, Writing
    <2> QED
      BY <1>1, <2>1
  <1>8. CASE Kill
    <2>1. /\ server' = "ended" /\ loggerMutex' = NoOne /\ ~Writing'
          /\ thread' = [t \in Threads |-> "none"] /\ status' = [t \in Threads |-> 0]
      BY <1>8 DEF Kill, EndLog, Writing
    <2> QED
      BY <1>0, <2>1
  <1>9. CASE Restart
    <2>1. /\ server = "ended" /\ server' = "off" /\ ~Writing /\ ~Writing'
          /\ UNCHANGED <<thread, status, loggerMutex>>
      BY <1>9 DEF Restart, RestartLog, pool, At, Writing
    <2> QED
      BY <2>1
  <1>10. ASSUME NEW t \in Threads, NEW next \in {"access", "uptime"}, NEW q \in Inputs,
                Receive(t, q, next)
         PROVE  MutexInv'
    <2>1. /\ UNCHANGED <<server, loggerMutex>> /\ Writing' = Writing
          /\ thread[t] = "idle" /\ thread' = [thread EXCEPT ![t] = next]
          /\ status' = [status EXCEPT ![t] = Result(q)]
      BY <1>10 DEF Receive, access, logVars, Writing
    <2>2. Result(q) \in {0, 200, 401, 404, 405}
      BY DEF Result
    <2> QED
      BY <1>0, <2>1, <2>2
  <1>11. ASSUME NEW t \in Threads, LogAccess(t)
         PROVE  MutexInv'
    <2>1. /\ UNCHANGED <<server, status>> /\ Writing'
          /\ thread[t] = "access" /\ thread' = [thread EXCEPT ![t] = "write"]
          /\ loggerMutex = NoOne /\ loggerMutex' = t
      BY <1>11 DEF LogAccess, Lock, CallWrite, Writing
    <2> QED
      BY <1>0, <2>1
  <1>12. ASSUME NEW t \in Threads, EndAccess(t)
         PROVE  MutexInv'
    <2>1. /\ UNCHANGED <<server, status>> /\ ~Writing'
          /\ thread[t] = "write" /\ thread' = [thread EXCEPT ![t] = "status"]
          /\ loggerMutex = t /\ loggerMutex' = NoOne
      BY <1>12 DEF EndAccess, Unlock, PutLine, Writing
    <2> QED
      BY <1>0, <2>1
  <1>13. ASSUME NEW t \in Threads, LogStatus(t) \/ EndStatus(t) \/ Leave(t)
         PROVE  MutexInv'
    <2>1. /\ UNCHANGED <<server, status, loggerMutex>> /\ Writing' = Writing
          /\ thread[t] \in {"status", "entry", "idle"}
          /\ \E next \in {"entry", "reply", "none"} : thread' = [thread EXCEPT ![t] = next]
      BY <1>13 DEF LogStatus, EndStatus, Leave, access, logVars, Writing
    <2> QED
      BY <1>0, <2>1
  <1>14. ASSUME NEW t \in Threads, Reply(t)
         PROVE  MutexInv'
    <2>1. /\ UNCHANGED <<server, loggerMutex>> /\ Writing' = Writing
          /\ thread[t] \in {"reply", "uptime"}
          /\ thread' = [thread EXCEPT ![t] = "idle"] /\ status' = [status EXCEPT ![t] = 0]
      BY <1>14, Zenon DEF Reply, access, logVars, Writing
    <2> QED
      BY <1>0, <2>1
  <1>15. CASE UNCHANGED vars \/ \E t \in Threads : RotateStatus(t)
    <2>1. UNCHANGED <<server, thread, status, loggerMutex>> /\ Writing' = Writing
      BY <1>15, Zenon DEF vars, RotateStatus, access, logVars, pool, Writing
    <2> QED
      BY <1>1, <2>1
  <1>16. CASE RunServer
    BY <1>3, <1>4, <1>5, <1>16, Zenon DEF RunServer
  <1> QED
    BY <1>2, <1>5, <1>6, <1>7, <1>8, <1>9, <1>10, <1>11, <1>12, <1>13, <1>14, <1>15, <1>16,
       Zenon DEF Next, Serve, Arrive

(* Every variable has its type, and whoever owns the mutex is the one that *)
(* is inside Logger::write, however requests, rotations, failures and ends *)
(* of the process are interleaved.                                         *)
THEOREM ServerTypes ==
  Spec => []TypeOK
PROOF
  <1>1. Init => ClientInv /\ MutexInv
    BY ClientInit, MutexInit
  <1>2. ClientInv /\ MutexInv /\ [Next]_vars => ClientInv' /\ MutexInv'
    BY ClientNext, MutexNext DEF ClientInv
  <1>3. LogInv /\ ClientInv /\ MutexInv => TypeOK
    <2> SUFFICES ASSUME LogInv, ClientInv, MutexInv
                 PROVE  TypeOK
      OBVIOUS
    <2>1. request \in [Threads -> 0 .. MaxRequests]
      <3>1. \A t \in Threads : request[t] \in 0 .. MaxRequests
        BY HttpAssumption DEF ClientInv, ClientTypes, PoolInv
      <3> QED
        BY <3>1 DEF ClientInv, ClientTypes
    <2>2. requests \in 0 .. MaxRequests
      BY HttpAssumption DEF ClientInv, ClientTypes
    <2>3. LogTypeOK
      BY DEF LogInv, FilesInv
    <2> QED
      BY <2>1, <2>2, <2>3, Zenon DEF TypeOK, ClientInv, ClientTypes, MutexInv, Statements, Busy,
         Outcomes
  <1> QED
    BY <1>1, <1>2, <1>3, AccessInvariance, PTL DEF Spec


----------------------------------------------------------------------------
(* The entries of the requests that have been answered.                    *)

AfterStatus == {"reply"}

AfterGive == {"entry"} \cup AfterStatus

AfterAccess == {"status"} \cup AfterGive

AfterLock == {"write"} \cup AfterAccess

(* The requests that have come as far, or have their answer. *)
Passed(statements) ==
  Ended \cup {request[t] : t \in {s \in Threads : thread[s] \in statements}}

(* A request has its lines when it is past the calls that write them, and  *)
(* is past them only when they have been written.                          *)
LoggedInv ==
  /\ \A r \in Passed(AfterLock) : entry[r] > 0
  /\ \A r \in Passed(AfterGive) : statusEntry[r] > 0
  /\ Writing => \A r \in Passed(AfterAccess) : entry[r] # written
  /\ Status!InFlight => \A r \in Passed(AfterStatus) : statusEntry[r] # statusGiven
  /\ \A t \in Threads : thread[t] = "uptime" => status[t] = 200

(* One thread is in a call of StatusLogger::log, and what status.json has  *)
(* given up is older than what it keeps.                                   *)
StatusInv ==
  /\ statusKept \cup statusLost \subseteq 1 .. statusGiven
  /\ \A t \in Threads : thread[t] = "entry" => Status!InFlight
  /\ \A s, t \in Threads : thread[s] = "entry" /\ thread[t] = "entry" => s = t
  /\ \A a \in 1 .. statusGiven, n \in statusKept :
       a \in statusKept \cup statusLost \cup {statusGiven} \/ a < n

(* A step that brings no thread further changes nothing. *)
LEMMA PassedStays ==
  ASSUME NEW W, Ended' \subseteq Passed(W),
         \A s \in Threads : thread'[s] \in W => thread[s] \in W /\ request'[s] = request[s]
  PROVE  Passed(W)' \subseteq Passed(W)
  BY Zenon DEF Passed

(* The others a thread leaves behind it. *)
LEMMA PassedGrows ==
  ASSUME NEW W, NEW t \in Threads, UNCHANGED <<request, outcome>>,
         \A s \in Threads : s # t => thread'[s] = thread[s]
  PROVE  Passed(W)' \subseteq Passed(W) \cup {request[t]}
PROOF
  <1>1. Ended' = Ended
    BY DEF Ended
  <1> QED
    BY <1>1, Zenon DEF Passed

(* Who has passed is known, and is no request of a thread that has not. *)
LEMMA PassedFacts ==
  ASSUME ClientInv, NEW W \in SUBSET AfterLock
  PROVE  /\ Passed(W) \subseteq Requests /\ Ended \subseteq Passed(W)
         /\ \A t \in Threads : thread[t] \in Busy \ W => request[t] \notin Passed(W)
PROOF
  <1> USE DEF ClientInv
  <1>1. W \subseteq Busy
    BY DEF AfterLock, AfterAccess, AfterGive, AfterStatus, Busy
  <1>2. \A t \in Threads : thread[t] \in Busy =>
          request[t] \in Requests /\ outcome[request[t]] = "none"
    BY HttpAssumption DEF PoolInv, ClientTypes, Requests
  <1>3. Passed(W) \subseteq Requests /\ Ended \subseteq Passed(W)
    BY <1>1, <1>2, Zenon DEF Passed, Ended
  <1>4. ASSUME NEW t \in Threads, thread[t] \in Busy \ W, request[t] \in Passed(W)
        PROVE  FALSE
    <2>1. request[t] \notin Ended /\ request[t] # 0
      BY <1>2, <1>4 DEF Ended, PoolInv
    <2>2. PICK s \in Threads : thread[s] \in W /\ request[s] = request[t]
      BY <1>4, <2>1, Zenon DEF Passed
    <2> QED
      BY <1>4, <2>1, <2>2 DEF PoolInv
  <1> QED
    BY <1>3, <1>4

LEMMA LoggedInit ==
  ASSUME Init
  PROVE  LoggedInv /\ StatusInv
PROOF
  <1>1. Ended = {} /\ \A t \in Threads : thread[t] = "none"
    BY DEF Init, Ended
  <1>2. \A W \in SUBSET AfterLock : Passed(W) = {}
    BY <1>1, Zenon DEF Passed, AfterLock, AfterAccess, AfterGive, AfterStatus
  <1>3. /\ AfterAccess \subseteq AfterLock /\ AfterGive \subseteq AfterLock
        /\ AfterStatus \subseteq AfterLock
    BY DEF AfterLock, AfterAccess, AfterGive
  <1>4. LoggedInv
    BY <1>1, <1>2, <1>3, Zenon DEF LoggedInv
  <1>5. StatusInv
    BY <1>1 DEF StatusInv, Init, Status!Init
  <1> QED
    BY <1>4, <1>5

(* Steps that are no step of a request. *)
LEMMA LoggedFrame ==
  ASSUME ClientInv, LoggedInv,
         UNCHANGED <<request, status, outcome, entry, statusEntry, statusGiven>>,
         Status!InFlight' => Status!InFlight,
         (written' = written /\ (Writing' => Writing)) \/ written' = written + 1,
         \A t \in Threads : thread'[t] = thread[t] \/ thread'[t] \in {"none", "idle"}
  PROVE  LoggedInv'
PROOF
  <1>1. \A W \in {AfterLock, AfterAccess, AfterGive, AfterStatus} :
          W \subseteq AfterLock /\ "none" \notin W /\ "idle" \notin W
    BY DEF AfterLock, AfterAccess, AfterGive, AfterStatus
  <1>2. Ended' = Ended
    BY DEF Ended
  <1>3. \A W \in {AfterLock, AfterAccess, AfterGive, AfterStatus} : Passed(W)' \subseteq Passed(W)
    BY <1>1, <1>2, PassedStays, PassedFacts, Zenon
  <1>4. \A r \in Passed(AfterAccess) : entry[r] \in Nat /\ entry[r] <= written
    BY <1>1, PassedFacts DEF ClientInv, ClientTypes, EntryInv
  <1>5. Writing' => \A r \in Passed(AfterAccess)' : entry'[r] # written'
    BY <1>3, <1>4 DEF LoggedInv, ClientInv, ClientTypes
  <1>6. /\ \A r \in Passed(AfterLock)' : entry'[r] > 0
        /\ \A r \in Passed(AfterGive)' : statusEntry'[r] > 0
        /\ Status!InFlight' => \A r \in Passed(AfterStatus)' : statusEntry'[r] # statusGiven'
    BY <1>3, Zenon DEF LoggedInv
  <1>7. \A t \in Threads : thread'[t] = "uptime" => status'[t] = 200
    BY DEF LoggedInv
  <1> QED
    BY <1>5, <1>6, <1>7, Zenon DEF LoggedInv

(* The sets of statements, and which statement is in which. *)
LEMMA StatementFacts ==
  /\ \A W \in {AfterLock, AfterAccess, AfterGive, AfterStatus} :
       W \in SUBSET AfterLock /\ W \cap {"none", "idle", "access", "uptime"} = {} /\ "reply" \in W
  /\ "write" \in AfterLock \ AfterAccess
  /\ "status" \in AfterAccess \ AfterGive
  /\ "entry" \in AfterGive \ AfterStatus
  /\ AfterStatus \subseteq AfterGive /\ AfterGive \subseteq AfterAccess
  /\ AfterAccess \subseteq AfterLock
  BY DEF AfterLock, AfterAccess, AfterGive, AfterStatus

LEMMA LoggedArrive ==
  ASSUME ClientInv, MutexInv, LoggedInv, NEW t \in Threads, NEW q \in Inputs, Arrive(t, q)
  PROVE  LoggedInv'
PROOF
  <1>1. /\ UNCHANGED <<outcome, entry, statusEntry, statusGiven, statusKept, statusLost, written,
                       logpc>>
        /\ thread[t] = "idle"
        /\ thread' = [thread EXCEPT ![t] = IF Logged(q) THEN "access" ELSE "uptime"]
        /\ request' = [request EXCEPT ![t] = requests']
        /\ status' = [status EXCEPT ![t] = Result(q)]
    BY Zenon DEF Arrive, Receive, access, logVars, statusJson
  <1>2. /\ \A s \in Threads : s # t => /\ thread'[s] = thread[s] /\ request'[s] = request[s]
                                       /\ status'[s] = status[s]
        /\ thread'[t] = IF Logged(q) THEN "access" ELSE "uptime"
        /\ status'[t] = Result(q)
    BY <1>1 DEF ClientInv, ClientTypes, MutexInv
  <1>3. \A W \in {AfterLock, AfterAccess, AfterGive, AfterStatus} : Passed(W)' \subseteq Passed(W)
    <2> SUFFICES ASSUME NEW W \in {AfterLock, AfterAccess, AfterGive, AfterStatus}
                 PROVE  Passed(W)' \subseteq Passed(W)
      OBVIOUS
    <2>1. "access" \notin W /\ "uptime" \notin W
      BY StatementFacts
    <2>2. \A s \in Threads : thread'[s] \in W => thread[s] \in W /\ request'[s] = request[s]
      BY <1>2, <2>1
    <2>3. Ended' \subseteq Passed(W)
      BY <1>1, Zenon DEF Ended, Passed
    <2> QED
      BY <2>2, <2>3, PassedStays
  <1>4. \A s \in Threads : thread'[s] = "uptime" => status'[s] = 200
    <2>1. ~Logged(q) => Result(q) = 200
      BY DEF Logged
    <2> QED
      BY <1>2, <2>1 DEF LoggedInv
  <1>5. (Status!InFlight' <=> Status!InFlight) /\ (Writing' <=> Writing)
    BY <1>1, Zenon DEF Status!InFlight, Writing
  <1> QED
    BY <1>1, <1>3, <1>4, <1>5, Zenon DEF LoggedInv

LEMMA LoggedLogAccess ==
  ASSUME ClientInv, LoggedInv, NEW t \in Threads, LogAccess(t)
  PROVE  LoggedInv'
PROOF
  <1>1. /\ UNCHANGED <<request, outcome, status, statusEntry, statusGiven, statusKept, statusLost>>
        /\ thread[t] = "access" /\ thread' = [thread EXCEPT ![t] = "write"]
        /\ entry' = [entry EXCEPT ![request[t]] = written'] /\ written' = written + 1
    BY Zenon DEF LogAccess, Lock, CallWrite, statusJson, clients
  <1>2. /\ \A s \in Threads : s # t => thread'[s] = thread[s]
        /\ thread'[t] = "write" /\ thread[t] \in Busy
        /\ request[t] \in Requests /\ written \in Nat
    BY <1>1, HttpAssumption DEF ClientInv, ClientTypes, PoolInv, Busy, Requests
  <1>3. /\ Passed(AfterLock)' \subseteq Passed(AfterLock) \cup {request[t]}
        /\ Passed(AfterLock) \subseteq Requests
    BY <1>1, <1>2, PassedGrows, PassedFacts
  <1>4. ASSUME NEW W \in {AfterAccess, AfterGive, AfterStatus}
        PROVE  Passed(W)' \subseteq Passed(W) /\ request[t] \notin Passed(W)
               /\ Passed(W) \subseteq Requests
    <2>1. W \in SUBSET AfterLock /\ "write" \notin W /\ "access" \notin W
      BY StatementFacts
    <2>2. \A s \in Threads : thread'[s] \in W => thread[s] \in W /\ request'[s] = request[s]
      BY <1>1, <1>2, <2>1, Zenon
    <2>3. Ended' \subseteq Passed(W)
      BY <1>1, Zenon DEF Ended, Passed
    <2>4. Passed(W)' \subseteq Passed(W)
      BY <2>2, <2>3, PassedStays
    <2> QED
      BY <1>1, <1>2, <2>1, <2>4, PassedFacts
  <1>5. \A r \in Requests : entry'[r] = IF r = request[t] THEN written + 1 ELSE entry[r]
    BY <1>1, <1>2 DEF ClientInv, ClientTypes
  <1>6. \A r \in Passed(AfterLock)' : entry'[r] > 0
    BY <1>2, <1>3, <1>5 DEF LoggedInv
  <1>7. \A r \in Passed(AfterAccess)' : entry'[r] # written'
    <2> SUFFICES ASSUME NEW r \in Passed(AfterAccess)
                 PROVE  entry'[r] # written'
      BY <1>4
    <2>1. r # request[t] /\ r \in Requests /\ entry[r] <= written /\ entry[r] \in Nat
      BY <1>4 DEF ClientInv, ClientTypes, EntryInv
    <2> QED
      BY <1>1, <1>2, <1>5, <2>1
  <1>8. /\ \A r \in Passed(AfterGive)' : statusEntry'[r] > 0
        /\ Status!InFlight' => \A r \in Passed(AfterStatus)' : statusEntry'[r] # statusGiven'
    BY <1>1, <1>4, Zenon DEF LoggedInv, Status!InFlight
  <1>9. \A s \in Threads : thread'[s] = "uptime" => status'[s] = 200
    BY <1>1, <1>2 DEF LoggedInv
  <1> QED
    BY <1>6, <1>7, <1>8, <1>9, Zenon DEF LoggedInv

LEMMA LoggedEndAccess ==
  ASSUME ClientInv, LoggedInv, NEW t \in Threads, EndAccess(t)
  PROVE  LoggedInv'
PROOF
  <1>1. /\ UNCHANGED <<request, outcome, status, entry, statusEntry, statusGiven, statusKept,
                       statusLost>>
        /\ thread[t] = "write" /\ thread' = [thread EXCEPT ![t] = "status"]
        /\ ~Writing'
    BY DEF EndAccess, Unlock, PutLine, statusJson, clients, Writing
  <1>2. /\ \A s \in Threads : s # t => thread'[s] = thread[s]
        /\ thread'[t] = "status"
    BY <1>1 DEF ClientInv, ClientTypes
  <1>3. \A W \in {AfterLock, AfterGive, AfterStatus} : Passed(W)' \subseteq Passed(W)
    <2> SUFFICES ASSUME NEW W \in {AfterLock, AfterGive, AfterStatus}
                 PROVE  Passed(W)' \subseteq Passed(W)
      OBVIOUS
    <2>1. "status" \in W => "write" \in W
      BY StatementFacts
    <2>2. \A s \in Threads : thread'[s] \in W => thread[s] \in W /\ request'[s] = request[s]
      BY <1>1, <1>2, <2>1, Zenon
    <2>3. Ended' \subseteq Passed(W)
      BY <1>1, Zenon DEF Ended, Passed
    <2> QED
      BY <2>2, <2>3, PassedStays
  <1>4. \A s \in Threads : thread'[s] = "uptime" => status'[s] = 200
    BY <1>1, <1>2 DEF LoggedInv
  <1> QED
    BY <1>1, <1>3, <1>4, Zenon DEF LoggedInv, Status!InFlight

LEMMA LoggedLogStatus ==
  ASSUME ClientInv, LoggedInv, NEW t \in Threads, LogStatus(t)
  PROVE  LoggedInv'
PROOF
  <1>1. /\ UNCHANGED <<request, outcome, status, entry, written, logpc>>
        /\ thread[t] = "status" /\ thread' = [thread EXCEPT ![t] = "entry"]
        /\ statusEntry' = [statusEntry EXCEPT ![request[t]] = statusGiven']
        /\ statusGiven' = statusGiven + 1
    BY Zenon DEF LogStatus, Status!Give, access, logVars, clients
  <1>2. /\ \A s \in Threads : s # t => thread'[s] = thread[s]
        /\ thread'[t] = "entry" /\ thread[t] \in Busy
        /\ request[t] \in Requests /\ statusGiven \in Nat
    BY <1>1, HttpAssumption DEF ClientInv, ClientTypes, PoolInv, Busy, Requests
  <1>3. /\ Passed(AfterGive)' \subseteq Passed(AfterGive) \cup {request[t]}
        /\ Passed(AfterGive) \subseteq Requests
    BY <1>1, <1>2, PassedGrows, PassedFacts, StatementFacts
  <1>4. \A W \in {AfterLock, AfterAccess, AfterStatus} : Passed(W)' \subseteq Passed(W)
    <2> SUFFICES ASSUME NEW W \in {AfterLock, AfterAccess, AfterStatus}
                 PROVE  Passed(W)' \subseteq Passed(W)
      OBVIOUS
    <2>1. "entry" \in W => "status" \in W
      BY StatementFacts
    <2>2. \A s \in Threads : thread'[s] \in W => thread[s] \in W /\ request'[s] = request[s]
      BY <1>1, <1>2, <2>1, Zenon
    <2>3. Ended' \subseteq Passed(W)
      BY <1>1, Zenon DEF Ended, Passed
    <2> QED
      BY <2>2, <2>3, PassedStays
  <1>5. request[t] \notin Passed(AfterStatus) /\ Passed(AfterStatus) \subseteq Requests
    BY <1>1, <1>2, PassedFacts, StatementFacts
  <1>6. \A r \in Requests : statusEntry'[r] = IF r = request[t] THEN statusGiven + 1 ELSE statusEntry[r]
    BY <1>1, <1>2 DEF ClientInv, ClientTypes
  <1>7. \A r \in Passed(AfterGive)' : statusEntry'[r] > 0
    BY <1>2, <1>3, <1>6 DEF LoggedInv
  <1>8. \A r \in Passed(AfterStatus)' : statusEntry'[r] # statusGiven'
    <2> SUFFICES ASSUME NEW r \in Passed(AfterStatus)
                 PROVE  statusEntry'[r] # statusGiven'
      BY <1>4
    <2>1. r # request[t] /\ r \in Requests /\ statusEntry[r] <= statusGiven /\ statusEntry[r] \in Nat
      BY <1>5 DEF ClientInv, ClientTypes, EntryInv
    <2> QED
      BY <1>1, <1>2, <1>6, <2>1
  <1>9. /\ \A r \in Passed(AfterLock)' : entry'[r] > 0
        /\ Writing' => \A r \in Passed(AfterAccess)' : entry'[r] # written'
    <2>1. Writing' <=> Writing
      BY <1>1, Zenon DEF Writing
    <2>2. /\ Passed(AfterLock)' \subseteq Passed(AfterLock)
          /\ Passed(AfterAccess)' \subseteq Passed(AfterAccess)
          /\ entry' = entry /\ written' = written
      BY <1>1, <1>4
    <2> QED
      BY <2>1, <2>2 DEF LoggedInv
  <1>10. \A s \in Threads : thread'[s] = "uptime" => status'[s] = 200
    BY <1>1, <1>2 DEF LoggedInv
  <1> QED
    BY <1>7, <1>8, <1>9, <1>10, Zenon DEF LoggedInv

LEMMA LoggedEndStatus ==
  ASSUME ClientInv, LoggedInv, NEW t \in Threads, EndStatus(t)
  PROVE  LoggedInv'
PROOF
  <1>1. /\ UNCHANGED <<request, outcome, status, entry, statusEntry, statusGiven, written, logpc>>
        /\ thread[t] = "entry" /\ thread' = [thread EXCEPT ![t] = "reply"]
        /\ ~Status!InFlight'
    BY DEF EndStatus, Status!Keep, Status!InFlight, access, logVars, clients
  <1>2. /\ \A s \in Threads : s # t => thread'[s] = thread[s]
        /\ thread'[t] = "reply"
    BY <1>1 DEF ClientInv, ClientTypes
  <1>3. \A W \in {AfterLock, AfterAccess, AfterGive} : Passed(W)' \subseteq Passed(W)
    <2> SUFFICES ASSUME NEW W \in {AfterLock, AfterAccess, AfterGive}
                 PROVE  Passed(W)' \subseteq Passed(W)
      OBVIOUS
    <2>1. "entry" \in W
      BY StatementFacts
    <2>2. \A s \in Threads : thread'[s] \in W => thread[s] \in W /\ request'[s] = request[s]
      BY <1>1, <1>2, <2>1, Zenon
    <2>3. Ended' \subseteq Passed(W)
      BY <1>1, Zenon DEF Ended, Passed
    <2> QED
      BY <2>2, <2>3, PassedStays
  <1>4. \A s \in Threads : thread'[s] = "uptime" => status'[s] = 200
    BY <1>1, <1>2 DEF LoggedInv
  <1>5. Writing' <=> Writing
    BY <1>1, Zenon DEF Writing
  <1> QED
    BY <1>1, <1>3, <1>4, <1>5, Zenon DEF LoggedInv

(* Whoever gets an answer that counts has been at both logs. *)
LEMMA LoggedReply ==
  ASSUME ClientInv, MutexInv, LoggedInv, NEW t \in Threads, Reply(t)
  PROVE  LoggedInv'
PROOF
  <1>1. /\ UNCHANGED <<entry, statusEntry, statusGiven, statusKept, statusLost, written, logpc>>
        /\ thread[t] \in {"reply", "uptime"} /\ thread' = [thread EXCEPT ![t] = "idle"]
        /\ request' = [request EXCEPT ![t] = 0] /\ status' = [status EXCEPT ![t] = 0]
    BY Zenon DEF Reply, access, logVars, statusJson
  <1>2. /\ \A s \in Threads : s # t => /\ thread'[s] = thread[s] /\ request'[s] = request[s]
                                       /\ status'[s] = status[s]
        /\ thread'[t] = "idle"
    BY <1>1 DEF ClientInv, ClientTypes, MutexInv
  <1>3. \A r \in Ended' : r \in Ended \/ (r = request[t] /\ thread[t] = "reply")
    <2> SUFFICES ASSUME NEW r \in Ended', r \notin Ended
                 PROVE  r = request[t] /\ thread[t] = "reply"
      OBVIOUS
    <2>1. outcome' = [outcome EXCEPT ![request[t]] =
            IF status[t] = 405 THEN "closed"
            ELSE IF thread[t] = "uptime" THEN "uptime" ELSE "answered"]
      BY Zenon DEF Reply
    <2>2. r = request[t]
      BY <2>1 DEF Ended, ClientInv, ClientTypes
    <2>3. CASE thread[t] = "uptime"
      <3>1. status[t] = 200
        BY <2>3 DEF LoggedInv
      <3>2. outcome'[r] = "uptime"
        BY <2>1, <2>2, <2>3, <3>1 DEF Ended, ClientInv, ClientTypes
      <3> QED
        BY <3>2 DEF Ended
    <2> QED
      BY <1>1, <2>2, <2>3
  <1>4. \A W \in {AfterLock, AfterAccess, AfterGive, AfterStatus} : Passed(W)' \subseteq Passed(W)
    <2> SUFFICES ASSUME NEW W \in {AfterLock, AfterAccess, AfterGive, AfterStatus}
                 PROVE  Passed(W)' \subseteq Passed(W)
      OBVIOUS
    <2>1. "reply" \in W /\ "idle" \notin W
      BY StatementFacts
    <2>2. \A s \in Threads : thread'[s] \in W => thread[s] \in W /\ request'[s] = request[s]
      BY <1>1, <1>2, <2>1, Zenon
    <2>3. Ended' \subseteq Passed(W)
      BY <1>3, <2>1, Zenon DEF Passed
    <2> QED
      BY <2>2, <2>3, PassedStays
  <1>5. \A s \in Threads : thread'[s] = "uptime" => status'[s] = 200
    BY <1>2 DEF LoggedInv
  <1>6. (Status!InFlight' <=> Status!InFlight) /\ (Writing' <=> Writing)
    BY <1>1, Zenon DEF Status!InFlight, Writing
  <1> QED
    BY <1>1, <1>4, <1>5, <1>6, Zenon DEF LoggedInv

LEMMA LoggedKill ==
  ASSUME ClientInv, LoggedInv, Kill
  PROVE  LoggedInv'
PROOF
  <1>1. /\ UNCHANGED <<entry, statusEntry, statusGiven>>
        /\ thread' = [t \in Threads |-> "none"] /\ ~Writing'
    BY DEF Kill, EndLog, Status!Lose, Writing
  <1>2. ~Status!InFlight'
    BY DEF Kill, Status!Lose, Status!InFlight
  <1>3. Ended' \subseteq Ended
    <2>1. outcome' = [r \in Requests |->
            IF \E t \in Threads : request[t] = r THEN "cut" ELSE outcome[r]]
      BY Zenon DEF Kill
    <2>2. \A r \in Requests : outcome'[r] \in {outcome[r], "cut"}
      BY <2>1, Zenon
    <2> QED
      BY <2>2 DEF Ended
  <1>4. \A W \in {AfterLock, AfterAccess, AfterGive, AfterStatus} : Passed(W)' \subseteq Passed(W)
    <2> SUFFICES ASSUME NEW W \in {AfterLock, AfterAccess, AfterGive, AfterStatus}
                 PROVE  Passed(W)' \subseteq Passed(W)
      OBVIOUS
    <2>1. "none" \notin W /\ \A s \in Threads : thread'[s] = "none"
      BY <1>1, StatementFacts
    <2>2. Ended' \subseteq Passed(W)
      BY <1>3, Zenon DEF Passed
    <2> QED
      BY <2>1, <2>2, PassedStays, Zenon
  <1> QED
    BY <1>1, <1>2, <1>4 DEF LoggedInv

(* Every step preserves it. *)
LEMMA LoggedNext ==
  ASSUME ClientInv, MutexInv, StatusInv, LoggedInv, [Next]_vars
  PROVE  LoggedInv'
PROOF
  <1> USE DEF access, statusJson, pool, clients, logVars, faults
  <1>0. thread \in [Threads -> Statements]
    BY DEF ClientInv, ClientTypes
  <1>1. CASE /\ UNCHANGED <<request, status, outcome, entry, statusEntry, statusGiven, statusKept,
                            statusLost>>
             /\ (written' = written /\ (Writing' => Writing)) \/ written' = written + 1
             /\ \A t \in Threads : thread'[t] = thread[t] \/ thread'[t] \in {"none", "idle"}
    BY <1>1, LoggedFrame, Zenon DEF Status!InFlight
  <1>2. CASE Start
    <2>1. /\ UNCHANGED <<request, status, outcome, entry, statusEntry, statusGiven, statusKept,
                         statusLost, written, logpc>>
          /\ thread' = thread \/ thread' = [t \in Threads |-> "idle"]
      BY <1>2, Zenon DEF Start
    <2> QED
      BY <1>1, <2>1 DEF Writing
  <1>3. CASE RunServer \/ Stop
    <2>1. /\ UNCHANGED <<request, status, outcome, entry, statusEntry, statusGiven, statusKept,
                         statusLost, thread>>
          /\ \/ written' = written + 1
             \/ written' = written /\ logpc' \in {logpc, "idle"}
      BY <1>3, Zenon DEF RunServer, BeginHeader, EndHeader, Stopped, Stop, Lock, Unlock,
         CallWrite, PutLine
    <2>2. logpc' \in {logpc, "idle"} => (Writing' => Writing)
      BY DEF Writing
    <2> QED
      BY <1>1, <2>1, <2>2, Zenon
  <1>4. CASE Rotate \/ ReopenStreams \/ Restart \/ UNCHANGED vars
    <2>1. /\ UNCHANGED <<request, status, outcome, entry, statusEntry, statusGiven, statusKept,
                         statusLost, thread, written>>
      BY <1>4, Zenon DEF Rotate, SkipFile, RemoveOldest, Rename, OpenEmpty, ReopenStreams,
         OpenStreams, Restart, RestartLog, vars
    <2>2. Writing' => Writing
      BY <1>4 DEF Rotate, SkipFile, RemoveOldest, Rename, Move, OpenEmpty, ReopenStreams,
         OpenStreams, Restart, RestartLog, vars, Writing, At
    <2> QED
      BY <1>1, <2>1, <2>2, Zenon
  <1>5. ASSUME NEW t \in Threads, Leave(t)
        PROVE  LoggedInv'
    <2>1. /\ UNCHANGED <<request, status, outcome, entry, statusEntry, statusGiven, statusKept,
                         statusLost, written, logpc>>
          /\ thread' = [thread EXCEPT ![t] = "none"]
      BY <1>5, Zenon DEF Leave
    <2>2. \A s \in Threads : thread'[s] = thread[s] \/ thread'[s] = "none"
      BY <1>0, <2>1
    <2> QED
      BY <1>1, <2>1, <2>2 DEF Writing
  <1>6. ASSUME NEW t \in Threads, RotateStatus(t)
        PROVE  LoggedInv'
    <2>1. /\ UNCHANGED <<request, status, outcome, entry, statusEntry, statusGiven, thread, written,
                         logpc>>
          /\ Status!InFlight
      BY <1>6 DEF RotateStatus, Status!DropOldest, StatusInv
    <2>2. (Writing' => Writing) /\ \A s \in Threads : thread'[s] = thread[s]
      BY <2>1 DEF Writing
    <2> QED
      BY <2>1, <2>2, LoggedFrame, Zenon
  <1> QED
    BY <1>2, <1>3, <1>4, <1>5, <1>6, LoggedArrive, LoggedLogAccess, LoggedEndAccess,
       LoggedLogStatus, LoggedEndStatus, LoggedReply, LoggedKill, Zenon DEF Next, Serve

(* status.json, by the steps of its log. *)
LEMMA StatusNext ==
  ASSUME ClientInv, StatusInv, [Next]_vars
  PROVE  StatusInv'
PROOF
  <1> USE DEF StatusInv, statusJson, pool
  <1>0. thread \in [Threads -> Statements] /\ statusGiven \in Nat
    BY DEF ClientInv, ClientTypes
  <1>1. CASE /\ UNCHANGED <<statusGiven, statusKept, statusLost>>
             /\ \A t \in Threads : thread'[t] = "entry" => thread[t] = "entry"
    BY <1>1, Zenon DEF Status!InFlight
  <1>2. ASSUME NEW t \in Threads, LogStatus(t)
        PROVE  StatusInv'
    <2>1. /\ ~Status!InFlight /\ statusGiven' = statusGiven + 1
          /\ UNCHANGED <<statusKept, statusLost>>
          /\ thread' = [thread EXCEPT ![t] = "entry"]
      BY <1>2, Zenon DEF LogStatus, Status!Give
    <2>2. \A s \in Threads : thread[s] # "entry"
      BY <2>1
    <2>3. \A s \in Threads : thread'[s] = "entry" => s = t
      BY <1>0, <2>1, <2>2
    <2>4. Status!InFlight'
      BY <1>0, <2>1 DEF Status!InFlight
    <2>5. statusKept' \cup statusLost' \subseteq 1 .. statusGiven'
      BY <1>0, <2>1
    <2>6. ASSUME NEW a \in 1 .. statusGiven', NEW n \in statusKept'
          PROVE  a \in statusKept' \cup statusLost' \cup {statusGiven'} \/ a < n
      BY <1>0, <2>1, <2>6 DEF Status!InFlight
    <2> QED
      BY <2>3, <2>4, <2>5, <2>6
  <1>3. ASSUME NEW t \in Threads, RotateStatus(t)
        PROVE  StatusInv'
    <2>1. /\ statusKept' \in SUBSET statusKept /\ UNCHANGED <<statusGiven, statusLost, thread>>
          /\ \A a \in statusKept \ statusKept', n \in statusKept' : a < n
      BY <1>3, Zenon DEF RotateStatus, Status!DropOldest
    <2>2. \A s \in Threads : thread'[s] = "entry" => Status!InFlight'
      BY <2>1 DEF Status!InFlight
    <2>3. statusKept' \cup statusLost' \subseteq 1 .. statusGiven'
      BY <2>1
    <2>4. ASSUME NEW a \in 1 .. statusGiven', NEW n \in statusKept'
          PROVE  a \in statusKept' \cup statusLost' \cup {statusGiven'} \/ a < n
      BY <2>1, <2>4
    <2>5. \A s, u \in Threads : thread'[s] = "entry" /\ thread'[u] = "entry" => s = u
      BY <2>1
    <2> QED
      BY <2>2, <2>3, <2>4, <2>5
  <1>4. ASSUME NEW t \in Threads, EndStatus(t)
        PROVE  StatusInv'
    <2>1. /\ thread[t] = "entry" /\ thread' = [thread EXCEPT ![t] = "reply"]
          /\ statusKept' = statusKept \cup {statusGiven} /\ UNCHANGED <<statusGiven, statusLost>>
          /\ Status!InFlight
      BY <1>4, Zenon DEF EndStatus, Status!Keep
    <2>2. \A s \in Threads : thread'[s] # "entry"
      BY <1>0, <2>1
    <2>3. statusKept' \cup statusLost' \subseteq 1 .. statusGiven'
      BY <1>0, <2>1 DEF Status!InFlight
    <2>4. ASSUME NEW a \in 1 .. statusGiven', NEW n \in statusKept'
          PROVE  a \in statusKept' \cup statusLost' \cup {statusGiven'} \/ a < n
      BY <1>0, <2>1, <2>4
    <2> QED
      BY <2>2, <2>3, <2>4
  <1>5. CASE Kill
    <2>1. /\ \A s \in Threads : thread'[s] = "none"
          /\ UNCHANGED <<statusGiven, statusKept>>
          /\ \/ Status!InFlight /\ statusLost' = statusLost \cup {statusGiven}
             \/ UNCHANGED statusLost
      BY <1>5 DEF Kill, Status!Lose
    <2>2. statusKept' \cup statusLost' \subseteq 1 .. statusGiven'
      BY <1>0, <2>1 DEF Status!InFlight
    <2>3. ASSUME NEW a \in 1 .. statusGiven', NEW n \in statusKept'
          PROVE  a \in statusKept' \cup statusLost' \cup {statusGiven'} \/ a < n
      BY <2>1, <2>3
    <2> QED
      BY <2>1, <2>2, <2>3
  <1>6. CASE Start \/ Stop \/ RunServer \/ Rotate \/ ReopenStreams \/ Restart \/ UNCHANGED vars
    <2>1. /\ UNCHANGED <<statusGiven, statusKept, statusLost>>
          /\ thread' = thread \/ thread' = [t \in Threads |-> "idle"]
      BY <1>6, Zenon DEF Start, Stop, RunServer, BeginHeader, EndHeader, Stopped, Rotate,
         ReopenStreams, Restart, vars
    <2> QED
      BY <1>1, <2>1
  <1>7. ASSUME NEW t \in Threads,
               LogAccess(t) \/ EndAccess(t) \/ Reply(t) \/ Leave(t) \/ \E q \in Inputs : Arrive(t, q)
        PROVE  StatusInv'
    <2>1. /\ UNCHANGED <<statusGiven, statusKept, statusLost>>
          /\ \E next \in {"write", "status", "idle", "none", "access", "uptime"} :
               thread' = [thread EXCEPT ![t] = next]
      BY <1>7, Zenon DEF LogAccess, EndAccess, Reply, Leave, Arrive, Receive
    <2> QED
      BY <1>0, <1>1, <2>1
  <1> QED
    BY <1>2, <1>3, <1>4, <1>5, <1>6, <1>7, Zenon DEF Next, Serve

(* A client that has its answer, or its connection closed, finds its entry *)
(* in both logs, unless it could not be written or has been rotated away   *)
(* for log_retention full files of newer lines, less the gaps.             *)
THEOREM AnsweredAreLogged ==
  Spec => []AnsweredIsLogged
PROOF
  <1>1. Init => ClientInv /\ MutexInv /\ LoggedInv /\ StatusInv
    BY ClientInit, MutexInit, LoggedInit
  <1>2. /\ ClientInv /\ MutexInv /\ LoggedInv /\ StatusInv /\ [Next]_vars
        => ClientInv' /\ MutexInv' /\ LoggedInv' /\ StatusInv'
    BY ClientNext, MutexNext, LoggedNext, StatusNext DEF ClientInv
  <1>3. LogInv /\ ClientInv /\ LoggedInv /\ StatusInv => AnsweredIsLogged
    <2> SUFFICES ASSUME LogInv, ClientInv, LoggedInv, StatusInv, NEW r \in Ended
                 PROVE  /\ entry[r] \in Kept \cup lost \cup Dropped /\ entry[r] > 0
                        /\ statusEntry[r] > 0
                        /\ \/ statusEntry[r] \in statusKept \cup statusLost
                           \/ \A n \in statusKept : statusEntry[r] < n
                        /\ entry[r] \in Dropped =>
                             Cardinality(FullFilesAfter(entry[r])) >= Retention - Gaps
      BY DEF AnsweredIsLogged
    <2>1. /\ r \in Passed(AfterLock) /\ r \in Passed(AfterAccess)
          /\ r \in Passed(AfterGive) /\ r \in Passed(AfterStatus) /\ r \in Requests
      BY DEF Passed, Ended
    <2>2. /\ entry[r] \in Nat /\ statusEntry[r] \in Nat
          /\ entry[r] <= written /\ statusEntry[r] <= statusGiven
          /\ written \in Nat /\ statusGiven \in Nat
      BY <2>1 DEF ClientInv, ClientTypes, EntryInv
    <2>3. entry[r] > 0 /\ statusEntry[r] > 0
      BY <2>1 DEF LoggedInv
    <2>4. entry[r] \in Kept \cup lost \cup Dropped
      BY <2>1, <2>2, <2>3 DEF LoggedInv, Dropped
    <2>5. \/ statusEntry[r] \in statusKept \cup statusLost
          \/ \A n \in statusKept : statusEntry[r] < n
      BY <2>1, <2>2, <2>3 DEF LoggedInv, StatusInv, Status!InFlight
    <2> QED
      BY <2>3, <2>4, <2>5, RetainedLines
  <1> QED
    BY <1>1, <1>2, <1>3, AccessInvariance, PTL DEF Spec
=============================================================================
