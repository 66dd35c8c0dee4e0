----------------------------- MODULE HttpServer -----------------------------
(***************************************************************************)
(* The HTTP status server of scastd (src/src/HttpServer.cpp) and the two   *)
(* logs each request goes to: access.log, in the detail of LogRotation,    *)
(* and status.json, as an AppendLog. libmicrohttpd calls handleRequest on  *)
(* the threads of its pool; each log has a mutex of its own, so a request  *)
(* may pass another between the two. The main thread writes the two header *)
(* lines of the access log after the pool has started, and stops the pool  *)
(* when the daemon exits. The process may end at any step and be started   *)
(* again on the same files. The lines that a signal handler (see           *)
(* SignalLogging), a worker and the start and end of run() add to          *)
(* access.log are left out: they are calls of the same write as a header.  *)
(***************************************************************************)
EXTENDS LogRotation

CONSTANTS
  Threads,      (* the pool: thread_count threads                           *)
  Main, NoOne,  (* the main thread; the owner of a free mutex               *)
  Password,     (* is http_username set?                                    *)
  Inputs,       (* the requests that may come                               *)
  MaxRequests   (* bound on their number                                    *)

RequestTypes ==
  [get : BOOLEAN, user : BOOLEAN, page : {"status", "uptime", "other"}]

ASSUME HttpAssumption ==
  /\ IsFiniteSet(Threads)
  /\ Main \notin Threads /\ NoOne \notin Threads \cup {Main}
  /\ Password \in BOOLEAN
  /\ Inputs \subseteq RequestTypes
  /\ MaxRequests \in Nat

VARIABLES
  server,       (* the main thread: what it does with the server next       *)
  thread,       (* the statement of handleRequest each thread is at         *)
  request,      (* the request of each thread                               *)
  status,       (* the status of the answer each thread has queued          *)
  loggerMutex,  (* who is inside Logger::write                              *)
  requests,     (* the requests received so far: a request is its number    *)
  entry,        (* the line of each request in access.log, or 0             *)
  statusGiven, statusKept, statusLost,  (* status.json                      *)
  statusEntry,  (* the entry of each request in status.json, or 0           *)
  outcome,      (* history: how each request ended                          *)
  earlier       (* history: the requests that had ended when it came        *)

Requests == 1 .. MaxRequests

access == <<logVars, loggerMutex, entry>>
statusJson == <<statusGiven, statusKept, statusLost, statusEntry>>
pool == <<thread, request, status>>
clients == <<requests, outcome, earlier>>
vars == <<server, access, statusJson, pool, clients>>

Status == INSTANCE AppendLog WITH
  given <- statusGiven, kept <- statusKept, lost <- statusLost

Init ==
  /\ LogInit
  /\ Status!Init
  /\ server = "off"
  /\ thread = [t \in Threads |-> "none"]
  /\ request = [t \in Threads |-> 0]
  /\ status = [t \in Threads |-> 0]
  /\ loggerMutex = NoOne
  /\ requests = 0
  /\ entry = [r \in Requests |-> 0]
  /\ statusEntry = [r \in Requests |-> 0]
  /\ outcome = [r \in Requests |-> "none"]
  /\ earlier = [r \in Requests |-> {}]

----------------------------------------------------------------------------
(* Logger::logAccess: the mutex, and a write to the access log.            *)

Lock(who) ==
  /\ loggerMutex = NoOne
  /\ loggerMutex' = who
  /\ CallWrite

Rotate ==
  /\ loggerMutex # NoOne
  /\ SkipFile \/ RemoveOldest \/ Rename \/ OpenEmpty
  /\ UNCHANGED <<server, loggerMutex, entry, statusJson, pool, clients>>

Unlock_Bug(who) == \* the lock outlives the call
  /\ loggerMutex = who
  /\ PutLine
  /\ UNCHANGED loggerMutex

(* The line is written and the lock_guard destroyed. *)
Unlock(who) ==
  /\ loggerMutex = who
  /\ PutLine
  /\ loggerMutex' = NoOne

----------------------------------------------------------------------------
(* start() and stop().                                                     *)

(* Without its threads the server logs an error, and run() goes on. *)
Start ==
  /\ server = "off"
  /\ \/ /\ server' = "version"
        /\ thread' = [t \in Threads |-> "idle"]
     \/ /\ server' = "failed"
        /\ UNCHANGED thread
  /\ UNCHANGED <<access, statusJson, request, status, clients>>

BeginHeader(line, next) ==
  /\ server = line
  /\ Lock(Main)
  /\ server' = next
  /\ UNCHANGED <<entry, statusJson, pool, clients>>

EndHeader(line, next) ==
  /\ server = line
  /\ Unlock(Main)
  /\ server' = next
  /\ UNCHANGED <<entry, statusJson, pool, clients>>

Stop_Bug == \* the mutex of the logger is held while the threads are joined
  /\ server = "running"
  /\ loggerMutex = NoOne
  /\ loggerMutex' = Main
  /\ server' = "stopping"
  /\ UNCHANGED <<logVars, entry, statusJson, pool, clients>>

(* run() ends and calls stop(). *)
Stop ==
  /\ server = "running"
  /\ server' = "stopping"
  /\ UNCHANGED <<access, statusJson, pool, clients>>

(* A thread of the pool sees that the daemon is being stopped. *)
Leave(t) ==
  /\ server = "stopping"
  /\ thread[t] = "idle"
  /\ thread' = [thread EXCEPT ![t] = "none"]
  /\ UNCHANGED <<server, access, statusJson, request, status, clients>>

(* MHD_stop_daemon has joined the threads. *)
Stopped ==
  /\ server = "stopping"
  /\ \A t \in Threads : thread[t] = "none"
  /\ server' = "stopped"
  /\ UNCHANGED <<access, statusJson, pool, clients>>

Kill ==
  /\ EndLog
  /\ server' = "ended"
  /\ loggerMutex' = NoOne
  /\ thread' = [t \in Threads |-> "none"]
  /\ request' = [t \in Threads |-> 0]
  /\ status' = [t \in Threads |-> 0]
  /\ outcome' = [r \in Requests |->
       IF \E t \in Threads : request[t] = r THEN "cut" ELSE outcome[r]]
  /\ IF Status!InFlight THEN Status!Lose
                        ELSE UNCHANGED <<statusGiven, statusKept, statusLost>>
  /\ UNCHANGED <<entry, statusEntry, requests, earlier>>

Restart_Bug == \* the logs are opened with trunc
  /\ server = "ended"
  /\ logpc' = "idle" /\ i' = 0
  /\ Open /\ Truncate
  /\ server' = "off"
  /\ UNCHANGED <<maxSize, written, lost, interrupted>>
  /\ UNCHANGED <<loggerMutex, entry, statusJson, pool, clients>>

Restart ==
  /\ server = "ended"
  /\ RestartLog
  /\ server' = "off"
  /\ UNCHANGED <<loggerMutex, entry, statusJson, pool, clients>>

(* A reload that changes the path of another log opens this one again. *)
ReopenStreams ==
  /\ server = "running"
  /\ loggerMutex = NoOne
  /\ OpenStreams
  /\ UNCHANGED <<server, loggerMutex, entry, statusJson, pool, clients>>

----------------------------------------------------------------------------
(* handleRequest.                                                          *)

Result(q) ==
  IF ~q.get THEN 405
  ELSE IF Password /\ ~q.user THEN 401
  ELSE IF q.page = "other" THEN 404 ELSE 200

(* /uptime is answered before the place where a request is logged. *)
Logged(q) == Result(q) # 200 \/ q.page = "status"

Receive(t, q, next) ==
  /\ thread[t] = "idle"
  /\ requests < MaxRequests
  /\ requests' = requests + 1
  /\ request' = [request EXCEPT ![t] = requests']
  /\ status' = [status EXCEPT ![t] = Result(q)]
  /\ thread' = [thread EXCEPT ![t] = next]
  /\ earlier' = [earlier EXCEPT ![requests'] =
                   {r \in Requests : outcome[r] # "none"}]
  /\ UNCHANGED <<server, access, statusJson, outcome>>

Arrive(t, q) == Receive(t, q, IF Logged(q) THEN "access" ELSE "uptime")

LogAccess(t) ==
  /\ thread[t] = "access"
  /\ Lock(t)
  /\ entry' = [entry EXCEPT ![request[t]] = written']
  /\ thread' = [thread EXCEPT ![t] = "write"]
  /\ UNCHANGED <<server, statusJson, request, status, clients>>

EndAccess(t) ==
  /\ thread[t] = "write"
  /\ Unlock(t)
  /\ thread' = [thread EXCEPT ![t] = "status"]
  /\ UNCHANGED <<server, entry, statusJson, request, status, clients>>

(* StatusLogger::log, under a mutex of its own. Its stream does not fail   *)
(* here: what a failure does to a log is what it does to the access log.   *)
LogStatus(t) ==
  /\ thread[t] = "status"
  /\ Status!Give
  /\ statusEntry' = [statusEntry EXCEPT ![request[t]] = statusGiven']
  /\ thread' = [thread EXCEPT ![t] = "entry"]
  /\ UNCHANGED <<server, access, request, status, clients>>

(* Its rotation is that of LogRotation. *)
RotateStatus(t) ==
  /\ thread[t] = "entry"
  /\ Status!DropOldest
  /\ UNCHANGED <<server, access, statusEntry, pool, clients>>

EndStatus(t) ==
  /\ thread[t] = "entry"
  /\ Status!Keep
  /\ thread' = [thread EXCEPT ![t] = "reply"]
  /\ UNCHANGED <<server, access, statusEntry, request, status, clients>>

Reply_Bug(t) == \* the answer is sent before the request is logged
  /\ thread[t] \in {"status", "reply", "uptime"}
  /\ outcome' = [outcome EXCEPT ![request[t]] =
       IF status[t] = 405 THEN "closed"
       ELSE IF thread[t] = "uptime" THEN "uptime" ELSE "answered"]
  /\ \/ /\ thread[t] = "status"
        /\ UNCHANGED pool
     \/ /\ thread' = [thread EXCEPT ![t] = "idle"]
        /\ request' = [request EXCEPT ![t] = 0]
        /\ status' = [status EXCEPT ![t] = 0]
  /\ UNCHANGED <<server, access, statusJson, requests, earlier>>

(* libmicrohttpd sends the queued response when handleRequest has returned,*)
(* unless it is being stopped; MHD_NO closes the connection without one.   *)
Reply(t) ==
  /\ thread[t] \in {"reply", "uptime"}
  /\ outcome' = [outcome EXCEPT ![request[t]] =
       IF status[t] = 405 THEN "closed"
       ELSE IF thread[t] = "uptime" THEN "uptime" ELSE "answered"]
  /\ thread' = [thread EXCEPT ![t] = "idle"]
  /\ request' = [request EXCEPT ![t] = 0]
  /\ status' = [status EXCEPT ![t] = 0]
  /\ UNCHANGED <<server, access, statusJson, requests, earlier>>

----------------------------------------------------------------------------
Serve(t) ==
  \/ LogAccess(t) \/ EndAccess(t) \/ LogStatus(t) \/ EndStatus(t)
  \/ Reply(t) \/ Leave(t)

RunServer ==
  \/ BeginHeader("version", "version2") \/ EndHeader("version2", "fields")
  \/ BeginHeader("fields", "fields2") \/ EndHeader("fields2", "running")
  \/ Stopped

Next ==
  \/ Start \/ RunServer \/ Stop \/ Rotate \/ ReopenStreams
  \/ Kill \/ Restart
  \/ \E t \in Threads : Serve(t) \/ RotateStatus(t) \/ \E q \in Inputs : Arrive(t, q)

Spec == Init /\ [][Next]_vars

(* The threads are scheduled, renames and writes return, and every thread  *)
(* that waits for the mutex gets it, as lines are finitely many.           *)
FairSpec ==
  /\ Spec
  /\ WF_vars(RunServer) /\ WF_vars(Rotate)
  /\ \A t \in Threads : WF_vars(Serve(t))

----------------------------------------------------------------------------
(* Properties.                                                             *)

(* Every variable has its type, and the owner of the mutex is the thread   *)
(* that is inside Logger::write.                                           *)
TypeOK ==
  /\ LogTypeOK
  /\ server \in {"off", "version", "version2", "fields", "fields2", "running",
                 "stopping", "stopped", "failed", "ended"}
  /\ thread \in [Threads -> {"none", "idle", "access", "write", "status",
                         "entry", "reply", "uptime"}]
  /\ request \in [Threads -> 0 .. MaxRequests]
  /\ status \in [Threads -> {0, 200, 401, 404, 405}]
  /\ loggerMutex \in Threads \cup {Main, NoOne}
  /\ requests \in 0 .. MaxRequests
  /\ {entry, statusEntry} \subseteq [Requests -> Nat]
  /\ outcome \in [Requests -> {"none", "answered", "closed", "uptime", "cut"}]
  /\ Writing <=> loggerMutex # NoOne
  /\ \A t \in Threads : thread[t] = "write" <=> loggerMutex = t

Ended == {r \in Requests : outcome[r] \in {"answered", "closed"}}

(* A client that has its answer, or its connection closed, finds its entry *)
(* in both logs: in the files, unless a stream had failed, or given up for *)
(* log_retention files of newer lines that are all full, less one for each *)
(* interrupted rotation (and, when the size is negative, each failure).    *)
AnsweredIsLogged ==
  \A r \in Ended :
    /\ entry[r] \in Kept \cup lost \cup Dropped /\ entry[r] > 0
    /\ statusEntry[r] > 0
    /\ \/ statusEntry[r] \in statusKept \cup statusLost
       \/ \A n \in statusKept : statusEntry[r] < n
    /\ entry[r] \in Dropped =>
         Cardinality(FullFilesAfter(entry[r])) >= Retention - Gaps

(* Two requests of which one had ended before the other came are in that   *)
(* order in both logs, also across a restart. (Two that overlap may be in  *)
(* different orders.)                                                      *)
LogsFollowClients ==
  \A q \in Requests : \A r \in earlier[q] :
    /\ entry[q] # 0 => entry[r] < entry[q]
    /\ statusEntry[q] # 0 => statusEntry[r] < statusEntry[q]

(* Stopping the server comes to its end, with requests in every thread and *)
(* one of them in a rotation.                                              *)
StopCompletes == server = "stopping" ~> server # "stopping"
=============================================================================
