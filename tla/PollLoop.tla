------------------------------ MODULE PollLoop ------------------------------
(***************************************************************************)
(* The main loop of scastd's run() (src/src/scastd.cpp), the worker        *)
(* threads it starts (processServer) and the signals it answers.           *)
(*                                                                         *)
(* run() reloads the configuration when SIGHUP asked for it, lists the     *)
(* servers to gather with the handle db2, polls them in batches of at most *)
(* MaxThreads threads that all record through the one handle db, sleeps,   *)
(* and starts again until a signal sets exiting.                           *)
(*                                                                         *)
(* Abstractions.  A configuration is the version number of the file it was *)
(* read from; BackendOf gives the database type of each version.  The      *)
(* servers of a cycle are a set, in place of a vector in the order of the  *)
(* rows, because the query has no ORDER BY.  The answer of a polled server *)
(* is the branch processServer takes on it.  A signal handler is one step  *)
(* here; the steps inside it belong to the model of the logger.            *)
(*                                                                         *)
(* A definition whose name ends in _Bug is the one that follows it with a  *)
(* plausible mistake; no specification uses it.  It serves to show that a  *)
(* property below would notice the mistake.                                *)
(***************************************************************************)
EXTENDS Integers, FiniteSets

CONSTANTS
  Servers,          (* scastd_memberinfo.serverURL, the primary key         *)
  NoServer,         (* "no thread", where a thread is named by its server   *)
  Unresponsive,     (* servers that may accept a request and never answer   *)
  Backends,         (* the database classes                                 *)
  MaxVersion,       (* bound on the edits of the configuration file         *)
  BackendOf,        (* the database class each version asks for             *)
  ThreadKeySet,     (* is thread_count in the configuration file?           *)
  ThreadKey,        (* its value                                            *)
  HardwareThreads   (* std::thread::hardware_concurrency()                  *)

Versions == 0 .. MaxVersion

ASSUME ServersAssumption ==
  /\ IsFiniteSet(Servers)
  /\ NoServer \notin Servers
  /\ Unresponsive \subseteq Servers

ASSUME ConfigAssumption ==
  /\ MaxVersion \in Nat
  /\ BackendOf \in [Versions -> Backends]

ASSUME ThreadAssumption ==
  /\ ThreadKeySet \in BOOLEAN
  /\ ThreadKey \in Int
  /\ HardwareThreads \in Nat

threadCount == IF ThreadKeySet THEN ThreadKey ELSE HardwareThreads

MaxThreads == IF threadCount > 0 THEN threadCount ELSE 1

VARIABLES
  pc,               (* the statement run() executes next                    *)
  reloadConfig,     (* set by SIGHUP                                        *)
  exiting,          (* set by SIGTERM, SIGINT and SIGUSR2                   *)
  paused,           (* toggled by SIGUSR1                                   *)
  disk,             (* version of the configuration file                    *)
  hupVersion,       (* history: disk at the last SIGHUP                     *)
  loaded,           (* disk at the last attempt to load the file            *)
  settings,         (* version of dbType, dbUser, ... dbSSLMode             *)
  handle,           (* the database objects db and db2                      *)
  rows,             (* what is left of db2's result                         *)
  servers,          (* the vector servers                                   *)
  queue,            (* members of servers the spawning loop has to visit    *)
  workers,          (* the vector workers: threads started and not joined   *)
  st,               (* the statement each worker executes next              *)
  report,           (* the status log's entry for each server in this cycle *)
  dbMutex,          (* the worker that holds dbMutex                        *)
  cursor,           (* the worker whose SELECT result db holds              *)
  late              (* history: servers added when exiting was already set  *)

flags == <<reloadConfig, exiting, paused>>
config == <<disk, hupVersion, loaded, settings>>
cycle == <<rows, servers, queue, workers, late>>
threads == <<st, report, dbMutex, cursor>>
vars == <<pc, flags, config, handle, cycle, threads>>

----------------------------------------------------------------------------
Startup == {"start", "start2"}
Reloading == {"load", "drop", "drop2", "renew", "connect", "connect2"}
Polling == {"spawn", "join", "drain"}
Stopping == {"stop", "stop2", "done"}
MainStates == Startup \cup Reloading \cup Polling \cup Stopping \cup
              {"loop", "gate", "pausegate", "list", "rows", "fetch", "after", "sleep"}

Critical == {"select", "row", "song", "info", "log"}
Running == {"v1", "v2", "judge", "lock"} \cup Critical
WorkerStates == {"none", "returned"} \cup Running

Handles == {"db", "db2"}
Handle == [live : BOOLEAN, open : BOOLEAN, backend : Backends, version : Versions]

NewHandle(v) ==
  [live |-> TRUE, open |-> FALSE, backend |-> BackendOf[v], version |-> v]

(* The handlers are installed and both objects are new when run() reaches  *)
(* its first connect.                                                      *)
Init ==
  /\ pc = "start"
  /\ reloadConfig = FALSE /\ exiting = FALSE /\ paused = FALSE
  /\ disk = 0 /\ hupVersion = 0 /\ loaded = 0 /\ settings = 0
  /\ handle = [d \in Handles |-> NewHandle(0)]
  /\ rows = {} /\ servers = {} /\ queue = {} /\ workers = {}
  /\ st = [s \in Servers |-> "none"]
  /\ report = [s \in Servers |-> "none"]
  /\ dbMutex = NoServer /\ cursor = NoServer
  /\ late = 0

Goto(from, to) == pc = from /\ pc' = to

----------------------------------------------------------------------------
(* The environment: signals, and the administrator who edits the file.     *)

sigUSR1 ==
  /\ pc # "done"
  /\ paused' = ~paused
  /\ UNCHANGED <<pc, reloadConfig, exiting, config, handle, cycle, threads>>

(* SIGTERM, SIGINT and SIGUSR2 have handlers of the same effect. *)
sigTERM ==
  /\ pc # "done"
  /\ exiting' = TRUE
  /\ UNCHANGED <<pc, reloadConfig, paused, config, handle, cycle, threads>>

sigHUP ==
  /\ pc # "done"
  /\ reloadConfig' = TRUE
  /\ hupVersion' = disk
  /\ UNCHANGED <<pc, exiting, paused, disk, loaded, settings, handle, cycle, threads>>

EditConfig ==
  /\ pc # "done"
  /\ disk < MaxVersion
  /\ disk' = disk + 1
  /\ UNCHANGED <<pc, flags, hupVersion, loaded, settings, handle, cycle, threads>>

Environment == sigUSR1 \/ sigTERM \/ sigHUP \/ EditConfig

----------------------------------------------------------------------------
(* Starting up and reloading the configuration.                            *)

(* connect() succeeds or fails; run() looks at the result in no case. *)
Connect(d, from, to) ==
  /\ Goto(from, to)
  /\ \E ok \in BOOLEAN :
       handle' = [handle EXCEPT ![d].open = ok, ![d].version = settings]
  /\ UNCHANGED <<flags, config, cycle, threads>>

CheckReload_Bug == \* reload is looked at only while not paused
  /\ \/ /\ reloadConfig /\ ~paused
        /\ Goto("loop", "load")
        /\ reloadConfig' = FALSE
     \/ /\ ~reloadConfig \/ paused
        /\ Goto("loop", "gate")
        /\ UNCHANGED reloadConfig
  /\ UNCHANGED <<exiting, paused, config, handle, cycle, threads>>

CheckReload ==
  /\ \/ /\ reloadConfig
        /\ Goto("loop", "load")
     \/ /\ ~reloadConfig
        /\ Goto("loop", "gate")
  /\ reloadConfig' = FALSE
  /\ UNCHANGED <<exiting, paused, config, handle, cycle, threads>>

(* Load() fails when the file cannot be opened: the old settings stay. *)
LoadConfig ==
  /\ \/ Goto("load", "drop")
     \/ Goto("load", "gate")
  /\ loaded' = disk
  /\ UNCHANGED <<flags, disk, hupVersion, settings, handle, cycle, threads>>

TypeChanged == BackendOf[loaded] # BackendOf[settings]

(* disconnect() and, when the type of the database changes, delete. *)
Drop(d, from, to) ==
  /\ Goto(from, to)
  /\ handle' = [handle EXCEPT ![d].open = FALSE, ![d].live = ~TypeChanged]
  /\ UNCHANGED <<flags, config, cycle, threads>>

Renew_Bug == \* the objects that were deleted are not replaced
  /\ Goto("renew", "connect")
  /\ settings' = loaded
  /\ UNCHANGED <<flags, disk, hupVersion, loaded, handle, cycle, threads>>

Renew_Clear_Bug == \* the request is cleared once the new settings are in place
  /\ Goto("renew", "connect")
  /\ settings' = loaded
  /\ reloadConfig' = FALSE
  /\ handle' = IF TypeChanged THEN [d \in Handles |-> NewHandle(loaded)] ELSE handle
  /\ UNCHANGED <<exiting, paused, disk, hupVersion, loaded, cycle, threads>>

Renew ==
  /\ Goto("renew", "connect")
  /\ settings' = loaded
  /\ handle' = IF TypeChanged THEN [d \in Handles |-> NewHandle(loaded)] ELSE handle
  /\ UNCHANGED <<flags, disk, hupVersion, loaded, cycle, threads>>

Reconfigure ==
  \/ Connect("db", "start", "start2")
  \/ Connect("db2", "start2", "loop")
  \/ CheckReload
  \/ LoadConfig
  \/ Drop("db", "drop", "drop2")
  \/ Drop("db2", "drop2", "renew")
  \/ Renew
  \/ Connect("db", "connect", "connect2")
  \/ Connect("db2", "connect2", "gate")

----------------------------------------------------------------------------
(* One cycle of polling.                                                   *)

CheckExit ==
  /\ \/ exiting /\ Goto("gate", "stop")
     \/ ~exiting /\ Goto("gate", "pausegate")
  /\ UNCHANGED <<flags, config, handle, cycle, threads>>

CheckPaused ==
  /\ \/ paused /\ Goto("pausegate", "after")
     \/ ~paused /\ Goto("pausegate", "list")
  /\ UNCHANGED <<flags, config, handle, cycle, threads>>

(* The result of the query on db2.  A handle that is not connected, or a   *)
(* query that fails, leaves nothing to fetch.                              *)
ListServers ==
  /\ Goto("list", "rows")
  /\ rows' \in IF handle["db2"].open THEN SUBSET Servers ELSE {{}}
  /\ UNCHANGED <<flags, config, handle, servers, queue, workers, late, threads>>

(* The spawning loop goes over the servers that were fetched. *)
EndFetching(from) ==
  /\ Goto(from, "spawn")
  /\ queue' = servers
  /\ rows' = {}
  /\ UNCHANGED <<servers, workers, late>>

ContinueFetching == Goto("rows", "fetch") /\ UNCHANGED cycle

CheckFetch_Bug == \* exiting is not looked at
  ContinueFetching /\ UNCHANGED <<flags, config, handle, threads>>

(* exiting is tested before each row; a signal may still arrive between    *)
(* the test and the fetch.                                                 *)
CheckFetch ==
  /\ \/ exiting /\ EndFetching("rows")
     \/ ~exiting /\ ContinueFetching
  /\ UNCHANGED <<flags, config, handle, threads>>

FetchFrom(R) ==
  /\ Goto("fetch", "rows")
  /\ \E s \in R :
       /\ rows' = rows \ {s}
       /\ servers' = servers \cup {s}
  /\ late' = IF exiting THEN late + 1 ELSE late
  /\ UNCHANGED <<flags, config, handle, queue, workers, threads>>

FetchServer_NoRow_Bug == \* the empty row that ends a result is taken for a server
  FetchFrom(IF rows = {} THEN {NoServer} ELSE rows)

FetchServer == FetchFrom(rows)

(* The empty row that ends the result. *)
EndFetch ==
  /\ rows = {}
  /\ EndFetching("fetch")
  /\ UNCHANGED <<flags, config, handle, threads>>

StartWorker(s, limit) ==
  /\ s \in queue
  /\ queue' = queue \ {s}
  /\ workers' = workers \cup {s}
  /\ st' = [st EXCEPT ![s] = "v1"]
  /\ Goto("spawn", IF Cardinality(workers') >= limit THEN "join" ELSE "spawn")
  /\ UNCHANGED <<flags, config, handle, rows, servers, late, report, dbMutex, cursor>>

Spawn_Bug(s) == StartWorker(s, MaxThreads + 1) \* workers.size() > maxThreads

Spawn(s) == StartWorker(s, MaxThreads)

AllReturned == \A s \in workers : st[s] = "returned"

Joined == [s \in Servers |-> IF st[s] = "returned" THEN "none" ELSE st[s]]

(* workers.size() >= maxThreads: join every thread, then workers.clear(). *)
JoinBatch ==
  /\ AllReturned
  /\ Goto("join", "spawn")
  /\ workers' = {}
  /\ st' = Joined
  /\ UNCHANGED <<flags, config, handle, rows, servers, queue, late, report, dbMutex, cursor>>

EndSpawn_Bug == \* exiting drops the servers that have no thread yet
  /\ queue = {} \/ exiting
  /\ Goto("spawn", "drain")
  /\ queue' = {}
  /\ UNCHANGED <<flags, config, handle, rows, servers, workers, late, threads>>

EndSpawn ==
  /\ queue = {}
  /\ Goto("spawn", "drain")
  /\ UNCHANGED <<flags, config, handle, cycle, threads>>

EndCycle ==
  /\ Goto("drain", "after")
  /\ workers' = {}
  /\ servers' = {}
  /\ st' = Joined
  /\ report' = [s \in Servers |-> "none"]
  /\ UNCHANGED <<flags, config, handle, rows, queue, late, dbMutex, cursor>>

Drain_Bug == EndCycle \* the last batch is not joined

(* The last join, after which both vectors go out of scope. *)
Drain == AllReturned /\ EndCycle

CheckExitAgain ==
  /\ \/ exiting /\ Goto("after", "stop")
     \/ ~exiting /\ Goto("after", "sleep")
  /\ UNCHANGED <<flags, config, handle, cycle, threads>>

Sleep ==
  /\ Goto("sleep", "loop")
  /\ UNCHANGED <<flags, config, handle, cycle, threads>>

(* disconnect() and delete at the end of run(). *)
Release(d, from, to) ==
  /\ Goto(from, to)
  /\ handle' = [handle EXCEPT ![d].open = FALSE, ![d].live = FALSE]
  /\ UNCHANGED <<flags, config, cycle, threads>>

Cycle ==
  \/ CheckExit \/ CheckPaused \/ ListServers
  \/ CheckFetch \/ FetchServer \/ EndFetch
  \/ \E s \in Servers : Spawn(s)
  \/ JoinBatch \/ EndSpawn \/ Drain
  \/ CheckExitAgain \/ Sleep
  \/ Release("db", "stop", "stop2")
  \/ Release("db2", "stop2", "done")

Main == Reconfigure \/ Cycle

----------------------------------------------------------------------------
(* processServer, the body of a worker.                                    *)

Step(s, from, to) == st[s] = from /\ st' = [st EXCEPT ![s] = to]

Fail(s, from) ==
  /\ Step(s, from, "returned")
  /\ report' = [report EXCEPT ![s] = "error"]

(* The second URL is tried when the first fetch fails or its body has no   *)
(* <CURRENTLISTENERS>.                                                     *)
FetchV1(s) ==
  /\ Step(s, "v1", "judge") \/ Step(s, "v1", "v2")
  /\ UNCHANGED <<pc, flags, config, handle, cycle, report, dbMutex, cursor>>

FetchV2(s) ==
  /\ \/ Step(s, "v2", "judge") /\ UNCHANGED report
     \/ Fail(s, "v2")
  /\ UNCHANGED <<pc, flags, config, handle, cycle, dbMutex, cursor>>

(* Bad password, no document or an empty document; or a set of figures.    *)
(* (An answer without one of its figures ends the process instead; that is *)
(* in Recording.)                                                          *)
JudgeAnswer(s) ==
  /\ \/ Step(s, "judge", "lock") /\ UNCHANGED report
     \/ Fail(s, "judge")
  /\ UNCHANGED <<pc, flags, config, handle, cycle, dbMutex, cursor>>

LockDb(s) ==
  /\ dbMutex = NoServer
  /\ dbMutex' = s
  /\ Step(s, "lock", "select")
  /\ UNCHANGED <<pc, flags, config, handle, cycle, report, cursor>>

SelectSong_Bug(s) == \* dbMutex is held for the query only
  /\ Step(s, "select", "row")
  /\ cursor' \in {NoServer} \cup IF handle["db"].open THEN {s} ELSE {}
  /\ dbMutex' = NoServer
  /\ UNCHANGED <<pc, flags, config, handle, cycle, report>>

(* query() on db frees the previous result; a failed one leaves none. *)
SelectSong(s) ==
  /\ Step(s, "select", "row")
  /\ cursor' \in {NoServer} \cup IF handle["db"].open THEN {s} ELSE {}
  /\ UNCHANGED <<pc, flags, config, handle, cycle, report, dbMutex>>

(* The song is inserted unless the row holds the title that was polled. *)
FetchSong(s) ==
  /\ \/ Step(s, "row", "song")
     \/ cursor # NoServer /\ Step(s, "row", "info")
  /\ UNCHANGED <<pc, flags, config, handle, cycle, report, dbMutex, cursor>>

Insert(s, from, to) ==
  /\ Step(s, from, to)
  /\ cursor' = NoServer
  /\ UNCHANGED <<pc, flags, config, handle, cycle, report, dbMutex>>

LogOk_Bug(s) == \* dbMutex is never released
  /\ Step(s, "log", "returned")
  /\ report' = [report EXCEPT ![s] = "ok"]
  /\ UNCHANGED <<pc, flags, config, handle, cycle, dbMutex, cursor>>

(* The status entry is written before the lock_guard is destroyed. *)
LogOk(s) ==
  /\ Step(s, "log", "returned")
  /\ report' = [report EXCEPT ![s] = "ok"]
  /\ dbMutex' = NoServer
  /\ UNCHANGED <<pc, flags, config, handle, cycle, cursor>>

Network(s) == FetchV1(s) \/ FetchV2(s)

Local(s) ==
  \/ JudgeAnswer(s)
  \/ LockDb(s) \/ SelectSong(s) \/ FetchSong(s)
  \/ Insert(s, "song", "info") \/ Insert(s, "info", "log")
  \/ LogOk(s)

Next ==
  \/ Environment
  \/ Main
  \/ \E s \in Servers : Network(s) \/ Local(s)

Spec == Init /\ [][Next]_vars

(* The threads are scheduled by the operating system, sleep_for ends and   *)
(* the database answers.  A fetch ends only when the server answers:       *)
(* processServer calls fetchUrl with its default timeout, 0, which sets no *)
(* limit.                                                                  *)
Fairness ==
  /\ WF_vars(Main)
  /\ \A s \in Servers : WF_vars(Local(s))
  /\ \A s \in Servers \ Unresponsive : WF_vars(Network(s))

FairSpec == Spec /\ Fairness

----------------------------------------------------------------------------
(* Properties.                                                             *)

(* Every variable has its type; what run() has listed, queued and started  *)
(* are servers of the database, and no version is newer than the file.     *)
TypeOK ==
  /\ pc \in MainStates
  /\ <<reloadConfig, exiting, paused>> \in BOOLEAN \X BOOLEAN \X BOOLEAN
  /\ {disk, hupVersion, loaded, settings} \subseteq Versions
  /\ handle \in [Handles -> Handle]
  /\ rows \in SUBSET Servers
  /\ servers \in SUBSET Servers
  /\ queue \in SUBSET Servers
  /\ workers \in SUBSET Servers
  /\ st \in [Servers -> WorkerStates]
  /\ report \in [Servers -> {"none", "ok", "error"}]
  /\ dbMutex \in Servers \cup {NoServer}
  /\ cursor \in Servers \cup {NoServer}
  /\ late \in Nat

(* The workers hold db by reference: as long as one of them runs, the main *)
(* thread neither reconnects nor deletes it, and sees no new settings.     *)
WorkersOnLiveHandle ==
  \A s \in Servers : st[s] \in Running =>
    /\ pc \in Polling
    /\ handle["db"].live
    /\ handle["db"].version = settings

(* The row a worker is about to fetch comes from its own SELECT, though    *)
(* all the workers share one handle and its one result.                    *)
ResultOwned ==
  \A s \in Servers : st[s] = "row" => cursor \in {s, NoServer}

(* No more threads poll at a time than the configuration allows. *)
PoolBounded ==
  Cardinality({s \in Servers : st[s] \in Running}) <= MaxThreads

(* The list is read and the figures are recorded through objects of the    *)
(* class and under the settings of one and the same configuration.         *)
HandlesCurrent ==
  pc \in Polling \cup {"list", "rows", "fetch"} =>
    \A d \in Handles :
      /\ handle[d].live
      /\ handle[d].backend = BackendOf[settings]
      /\ handle[d].version = settings

(* A file that was in place when SIGHUP was caught is loaded, or will be:  *)
(* a signal that arrives while another reload runs is not swallowed by it. *)
ReloadNotLost ==
  hupVersion > loaded => reloadConfig \/ pc = "load"

(* Once exiting is set, run() polls at most one server more than those it  *)
(* has fetched: the one whose row it was about to fetch when the signal    *)
(* came, however many rows are left and in whatever cycle it is.           *)
OneServerAfterExit == late <= 1

(* The daemon is a StatsCollector: a cycle lasts from the end of the       *)
(* fetching loop to the last join, and reports each server it listed once. *)
Collector == INSTANCE StatsCollector WITH
  phase <- IF pc \in Polling THEN "collecting"
           ELSE IF pc \in Stopping THEN "stopped" ELSE "idle",
  todo <- IF pc \in Polling THEN {s \in servers : report[s] = "none"} ELSE {}

ImplementsCollector == Collector!Spec

(* ... and every cycle it begins comes to its end. *)
ImplementsFairCollector == Collector!FairSpec

(* A signal to exit ends run(), whatever it was doing. *)
ShutdownCompletes == exiting ~> pc = "done"

(* A reload that was asked for is attempted, unless the daemon exits. *)
ReloadHonoured == hupVersion > loaded ~> hupVersion <= loaded \/ exiting

----------------------------------------------------------------------------
(* The inductive invariant, part by part.                                  *)

(* Threads exist only for servers of this cycle and only inside it. *)
ThreadInv ==
  /\ workers \cup queue \subseteq servers
  /\ workers \cap queue = {}
  /\ pc \notin Polling => workers = {} /\ queue = {}
  /\ pc = "drain" => queue = {}
  /\ \A s \in Servers : st[s] # "none" <=> s \in workers

LockInv ==
  /\ \A s \in Servers : st[s] \in Critical <=> dbMutex = s
  /\ ResultOwned

PoolInv ==
  /\ Cardinality(workers) <= MaxThreads
  /\ pc = "spawn" => Cardinality(workers) < MaxThreads

(* Between the two drops of a reload an object is alive iff it is kept. *)
HandleInv ==
  /\ \A d \in Handles : handle[d].backend = BackendOf[settings]
  /\ pc # "connect" => handle["db"].version = settings
  /\ pc \notin {"connect", "connect2"} => handle["db2"].version = settings
  /\ pc \notin {"drop2", "renew"} \cup Stopping => handle["db"].live
  /\ pc \notin {"renew"} \cup Stopping => handle["db2"].live
  /\ pc = "drop2" => handle["db"].live = ~TypeChanged
  /\ pc = "renew" => \A d \in Handles : handle[d].live = ~TypeChanged

VersionInv ==
  /\ settings <= loaded
  /\ loaded <= disk
  /\ hupVersion <= disk
  /\ ReloadNotLost

(* A server can still be added after the signal only by the fetch that was *)
(* under way; once one was added that fetch is over.                       *)
LateInv ==
  /\ OneServerAfterExit
  /\ late > 0 => exiting /\ pc # "fetch"

(* A server of the cycle has no entry exactly as long as it waits for its  *)
(* thread or its thread runs.                                              *)
ReportInv ==
  /\ pc \in Polling =>
       \A s \in servers :
         report[s] = "none" <=> s \in queue \/ st[s] \in Running
  /\ pc \notin Polling => \A s \in Servers : report[s] = "none"

(* The inductive invariant of PollLoopProofs: threads belong to the cycle, *)
(* the mutex has one owner, the objects are current, no reload is lost, at *)
(* most one server is added after a signal to exit, and every server of a  *)
(* cycle is still to be reported or reported once.                         *)
Inv ==
  /\ TypeOK
  /\ ThreadInv
  /\ LockInv
  /\ PoolInv
  /\ HandleInv
  /\ VersionInv
  /\ LateInv
  /\ ReportInv
=============================================================================
