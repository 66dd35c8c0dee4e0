--------------------------- MODULE PollLoopProofs ---------------------------
(***************************************************************************)
(* Proofs that PollLoop keeps its safety properties for every set of       *)
(* servers, every thread count and every number of edits of the            *)
(* configuration file, and that it implements StatsCollector.              *)
(***************************************************************************)
EXTENDS PollLoop, FiniteSetTheorems, TLAPS

(* The size of a batch is a positive number, whatever thread_count says. *)
LEMMA MaxThreadsPositive == MaxThreads \in Nat \ {0}
BY ThreadAssumption DEF MaxThreads, threadCount

(* A newly constructed database object is one. *)
LEMMA NewHandleType == \A v \in Versions : NewHandle(v) \in Handle
BY ConfigAssumption DEF NewHandle, Handle

----------------------------------------------------------------------------
(* Type correctness.                                                       *)

(* The first state has the right types. *)
LEMMA InitTypeOK == Init => TypeOK
<1> SUFFICES ASSUME Init PROVE TypeOK
  OBVIOUS
<1>1. 0 \in Versions
  BY ConfigAssumption DEF Versions
<1>2. handle \in [Handles -> Handle]
  BY <1>1, NewHandleType DEF Init
<1> QED
  BY <1>1, <1>2 DEF Init, TypeOK, MainStates, Startup, WorkerStates

(* Every step of run(), of a worker and of the environment keeps the types. *)
LEMMA NextTypeOK == TypeOK /\ [Next]_vars => TypeOK'
<1> SUFFICES ASSUME TypeOK, [Next]_vars
             PROVE  TypeOK'
  OBVIOUS
<1> USE DEF TypeOK, flags, config, cycle, threads
<1>1. CASE Environment
  <2>1. CASE sigUSR1 \/ sigTERM \/ sigHUP
    BY <2>1 DEF sigUSR1, sigTERM, sigHUP
  <2>2. CASE EditConfig
    <3>1. disk' \in Versions
      BY <2>2, ConfigAssumption DEF EditConfig, Versions
    <3> QED
      BY <2>2, <3>1 DEF EditConfig
  <2> QED
    BY <1>1, <2>1, <2>2 DEF Environment
<1>2. ASSUME NEW d \in Handles, NEW from, NEW to \in MainStates, Connect(d, from, to)
      PROVE  TypeOK'
  <2>1. PICK ok \in BOOLEAN :
          handle' = [handle EXCEPT ![d] = [@ EXCEPT !.open = ok, !.version = settings]]
    BY <1>2 DEF Connect
  <2>2. [handle[d] EXCEPT !.open = ok, !.version = settings] \in Handle
    <3>1. handle[d] \in Handle /\ settings \in Versions
      OBVIOUS
    <3> QED
      BY ONLY <3>1, <2>1 DEF Handle
  <2>3. handle' \in [Handles -> Handle]
    BY <2>1, <2>2
  <2> QED
    BY <1>2, <2>3 DEF Connect, Goto
<1>3. ASSUME NEW d \in Handles, NEW from, NEW to \in MainStates, Drop(d, from, to)
      PROVE  TypeOK'
  BY <1>3 DEF Drop, Goto, Handle
<1>4. ASSUME NEW d \in Handles, NEW from, NEW to \in MainStates, Release(d, from, to)
      PROVE  TypeOK'
  BY <1>4 DEF Release, Goto, Handle
<1>5. CASE Renew
  <2>1. handle' \in [Handles -> Handle]
    BY <1>5, NewHandleType DEF Renew
  <2> QED
    BY <1>5, <2>1 DEF Renew, Goto, MainStates, Reloading
<1>6. CASE CheckReload \/ LoadConfig
  BY <1>6 DEF CheckReload, LoadConfig, Goto, MainStates, Reloading
<1>7. CASE CheckExit \/ CheckPaused \/ CheckExitAgain \/ Sleep \/ EndSpawn
  BY <1>7 DEF CheckExit, CheckPaused, CheckExitAgain, Sleep, EndSpawn, Goto,
              MainStates, Polling, Stopping
<1>8. CASE ListServers \/ CheckFetch \/ EndFetch
  BY <1>8 DEF ListServers, CheckFetch, ContinueFetching, EndFetch, EndFetching, Goto,
              MainStates, Polling
<1>14. CASE FetchServer
  BY <1>14 DEF FetchServer, FetchFrom, Goto, MainStates
<1>9. ASSUME NEW s \in Servers, Spawn(s)
      PROVE  TypeOK'
  BY <1>9 DEF Spawn, StartWorker, Goto, MainStates, Polling, WorkerStates, Running
<1>10. CASE JoinBatch \/ Drain
  BY <1>10 DEF JoinBatch, Drain, EndCycle, Joined, Goto, MainStates, Polling, WorkerStates
<1>11. ASSUME NEW s \in Servers, Network(s) \/ Local(s)
       PROVE  TypeOK'
  <2> USE DEF Step, WorkerStates, Running, Critical
  <2>1. CASE FetchV1(s) \/ FetchV2(s) \/ JudgeAnswer(s)
    BY <2>1 DEF FetchV1, FetchV2, JudgeAnswer, Fail
  <2>2. CASE LockDb(s) \/ SelectSong(s) \/ FetchSong(s)
    BY <2>2 DEF LockDb, SelectSong, FetchSong
  <2>3. CASE Insert(s, "song", "info") \/ Insert(s, "info", "log") \/ LogOk(s)
    BY <2>3 DEF Insert, LogOk
  <2> QED
    BY <1>11, <2>1, <2>2, <2>3 DEF Network, Local
<1>12. CASE UNCHANGED vars
  BY <1>12 DEF vars
<1> HIDE DEF TypeOK, flags, config, cycle, threads
<1>13. CASE Main
  <2>1. CASE Reconfigure
    BY <2>1, <1>2, <1>3, <1>5, <1>6
       DEF Reconfigure, Handles, MainStates, Startup, Reloading
  <2>2. CASE Cycle
    BY <2>2, <1>4, <1>7, <1>8, <1>9, <1>10, <1>14
       DEF Cycle, Handles, MainStates, Stopping
  <2> QED
    BY <1>13, <2>1, <2>2 DEF Main
<1> QED
  BY <1>1, <1>11, <1>12, <1>13 DEF Next

(* TypeOK holds in every reachable state. *)
THEOREM TypeCorrect == Spec => []TypeOK
<1>1. Init => TypeOK
  BY InitTypeOK
<1>2. TypeOK /\ [Next]_vars => TypeOK'
  BY NextTypeOK
<1> QED
  BY <1>1, <1>2, PTL DEF Spec

----------------------------------------------------------------------------
(* What the steps of run() and of the workers have in common.              *)

(* The steps of run() that are taken while it has no worker. *)
Idle ==
  \/ Reconfigure
  \/ CheckExit \/ CheckPaused \/ ListServers \/ CheckExitAgain \/ Sleep
  \/ Release("db", "stop", "stop2") \/ Release("db2", "stop2", "done")

(* Those steps are outside the polling loop and leave the threads alone. *)
LEMMA IdleStep ==
  Idle => /\ pc \notin Polling
          /\ pc' \notin Polling
          /\ UNCHANGED <<servers, queue, workers, late, st, report, dbMutex, cursor>>
<1> SUFFICES ASSUME Idle
             PROVE  /\ pc \notin Polling
                    /\ pc' \notin Polling
                    /\ UNCHANGED <<servers, queue, workers, late, st, report, dbMutex, cursor>>
  OBVIOUS
<1> USE DEF Goto, Polling, cycle, threads
<1>1. CASE Reconfigure
  BY <1>1 DEF Reconfigure, Connect, CheckReload, LoadConfig, Drop, Renew
<1>2. CASE CheckExit \/ CheckPaused \/ ListServers \/ CheckExitAgain \/ Sleep
  BY <1>2 DEF CheckExit, CheckPaused, ListServers, CheckExitAgain, Sleep
<1>3. CASE Release("db", "stop", "stop2") \/ Release("db2", "stop2", "done")
  BY <1>3 DEF Release
<1> QED
  BY <1>1, <1>2, <1>3 DEF Idle

(* The environment changes neither run()'s statement nor the threads. *)
LEMMA EnvironmentStep ==
  Environment => UNCHANGED <<pc, handle, loaded, settings, cycle, threads>>
BY DEF Environment, sigUSR1, sigTERM, sigHUP, EditConfig, config, cycle, threads

(* A worker moves only itself, from one of its statements to another. *)
LEMMA WorkerStep ==
  ASSUME NEW s \in Servers, TypeOK, Network(s) \/ Local(s)
  PROVE  /\ st[s] \in Running
         /\ \E w \in Running \cup {"returned"} : st' = [st EXCEPT ![s] = w]
         /\ UNCHANGED <<pc, flags, config, handle, cycle>>
<1> USE DEF Step, Running, Critical
<1>1. CASE FetchV1(s) \/ FetchV2(s) \/ JudgeAnswer(s)
  BY <1>1 DEF FetchV1, FetchV2, JudgeAnswer, Fail
<1>2. CASE LockDb(s) \/ SelectSong(s) \/ FetchSong(s)
  BY <1>2 DEF LockDb, SelectSong, FetchSong
<1>3. CASE Insert(s, "song", "info") \/ Insert(s, "info", "log") \/ LogOk(s)
  BY <1>3 DEF Insert, LogOk
<1> QED
  BY <1>1, <1>2, <1>3 DEF Network, Local

(* The kinds of steps, for the proofs below. *)
LEMMA StepKinds ==
  [Next]_vars =>
    \/ Environment \/ Idle \/ CheckFetch \/ FetchServer \/ EndFetch
    \/ \E s \in Servers : Spawn(s)
    \/ JoinBatch \/ EndSpawn \/ Drain
    \/ \E s \in Servers : Network(s) \/ Local(s)
    \/ UNCHANGED vars
BY DEF Next, Main, Cycle, Idle

----------------------------------------------------------------------------
(* Threads.                                                                *)

(* Threads exist only for servers of the cycle, and only during it. *)
LEMMA NextThreadInv == TypeOK /\ ThreadInv /\ [Next]_vars => ThreadInv'
<1> SUFFICES ASSUME TypeOK, ThreadInv, [Next]_vars
             PROVE  ThreadInv'
  OBVIOUS
<1> USE DEF ThreadInv
<1>1. CASE Environment
  BY <1>1, EnvironmentStep DEF cycle, threads
<1>2. CASE Idle
  BY <1>2, IdleStep DEF Polling
<1>3. CASE FetchServer
  BY <1>3 DEF FetchServer, FetchFrom, Goto, Polling, threads
<1>4. CASE CheckFetch \/ EndFetch
  BY <1>4 DEF CheckFetch, ContinueFetching, EndFetch, EndFetching, Goto, Polling, cycle, threads
<1>5. ASSUME NEW s \in Servers, Spawn(s)
      PROVE  ThreadInv'
  <2>1. st' = [st EXCEPT ![s] = "v1"] /\ workers' = workers \cup {s}
    BY <1>5 DEF Spawn, StartWorker
  <2>2. \A t \in Servers : st'[t] # "none" <=> t \in workers'
    BY <2>1 DEF TypeOK
  <2> QED
    BY <1>5, <2>2 DEF Spawn, StartWorker, Goto, Polling
<1>6. CASE JoinBatch \/ Drain
  <2>1. AllReturned /\ st' = Joined /\ workers' = {}
    BY <1>6 DEF JoinBatch, Drain, EndCycle
  <2>2. \A t \in Servers : st'[t] = "none"
    BY <2>1 DEF AllReturned, Joined
  <2> QED
    BY <1>6, <2>1, <2>2 DEF JoinBatch, Drain, EndCycle, Goto, Polling
<1>7. CASE EndSpawn
  BY <1>7 DEF EndSpawn, Goto, Polling, cycle, threads
<1>8. ASSUME NEW s \in Servers, Network(s) \/ Local(s)
      PROVE  ThreadInv'
  <2>1. PICK w \in Running \cup {"returned"} : st' = [st EXCEPT ![s] = w]
    BY <1>8, WorkerStep
  <2>2. st[s] # "none" /\ w # "none" /\ UNCHANGED <<pc, servers, queue, workers>>
    BY <1>8, <2>1, WorkerStep DEF Running, Critical, cycle
  <2> QED
    BY <2>1, <2>2 DEF TypeOK
<1>9. CASE UNCHANGED vars
  BY <1>9 DEF vars, cycle, threads
<1> QED
  BY <1>1, <1>2, <1>3, <1>4, <1>5, <1>6, <1>7, <1>8, <1>9, StepKinds

----------------------------------------------------------------------------
(* The mutex and the result of the shared handle.                          *)

(* Only the holder of dbMutex is between the lock and the end of the       *)
(* function, so no query of another worker frees the result it reads.      *)
LEMMA NextLockInv == TypeOK /\ ThreadInv /\ LockInv /\ [Next]_vars => LockInv'
<1> SUFFICES ASSUME TypeOK, ThreadInv, LockInv, [Next]_vars
             PROVE  LockInv'
  OBVIOUS
<1> USE DEF LockInv, ResultOwned
<1>1. CASE \/ Environment \/ Idle
           \/ CheckFetch \/ FetchServer \/ EndFetch \/ EndSpawn \/ UNCHANGED vars
  <2>1. UNCHANGED <<st, dbMutex, cursor>>
    BY <1>1, EnvironmentStep, IdleStep
       DEF CheckFetch, FetchServer, FetchFrom, EndFetch, EndSpawn, vars, threads
  <2> QED
    BY <2>1
<1>2. ASSUME NEW s \in Servers, Spawn(s)
      PROVE  LockInv'
  <2>1. st' = [st EXCEPT ![s] = "v1"] /\ UNCHANGED <<dbMutex, cursor>>
    BY <1>2 DEF Spawn, StartWorker
  <2>2. st[s] = "none"
    BY <1>2 DEF Spawn, StartWorker, ThreadInv
  <2> QED
    BY <2>1, <2>2 DEF TypeOK, Critical
<1>3. CASE JoinBatch \/ Drain
  <2>1. st' = Joined /\ UNCHANGED <<dbMutex, cursor>>
    BY <1>3 DEF JoinBatch, Drain, EndCycle
  <2>2. \A t \in Servers : st'[t] = st[t] \/ (st[t] = "returned" /\ st'[t] = "none")
    BY <2>1 DEF Joined
  <2> QED
    BY <2>1, <2>2 DEF Critical
<1>4. ASSUME NEW s \in Servers, Network(s) \/ Local(s)
      PROVE  LockInv'
  <2> USE DEF Step, Critical, TypeOK
  <2>1. CASE FetchV1(s) \/ FetchV2(s) \/ JudgeAnswer(s)
    BY <2>1 DEF FetchV1, FetchV2, JudgeAnswer, Fail
  <2>2. CASE LockDb(s)
    BY <2>2, ServersAssumption DEF LockDb
  <2>3. CASE SelectSong(s)
    <3>1. cursor' \in {s, NoServer}
      BY <2>3 DEF SelectSong
    <3>2. dbMutex = s
      BY <2>3 DEF SelectSong
    <3>3. \A t \in Servers : st'[t] = "row" => t = s
      BY <2>3, <3>2 DEF SelectSong
    <3> QED
      BY <2>3, <3>1, <3>3 DEF SelectSong
  <2>4. CASE FetchSong(s)
    BY <2>4 DEF FetchSong
  <2>5. CASE Insert(s, "song", "info") \/ Insert(s, "info", "log")
    BY <2>5 DEF Insert
  <2>6. CASE LogOk(s)
    BY <2>6, ServersAssumption DEF LogOk
  <2> QED
    BY <1>4, <2>1, <2>2, <2>3, <2>4, <2>5, <2>6 DEF Network, Local
<1> QED
  BY <1>1, <1>2, <1>3, <1>4, StepKinds

----------------------------------------------------------------------------
(* The size of a batch.                                                    *)

(* A batch is joined before it can outgrow the number of threads. *)
LEMMA NextPoolInv == TypeOK /\ ThreadInv /\ PoolInv /\ [Next]_vars => PoolInv'
<1> SUFFICES ASSUME TypeOK, ThreadInv, PoolInv, [Next]_vars
             PROVE  PoolInv'
  OBVIOUS
<1> USE DEF PoolInv
<1>1. IsFiniteSet(workers) /\ Cardinality(workers) \in Nat
  BY ServersAssumption, FS_Subset, FS_CardinalityType DEF TypeOK
<1>2. Cardinality({}) = 0
  BY FS_EmptySet
<1>3. CASE Environment \/ UNCHANGED vars
  BY <1>3, EnvironmentStep DEF vars, cycle
<1>4. CASE Idle \/ FetchServer \/ EndSpawn
  BY <1>4, IdleStep DEF FetchServer, FetchFrom, EndSpawn, Goto, Polling, cycle
<1>5. CASE CheckFetch \/ EndFetch
  BY <1>2, <1>5, MaxThreadsPositive
     DEF CheckFetch, ContinueFetching, EndFetch, EndFetching, Goto, Polling, ThreadInv, cycle
<1>6. ASSUME NEW s \in Servers, Spawn(s)
      PROVE  PoolInv'
  <2>1. Cardinality(workers \cup {s}) = Cardinality(workers) + 1
    BY <1>1, <1>6, FS_AddElement DEF Spawn, StartWorker, ThreadInv
  <2> QED
    BY <1>1, <1>6, <2>1, MaxThreadsPositive DEF Spawn, StartWorker, Goto
<1>7. CASE JoinBatch \/ Drain
  BY <1>2, <1>7, MaxThreadsPositive DEF JoinBatch, Drain, EndCycle, Goto
<1>8. ASSUME NEW s \in Servers, Network(s) \/ Local(s)
      PROVE  PoolInv'
  BY <1>8, WorkerStep DEF cycle
<1> QED
  BY <1>3, <1>4, <1>5, <1>6, <1>7, <1>8, StepKinds

----------------------------------------------------------------------------
(* The database objects.                                                   *)

(* Both objects are of the class of the settings, connected under them,    *)
(* and deleted only to be replaced or at the end of run().                 *)
LEMMA NextHandleInv == TypeOK /\ HandleInv /\ [Next]_vars => HandleInv'
<1> SUFFICES ASSUME TypeOK, HandleInv, [Next]_vars
             PROVE  HandleInv'
  OBVIOUS
<1> USE DEF HandleInv, Handles, Stopping, TypeChanged
<1>1. CASE Environment \/ UNCHANGED vars
  BY <1>1, EnvironmentStep DEF vars, config
<1>2. ASSUME UNCHANGED <<handle, settings>>,
             pc \notin {"connect", "connect2", "drop2", "renew"} \cup Stopping,
             pc' \notin {"drop2", "renew"}
      PROVE  HandleInv'
  BY <1>2
<1>3. CASE CheckFetch \/ FetchServer \/ EndFetch \/ EndSpawn \/ JoinBatch \/ Drain
           \/ CheckReload \/ LoadConfig \/ CheckExit \/ CheckPaused \/ ListServers
           \/ CheckExitAgain \/ Sleep
  <2>1. CASE CheckFetch \/ FetchServer \/ EndFetch \/ EndSpawn \/ JoinBatch \/ Drain
    BY <1>2, <2>1 DEF CheckFetch, ContinueFetching, FetchServer, FetchFrom, EndFetch,
                      EndFetching, EndSpawn, JoinBatch, Drain, EndCycle, Goto, config
  <2>2. CASE CheckReload \/ LoadConfig
    BY <1>2, <2>2 DEF CheckReload, LoadConfig, Goto, config
  <2>3. CASE CheckExit \/ CheckPaused \/ ListServers \/ CheckExitAgain \/ Sleep
    BY <1>2, <2>3 DEF CheckExit, CheckPaused, ListServers, CheckExitAgain, Sleep, Goto, config
  <2> QED
    BY <1>3, <2>1, <2>2, <2>3
<1>4. ASSUME NEW s \in Servers, Spawn(s)
      PROVE  HandleInv'
  BY <1>2, <1>4 DEF Spawn, StartWorker, Goto, config
<1>5. ASSUME NEW s \in Servers, Network(s) \/ Local(s)
      PROVE  HandleInv'
  BY <1>5, WorkerStep DEF config
<1>6. CASE \/ Connect("db", "start", "start2") \/ Connect("db2", "start2", "loop")
           \/ Connect("db", "connect", "connect2") \/ Connect("db2", "connect2", "gate")
  <2>1. ASSUME NEW d \in Handles, NEW from, NEW to, Connect(d, from, to)
        PROVE  /\ handle'[d].version = settings
               /\ handle'[d].live = handle[d].live
               /\ handle'[d].backend = handle[d].backend
               /\ \A e \in Handles \ {d} : handle'[e] = handle[e]
               /\ UNCHANGED <<loaded, settings>>
               /\ pc = from /\ pc' = to
    BY <2>1 DEF Connect, TypeOK, Handle, Goto, config
  <2> QED
    BY <1>6, <2>1
<1>7. CASE Drop("db", "drop", "drop2") \/ Drop("db2", "drop2", "renew")
  BY <1>7 DEF Drop, TypeOK, Handle, Goto, config
<1>8. CASE Renew
  BY <1>8 DEF Renew, NewHandle, Goto
<1>9. CASE Release("db", "stop", "stop2") \/ Release("db2", "stop2", "done")
  BY <1>9 DEF Release, TypeOK, Handle, Goto, config
<1> QED
  BY <1>1, <1>3, <1>4, <1>5, <1>6, <1>7, <1>8, <1>9, StepKinds DEF Idle, Reconfigure

----------------------------------------------------------------------------
(* The versions of the configuration.                                      *)

(* The flag set by SIGHUP is cleared before the file is read, so a request *)
(* stays pending until a later file than the one it is about was read.     *)
LEMMA NextVersionInv == TypeOK /\ VersionInv /\ [Next]_vars => VersionInv'
<1> SUFFICES ASSUME TypeOK, VersionInv, [Next]_vars
             PROVE  VersionInv'
  OBVIOUS
<1> USE DEF VersionInv, ReloadNotLost
<1>1. {disk, hupVersion, loaded, settings} \subseteq Int
  BY ConfigAssumption DEF TypeOK, Versions
<1>2. CASE Environment
  BY <1>1, <1>2 DEF Environment, sigUSR1, sigTERM, sigHUP, EditConfig, flags, config
<1>3. ASSUME UNCHANGED <<reloadConfig, config>>, pc # "load"
      PROVE  VersionInv'
  BY <1>3 DEF config
<1>4. CASE CheckReload
  BY <1>4 DEF CheckReload, Goto, config
<1>5. CASE LoadConfig
  BY <1>1, <1>5 DEF LoadConfig, Goto, flags
<1>6. CASE Renew
  BY <1>1, <1>6 DEF Renew, Goto, flags
<1>7. CASE CheckExit \/ CheckPaused \/ ListServers \/ CheckFetch \/ FetchServer \/ EndFetch
  BY <1>3, <1>7 DEF CheckExit, CheckPaused, ListServers, CheckFetch, ContinueFetching,
                    FetchServer, FetchFrom, EndFetch, EndFetching, Goto, flags
<1>8. CASE JoinBatch \/ EndSpawn \/ Drain \/ CheckExitAgain \/ Sleep
  BY <1>3, <1>8 DEF JoinBatch, EndSpawn, Drain, EndCycle, CheckExitAgain, Sleep, Goto, flags
<1>9. ASSUME NEW s \in Servers, Spawn(s)
      PROVE  VersionInv'
  BY <1>3, <1>9 DEF Spawn, StartWorker, Goto, flags
<1>10. ASSUME NEW d, NEW from \in MainStates \ {"load"}, NEW to,
              Connect(d, from, to) \/ Drop(d, from, to) \/ Release(d, from, to)
       PROVE  VersionInv'
  BY <1>3, <1>10 DEF Connect, Drop, Release, Goto, flags
<1>11. ASSUME NEW s \in Servers, Network(s) \/ Local(s)
       PROVE  VersionInv'
  BY <1>11, WorkerStep DEF flags, config
<1>12. CASE UNCHANGED vars
  BY <1>12 DEF vars, flags, config
<1>13. CASE Idle
  <2> USE DEF MainStates, Startup, Reloading, Stopping
  <2>1. CASE Reconfigure
    BY <2>1, <1>4, <1>5, <1>6, <1>10 DEF Reconfigure
  <2>2. CASE Release("db", "stop", "stop2") \/ Release("db2", "stop2", "done")
    BY <2>2, <1>10
  <2> QED
    BY <1>13, <2>1, <2>2, <1>7, <1>8 DEF Idle
<1> QED
  BY <1>2, <1>7, <1>8, <1>9, <1>11, <1>12, <1>13, StepKinds

----------------------------------------------------------------------------
(* A signal to exit while the servers are fetched.                         *)

(* The test of exiting before each row keeps run() from a second fetch     *)
(* after the signal, and a cycle that starts later from the first.         *)
LEMMA NextLateInv == TypeOK /\ LateInv /\ [Next]_vars => LateInv'
<1> SUFFICES ASSUME TypeOK, LateInv, [Next]_vars
             PROVE  LateInv'
  OBVIOUS
<1> USE DEF LateInv, OneServerAfterExit
<1>1. CASE Environment \/ UNCHANGED vars
  BY <1>1 DEF Environment, sigUSR1, sigTERM, sigHUP, EditConfig, vars, flags, cycle
<1>2. ASSUME UNCHANGED <<exiting, late>>, pc' # "fetch" \/ pc' = pc
      PROVE  LateInv'
  BY <1>2
<1>3. CASE Idle
  <2> USE DEF Goto, flags, cycle
  <2>1. CASE Reconfigure
    BY <1>2, <2>1 DEF Reconfigure, Connect, CheckReload, LoadConfig, Drop, Renew
  <2>2. CASE CheckExit \/ CheckPaused \/ ListServers \/ CheckExitAgain \/ Sleep
    BY <1>2, <2>2 DEF CheckExit, CheckPaused, ListServers, CheckExitAgain, Sleep
  <2>3. CASE Release("db", "stop", "stop2") \/ Release("db2", "stop2", "done")
    BY <1>2, <2>3 DEF Release
  <2> QED
    BY <1>3, <2>1, <2>2, <2>3 DEF Idle
<1>4. CASE CheckFetch
  BY <1>4 DEF CheckFetch, ContinueFetching, EndFetching, Goto, flags, cycle, TypeOK
<1>5. CASE FetchServer
  BY <1>5 DEF FetchServer, FetchFrom, Goto, flags, TypeOK
<1>6. CASE EndFetch \/ JoinBatch \/ EndSpawn \/ Drain
  BY <1>2, <1>6 DEF EndFetch, EndFetching, JoinBatch, EndSpawn, Drain, EndCycle, Goto,
                    flags, cycle
<1>7. ASSUME NEW s \in Servers, Spawn(s)
      PROVE  LateInv'
  BY <1>2, <1>7 DEF Spawn, StartWorker, Goto, flags
<1>8. ASSUME NEW s \in Servers, Network(s) \/ Local(s)
      PROVE  LateInv'
  BY <1>2, <1>8, WorkerStep DEF flags, cycle
<1> QED
  BY <1>1, <1>3, <1>4, <1>5, <1>6, <1>7, <1>8, StepKinds

----------------------------------------------------------------------------
(* The entries of the status log.                                          *)

(* In a cycle, the servers without an entry are those that wait for their  *)
(* thread or are being polled.                                             *)
LEMMA NextReportInv == TypeOK /\ ThreadInv /\ ReportInv /\ [Next]_vars => ReportInv'
<1> SUFFICES ASSUME TypeOK, ThreadInv, ReportInv, [Next]_vars
             PROVE  ReportInv'
  OBVIOUS
<1> USE DEF ReportInv
<1>1. CASE Environment \/ UNCHANGED vars
  BY <1>1, EnvironmentStep DEF vars, cycle, threads
<1>2. CASE Idle
  BY <1>2, IdleStep
<1>3. CASE CheckFetch \/ FetchServer \/ EndFetch
  BY <1>3 DEF CheckFetch, ContinueFetching, FetchServer, FetchFrom, EndFetch, EndFetching,
              Goto, Polling, TypeOK, cycle, threads
<1>4. ASSUME NEW s \in Servers, Spawn(s)
      PROVE  ReportInv'
  <2>1. /\ pc \in Polling /\ pc' \in Polling
        /\ s \in queue /\ queue' = queue \ {s}
        /\ st' = [st EXCEPT ![s] = "v1"]
        /\ UNCHANGED <<servers, report>>
    BY <1>4 DEF Spawn, StartWorker, Goto, Polling
  <2>2. "v1" \in Running
    BY DEF Running
  <2> QED
    BY <2>1, <2>2 DEF TypeOK
<1>5. CASE JoinBatch
  <2>1. \A t \in Servers : (st'[t] \in Running) = (st[t] \in Running)
    BY <1>5 DEF JoinBatch, Joined, Running, Critical
  <2> QED
    BY <1>5, <2>1 DEF JoinBatch, Goto, Polling, TypeOK
<1>6. CASE EndSpawn
  BY <1>6 DEF EndSpawn, Goto, Polling, cycle, threads
<1>7. CASE Drain
  BY <1>7 DEF Drain, EndCycle, Goto, Polling
<1>8. ASSUME NEW s \in Servers, Network(s) \/ Local(s)
      PROVE  ReportInv'
  <2>1. /\ st[s] \in Running
        /\ UNCHANGED <<pc, servers, queue>>
    BY <1>8, WorkerStep DEF cycle
  <2>2. s \in workers /\ s \notin queue /\ pc \in Polling
    BY <2>1 DEF ThreadInv, Running, Critical
  <2>3. \/ (\E w \in Running : st' = [st EXCEPT ![s] = w]) /\ UNCHANGED report
        \/ \E r \in {"ok", "error"} : /\ st' = [st EXCEPT ![s] = "returned"]
                                      /\ report' = [report EXCEPT ![s] = r]
    <3> USE DEF Step, Running, Critical
    <3>1. CASE FetchV1(s) \/ FetchV2(s) \/ JudgeAnswer(s)
      BY <3>1 DEF FetchV1, FetchV2, JudgeAnswer, Fail
    <3>2. CASE LockDb(s) \/ SelectSong(s) \/ FetchSong(s)
      BY <3>2 DEF LockDb, SelectSong, FetchSong
    <3>3. CASE Insert(s, "song", "info") \/ Insert(s, "info", "log") \/ LogOk(s)
      BY <3>3 DEF Insert, LogOk
    <3> QED
      BY <1>8, <3>1, <3>2, <3>3 DEF Network, Local
  <2>4. "returned" \notin Running
    BY DEF Running, Critical
  <2> QED
    BY <2>1, <2>2, <2>3, <2>4 DEF TypeOK
<1> QED
  BY <1>1, <1>2, <1>3, <1>4, <1>5, <1>6, <1>7, <1>8, StepKinds

----------------------------------------------------------------------------
(* The inductive invariant and the safety properties it implies.           *)

(* The first state satisfies the inductive invariant. *)
LEMMA InitInv == Init => Inv
<1> SUFFICES ASSUME Init PROVE Inv
  OBVIOUS
<1>1. ThreadInv
  BY DEF Init, ThreadInv, Polling
<1>2. LockInv
  BY ServersAssumption DEF Init, LockInv, ResultOwned, Critical
<1>3. PoolInv
  BY FS_EmptySet, MaxThreadsPositive DEF Init, PoolInv
<1>4. HandleInv
  BY DEF Init, HandleInv, Handles, NewHandle, Stopping
<1>5. VersionInv
  BY DEF Init, VersionInv, ReloadNotLost
<1>6. ReportInv
  BY DEF Init, ReportInv, Polling
<1>7. LateInv
  BY DEF Init, LateInv, OneServerAfterExit
<1> QED
  BY InitTypeOK, <1>1, <1>2, <1>3, <1>4, <1>5, <1>6, <1>7 DEF Inv

(* The inductive invariant holds in every reachable state. *)
THEOREM Invariance == Spec => []Inv
<1>1. Inv /\ [Next]_vars => Inv'
  BY NextTypeOK, NextThreadInv, NextLockInv, NextPoolInv, NextHandleInv,
     NextVersionInv, NextLateInv, NextReportInv DEF Inv
<1> QED
  BY InitInv, <1>1, PTL DEF Spec

(* No worker ever runs while db is being deleted, replaced or reconnected, *)
(* or the settings change under it.                                        *)
THEOREM WorkersAreOnLiveHandle == Spec => []WorkersOnLiveHandle
<1>1. Inv => WorkersOnLiveHandle
  BY DEF Inv, ThreadInv, HandleInv, WorkersOnLiveHandle, Running, Critical, Polling, Stopping
<1> QED
  BY Invariance, <1>1, PTL

(* A worker never fetches from the result of another worker's SELECT. *)
THEOREM ResultIsOwned == Spec => []ResultOwned
<1>1. Inv => ResultOwned
  BY DEF Inv, LockInv
<1> QED
  BY Invariance, <1>1, PTL

(* The number of threads that poll is bounded by thread_count, or by one. *)
THEOREM PoolIsBounded == Spec => []PoolBounded
<1>1. ASSUME Inv PROVE PoolBounded
  <2> DEFINE R == {s \in Servers : st[s] \in Running}
  <2>1. R \subseteq workers /\ IsFiniteSet(workers)
    BY <1>1, ServersAssumption, FS_Subset DEF Inv, TypeOK, ThreadInv, Running, Critical
  <2>2. /\ Cardinality(R) <= Cardinality(workers)
        /\ Cardinality(R) \in Nat /\ Cardinality(workers) \in Nat
    BY <2>1, FS_Subset, FS_CardinalityType
  <2> QED
    BY <1>1, <2>2, MaxThreadsPositive DEF Inv, PoolInv, PoolBounded
<1> QED
  BY Invariance, <1>1, PTL

(* In a cycle, both handles belong to one and the same configuration. *)
THEOREM HandlesAreCurrent == Spec => []HandlesCurrent
<1>1. Inv => HandlesCurrent
  BY DEF Inv, HandleInv, HandlesCurrent, Handles, Polling, Stopping
<1> QED
  BY Invariance, <1>1, PTL

(* No SIGHUP is lost, however many arrive and whenever they do. *)
THEOREM NoReloadIsLost == Spec => []ReloadNotLost
<1>1. Inv => ReloadNotLost
  BY DEF Inv, VersionInv
<1> QED
  BY Invariance, <1>1, PTL

(* At most one server is added to a cycle once exiting is set. *)
THEOREM ExitAddsOneServer == Spec => []OneServerAfterExit
<1>1. Inv => OneServerAfterExit
  BY DEF Inv, LateInv
<1> QED
  BY Invariance, <1>1, PTL

----------------------------------------------------------------------------
(* PollLoop implements StatsCollector.                                     *)

phaseBar == IF pc \in Polling THEN "collecting"
            ELSE IF pc \in Stopping THEN "stopped" ELSE "idle"

todoBar == IF pc \in Polling THEN {s \in servers : report[s] = "none"} ELSE {}

(* The first state is one in which the collector is idle. *)
LEMMA InitRefines == Init => Collector!Init
<1> SUFFICES ASSUME Init PROVE Collector!Init
  OBVIOUS
<1>1. pc \notin Polling /\ pc \notin Stopping
  BY DEF Init, Polling, Stopping
<1>2. settings \in Versions
  BY InitTypeOK DEF TypeOK
<1> QED
  BY <1>1, <1>2 DEF Collector!Init

(* Every step is a step of the collector or leaves it as it is. *)
LEMMA NextRefines == Inv /\ [Next]_vars => [Collector!Next]_(Collector!vars)
<1> SUFFICES ASSUME Inv, [Next]_vars
             PROVE  Collector!Next \/ UNCHANGED <<phaseBar, todoBar, settings>>
  BY DEF Collector!vars, phaseBar, todoBar
<1> USE DEF Inv
<1>1. CASE Environment \/ UNCHANGED vars
  BY <1>1, EnvironmentStep DEF phaseBar, todoBar, vars, config, cycle, threads
<1>2. ASSUME pc \notin Polling, pc' \notin Polling,
             (pc' \in Stopping) = (pc \in Stopping), UNCHANGED settings
      PROVE  UNCHANGED <<phaseBar, todoBar, settings>>
  BY <1>2 DEF phaseBar, todoBar
<1>3. CASE Reconfigure
  <2>1. pc \notin Polling /\ pc' \notin Polling
    BY <1>3, IdleStep DEF Idle
  <2>2. pc \notin Stopping /\ pc' \notin Stopping
    BY <1>3 DEF Reconfigure, Connect, CheckReload, LoadConfig, Drop, Renew, Goto, Stopping
  <2>3. CASE Renew
    <3>1. settings' = loaded /\ loaded \in Versions /\ loaded >= settings
      BY <2>3 DEF Renew, TypeOK, VersionInv
    <3> QED
      BY <2>1, <2>2, <3>1 DEF Collector!Next, Collector!Reconfigure
  <2>4. CASE ~Renew
    BY <1>2, <1>3, <2>1, <2>2, <2>4
       DEF Reconfigure, Connect, CheckReload, LoadConfig, Drop, config
  <2> QED
    BY <2>3, <2>4
<1>4. CASE CheckExit \/ CheckExitAgain
  <2>1. pc \notin Polling /\ pc' \notin Polling /\ pc \notin Stopping /\ UNCHANGED settings
    BY <1>4 DEF CheckExit, CheckExitAgain, Goto, Polling, Stopping, config
  <2>2. CASE pc' \in Stopping
    BY <2>1, <2>2 DEF Collector!Next, Collector!Stop
  <2> QED
    BY <1>2, <2>1, <2>2
<1>5. CASE CheckPaused \/ ListServers \/ Sleep \/ FetchServer
  BY <1>2, <1>5 DEF CheckPaused, ListServers, Sleep, FetchServer, FetchFrom, Goto,
                    Polling, Stopping, config
<1>6. CASE Release("db", "stop", "stop2") \/ Release("db2", "stop2", "done")
  BY <1>2, <1>6 DEF Release, Goto, Polling, Stopping, config
<1>13. CASE CheckFetch /\ pc' = "fetch"
  BY <1>2, <1>13 DEF CheckFetch, Goto, ContinueFetching, EndFetching, Polling, Stopping, config
<1>7. CASE EndFetch \/ (CheckFetch /\ pc' # "fetch")
  <2>1. /\ pc \notin Polling /\ pc \notin Stopping /\ pc' \in Polling
        /\ UNCHANGED <<servers, report, settings>>
    BY <1>7 DEF CheckFetch, ContinueFetching, EndFetch, EndFetching, Goto, Polling, Stopping, config, threads
  <2>2. {s \in servers : report[s] = "none"} \in SUBSET Servers
    BY DEF TypeOK
  <2> QED
    BY <2>1, <2>2 DEF Collector!Next, Collector!Begin
<1>8. ASSUME pc \in Polling, pc' \in Polling, UNCHANGED <<servers, report, settings>>
      PROVE  UNCHANGED <<phaseBar, todoBar, settings>>
  BY <1>8 DEF phaseBar, todoBar
<1>9. CASE JoinBatch \/ EndSpawn
  BY <1>8, <1>9 DEF JoinBatch, EndSpawn, Goto, Polling, config, cycle, threads
<1>10. ASSUME NEW s \in Servers, Spawn(s)
       PROVE  UNCHANGED <<phaseBar, todoBar, settings>>
  BY <1>8, <1>10 DEF Spawn, StartWorker, Goto, Polling, config
<1>11. CASE Drain
  <2>1. /\ pc = "drain" /\ pc' = "after" /\ UNCHANGED settings
        /\ AllReturned
    BY <1>11 DEF Drain, EndCycle, Goto, config
  <2>2. \A s \in servers : s \notin queue /\ st[s] \notin Running
    BY <2>1 DEF ThreadInv, AllReturned, TypeOK, Running, Critical
  <2>3. {s \in servers : report[s] = "none"} = {}
    BY <2>1, <2>2 DEF ReportInv, Polling
  <2> QED
    BY <2>1, <2>3 DEF Collector!Next, Collector!End, Polling, Stopping
<1>12. ASSUME NEW s \in Servers, Network(s) \/ Local(s)
       PROVE  Collector!Next \/ UNCHANGED <<phaseBar, todoBar, settings>>
  <2>1. /\ st[s] \in Running
        /\ UNCHANGED <<pc, servers, settings>>
    BY <1>12, WorkerStep DEF config, cycle
  <2>2. /\ s \in servers /\ pc \in Polling /\ report[s] = "none"
        /\ report \in [Servers -> {"none", "ok", "error"}]
    BY <2>1 DEF ThreadInv, ReportInv, TypeOK, Running, Critical
  <2>3. \/ UNCHANGED report
        \/ \E r \in {"ok", "error"} : report' = [report EXCEPT ![s] = r]
    BY <1>12 DEF Network, FetchV1, FetchV2, Local, JudgeAnswer, LockDb, SelectSong,
                 FetchSong, Insert, LogOk, Fail
  <2>4. CASE UNCHANGED report
    BY <1>8, <2>1, <2>2, <2>4
  <2>5. ASSUME NEW r \in {"ok", "error"}, report' = [report EXCEPT ![s] = r]
        PROVE  Collector!Report(s)
    <3>1. {t \in servers : report'[t] = "none"}
            = {t \in servers : report[t] = "none"} \ {s}
      BY <2>2, <2>5 DEF TypeOK
    <3> QED
      BY <2>1, <2>2, <3>1 DEF Collector!Report
  <2> QED
    BY <2>3, <2>4, <2>5 DEF Collector!Next
<1> QED
  BY <1>1, <1>3, <1>4, <1>5, <1>6, <1>7, <1>9, <1>10, <1>11, <1>12, <1>13, StepKinds DEF Idle

(* The daemon's cycles are those of the collector: each listed server is   *)
(* reported once, and settings and life end only between cycles.           *)
THEOREM Implementation == Spec => ImplementsCollector
<1> QED
  BY InitRefines, NextRefines, Invariance, PTL
     DEF Spec, ImplementsCollector, Collector!Spec
=============================================================================
