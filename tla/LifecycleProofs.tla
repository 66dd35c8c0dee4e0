-------------------------- MODULE LifecycleProofs --------------------------
(***************************************************************************)
(* Proofs about Lifecycle, for every number of tables, of faults and of    *)
(* processes: what a process does to the database file is SchemaSetup,     *)
(* whom the PID file names, what a signal meets, and that no start drops a *)
(* table.  Each part of the invariant has a lemma with one step per action.*)
(***************************************************************************)
EXTENDS Lifecycle, SchemaSetupProofs

(* Where a script is to be run, and where it is running. *)
PhaseInv ==
  /\ pc \notin {"leave", "term", "hup", "connect", "connect2", "setup", "script", "hung"}
       => pending = FALSE
  /\ pc \notin {"connect2", "setup", "script", "hung"} => next = 0

(* A script that was not asked for finds a file that was not there, so the *)
(* tables in it are those it has made.                                     *)
ScriptInv ==
  pending = TRUE /\ cmd # "setupdb" => \A t \in tables : 2 * t < next

(* The PID file is written by daemons, after their last fork but that of   *)
(* the HTTP server.                                                        *)
PidInv ==
  /\ pc \in {"detach", "pid"} => cmd = "daemon" /\ ~named
  /\ pc = "leave" => cmd = "foreground"
  /\ pc = "serve" => env.http
  /\ Alive /\ named => cmd = "daemon"
  /\ Alive /\ named /\ (env.http => env.stay) => pidFile = "self"
  /\ At("off") /\ cmd = "daemon" /\ ended = "returned" => pidFile = "none"

(* run() has replaced the handlers before it connects. *)
HandlerInv ==
  /\ Running /\ pc \in {"hup", "connect", "connect2", "setup", "script", "loop"} => term = "sigTERM"
  /\ Running /\ pc \in {"connect", "connect2", "setup", "script", "loop"} => hup = "sigHUP"

LifeInv == SchemaInv /\ PhaseInv /\ ScriptInv /\ PidInv /\ HandlerInv

(* The actions of TablesSurviveStarts and SignalsAreRequests. *)
TablesSurvive == tables \subseteq tables' \/ cmd = "setupdb" \/ ~created'

SignalIsRequest ==
  Running /\ pc \in {"connect", "connect2", "setup", "script", "loop"} /\ At("off")'
    => ended' = "killed"

(* Whom the PID file names survives every step. *)
LEMMA PidStep ==
  ASSUME PidInv, [Next]_vars
  PROVE  PidInv'
PROOF
  <1> USE DEF PidInv, Running, Alive, At, Goto, End, Quiet, run, flags, handlers
  <1>1. CASE StartTest
    BY <1>1 DEF StartTest, Start
  <1>2. CASE StartSetup
    BY <1>2 DEF StartSetup, Start
  <1>3. CASE StartForeground
    BY <1>3 DEF StartForeground, Start
  <1>4. CASE StartDaemon
    BY <1>4 DEF StartDaemon, Start
  <1>5. CASE Detach
    <2>1. CASE Child /\ Goto("pid") /\ Quiet
      BY <1>5, <2>1 DEF Detach
    <2>2. CASE End("failed")
      BY <1>5, <2>2 DEF Detach
    <2> QED
      BY <1>5, <2>1, <2>2, Zenon DEF Detach
  <1>6. CASE WritePid
    BY <1>6 DEF WritePid, ForkFails
  <1>7. CASE Load
    BY <1>7 DEF Load
  <1>8. CASE Serve
    BY <1>8 DEF Serve, Child, ForkFails
  <1>9. CASE Bind
    BY <1>9 DEF Bind, ForkFails
  <1>10. CASE Listen
    BY <1>10 DEF Listen, ForkFails
  <1>11. CASE Look
    BY <1>11 DEF Look
  <1>12. CASE LeaveConsole
    <2>1. CASE Child /\ Goto("term") /\ Quiet
      BY <1>12, <2>1 DEF LeaveConsole
    <2>2. CASE End("failed")
      BY <1>12, <2>2 DEF LeaveConsole
    <2> QED
      BY <1>12, <2>1, <2>2, Zenon DEF LeaveConsole
  <1>13. CASE InstallTerm
    BY <1>13 DEF InstallTerm
  <1>14. CASE InstallHup
    BY <1>14 DEF InstallHup
  <1>15. CASE Connect
    BY <1>15 DEF Connect
  <1>16. CASE FindScript
    BY <1>16 DEF FindScript, Return
  <1>17. CASE RunStatement
    BY <1>17 DEF RunStatement, Return
  <1>18. CASE Reload
    BY <1>18 DEF Reload
  <1>19. CASE Leave
    BY <1>19 DEF Leave
  <1>20. CASE StopServer
    <2>1. CASE Goto("remove") /\ Quiet /\ UNCHANGED pidFile
      BY <1>20, <2>1 DEF StopServer
    <2>2. CASE Hang
      BY <1>20, <2>2 DEF StopServer, Hang
    <2> QED
      BY <1>20, <2>1, <2>2, Zenon DEF StopServer
  <1>21. CASE RemovePid
    BY <1>21 DEF RemovePid, LeaveMain, KeepPid
  <1>22. CASE Term
    <2>1. CASE End("signal") \/ End("handle_signal")
      BY <1>22, <2>1 DEF Term
    <2>2. CASE Hang
      BY <1>22, <2>2 DEF Hang, Term
    <2>3. CASE UNCHANGED <<env, run, pc, pidFile, named, ended>>
      BY <2>3
    <2> QED
      BY <1>22, <2>1, <2>2, <2>3, Zenon DEF Term
  <1>23. CASE Hup
    BY <1>23 DEF Hup
  <1>24. CASE Kill
    BY <1>24 DEF Kill
  <1>25. CASE RemoveDatabase
    BY <1>25 DEF RemoveDatabase
  <1>27. CASE ConnectSecond
    BY <1>27 DEF ConnectSecond
  <1>26. CASE UNCHANGED vars
    BY <1>26 DEF vars
  <1> QED
    BY <1>1, <1>2, <1>3, <1>4, <1>5, <1>6, <1>7, <1>8, <1>9, <1>10, <1>11, <1>12,
       <1>13, <1>14, <1>15, <1>16, <1>17, <1>18, <1>19, <1>20, <1>21, <1>22, <1>23,
       <1>24, <1>25, <1>26, <1>27, Zenon DEF Next, Step

(* Where a set-up is pending, and where the script is at work. *)
LEMMA PhaseStep ==
  ASSUME pending \in BOOLEAN, pending = FALSE => next = 0, PhaseInv, [Next]_vars
  PROVE  PhaseInv'
PROOF
  <1> USE DEF PhaseInv, Idle, Begin, GiveUp, schemaVars, Alive, At, Goto, End,
     Quiet, run, flags, handlers
  <1>1. CASE StartTest
    BY <1>1 DEF StartTest, Start
  <1>2. CASE StartSetup
    BY <1>2 DEF StartSetup, Start, AskForSetup
  <1>3. CASE StartForeground
    BY <1>3 DEF StartForeground, Start
  <1>4. CASE StartDaemon
    BY <1>4 DEF StartDaemon, Start
  <1>5. CASE Detach
    BY <1>5 DEF Detach, Child, ForkFails, Fails
  <1>6. CASE WritePid
    BY <1>6 DEF WritePid, ForkFails, Fails
  <1>7. CASE Load
    BY <1>7 DEF Load
  <1>8. CASE Serve
    BY <1>8 DEF Serve, Child, ForkFails, Fails
  <1>9. CASE Bind
    BY <1>9 DEF Bind, ForkFails, Fails
  <1>10. CASE Listen
    BY <1>10 DEF Listen, ForkFails, Fails
  <1>11. CASE Look
    BY <1>11 DEF Look, LookForFile
  <1>12. CASE LeaveConsole
    BY <1>12 DEF LeaveConsole, Child, Fails
  <1>13. CASE InstallTerm
    BY <1>13 DEF InstallTerm
  <1>14. CASE InstallHup
    BY <1>14 DEF InstallHup
  <1>15. CASE Connect
    <2>1. CASE OpenFile /\ (Goto("connect2") \/ Goto("setup"))
      BY <1>15, <2>1 DEF Connect, OpenFile, Open
    <2>2. CASE OpenFails /\ Goto("connect2")
      BY <1>15, <2>2 DEF Connect, OpenFails
    <2>3. CASE SetupRefused /\ Goto("off")
      BY <1>15, <2>3 DEF Connect, SetupRefused
    <2>4. CASE OpenOnly /\ Goto("off")
      BY <1>15, <2>4 DEF Connect, OpenOnly
    <2> QED
      BY <1>15, <2>1, <2>2, <2>3, <2>4, Zenon DEF Connect
  <1>16. CASE FindScript
    BY <1>16 DEF FindScript, Return, NoScript
  <1>17. CASE RunStatement
    BY <1>17 DEF RunStatement, Return, Execute, StatementFails, NotConnected, Fails
  <1>18. CASE Reload
    BY <1>18 DEF Reload, LookForFile
  <1>19. CASE Leave
    BY <1>19 DEF Leave
  <1>20. CASE StopServer
    BY <1>20 DEF StopServer, Hang
  <1>21. CASE RemovePid
    BY <1>21 DEF RemovePid, LeaveMain
  <1>22. CASE Term
    BY <1>22 DEF Term, Hang, EndSchema
  <1>23. CASE Hup
    BY <1>23 DEF Hup, EndSchema
  <1>24. CASE Kill
    BY <1>24 DEF Kill, EndSchema
  <1>25. CASE RemoveDatabase
    BY <1>25 DEF RemoveDatabase, RemoveFile
  <1>27. CASE ConnectSecond
    <2>1. CASE pending = TRUE
      BY <1>27, <2>1 DEF ConnectSecond, OpenSecond, Open, SecondFails
    <2>2. CASE pending = FALSE
      BY <1>27, <2>2 DEF ConnectSecond, OpenSecond, Open, SecondFails
    <2> QED
      BY <2>1, <2>2
  <1>26. CASE UNCHANGED vars
    BY <1>26 DEF vars
  <1> QED
    BY <1>1, <1>2, <1>3, <1>4, <1>5, <1>6, <1>7, <1>8, <1>9, <1>10, <1>11, <1>12,
       <1>13, <1>14, <1>15, <1>16, <1>17, <1>18, <1>19, <1>20, <1>21, <1>22, <1>23,
       <1>24, <1>25, <1>26, <1>27, Zenon DEF Next, Step

(* The handlers of run() stay once they are there. *)
LEMMA HandlerStep ==
  ASSUME HandlerInv, [Next]_vars
  PROVE  HandlerInv'
PROOF
  <1> USE DEF HandlerInv, Running, Alive, At, Goto, End, Quiet, run, flags, handlers
  <1>1. CASE StartTest
    BY <1>1 DEF StartTest, Start
  <1>2. CASE StartSetup
    BY <1>2 DEF StartSetup, Start
  <1>3. CASE StartForeground
    BY <1>3 DEF StartForeground, Start
  <1>4. CASE StartDaemon
    BY <1>4 DEF StartDaemon, Start
  <1>5. CASE Detach
    BY <1>5 DEF Detach, Child, ForkFails
  <1>6. CASE WritePid
    BY <1>6 DEF WritePid, ForkFails
  <1>7. CASE Load
    BY <1>7 DEF Load
  <1>8. CASE Serve
    BY <1>8 DEF Serve, Child, ForkFails
  <1>9. CASE Bind
    BY <1>9 DEF Bind, ForkFails
  <1>10. CASE Listen
    BY <1>10 DEF Listen, ForkFails
  <1>11. CASE Look
    BY <1>11 DEF Look
  <1>12. CASE LeaveConsole
    BY <1>12 DEF LeaveConsole, Child
  <1>13. CASE InstallTerm
    BY <1>13 DEF InstallTerm
  <1>14. CASE InstallHup
    BY <1>14 DEF InstallHup
  <1>15. CASE Connect
    BY <1>15 DEF Connect
  <1>16. CASE FindScript
    BY <1>16 DEF FindScript, Return
  <1>17. CASE RunStatement
    BY <1>17 DEF RunStatement, Return
  <1>18. CASE Reload
    BY <1>18 DEF Reload
  <1>19. CASE Leave
    BY <1>19 DEF Leave
  <1>20. CASE StopServer
    BY <1>20 DEF StopServer, Hang
  <1>21. CASE RemovePid
    BY <1>21 DEF RemovePid, LeaveMain, KeepPid
  <1>22. CASE Term
    BY <1>22 DEF Term, Hang
  <1>23. CASE Hup
    BY <1>23 DEF Hup
  <1>24. CASE Kill
    BY <1>24 DEF Kill
  <1>25. CASE RemoveDatabase
    BY <1>25 DEF RemoveDatabase
  <1>27. CASE ConnectSecond
    BY <1>27 DEF ConnectSecond
  <1>26. CASE UNCHANGED vars
    BY <1>26 DEF vars
  <1> QED
    BY <1>1, <1>2, <1>3, <1>4, <1>5, <1>6, <1>7, <1>8, <1>9, <1>10, <1>11, <1>12,
       <1>13, <1>14, <1>15, <1>16, <1>17, <1>18, <1>19, <1>20, <1>21, <1>22, <1>23,
       <1>24, <1>25, <1>26, <1>27, Zenon DEF Next, Step

(* Another call that fails is one that fails in SchemaSetup; one that ends *)
(* the process before the script begins, too.                              *)
LEMMA FailsAsSecond ==
  ASSUME ForkFails
  PROVE  SecondFails
  BY Zenon DEF ForkFails, Fails, SecondFails

LEMMA FailsAsSetup ==
  ASSUME next = 0, Fails, GiveUp("ended")
  PROVE  SetupRefused
PROOF
  <1>1. ~(next > 0)
    OBVIOUS
  <1> QED
    BY <1>1, Zenon DEF Fails, GiveUp, SetupRefused

(* Every step is one of SchemaSetup, or leaves the database alone. *)
LEMMA SchemaStep ==
  ASSUME PhaseInv, [Next]_vars
  PROVE  [SchemaNext]_schemaVars
PROOF
  <1> USE DEF PhaseInv, SchemaNext, schemaVars, Alive, At, Goto, End, Quiet, run,
     flags, handlers
  <1>1. CASE StartTest
    BY <1>1 DEF StartTest, Start
  <1>2. CASE StartSetup
    BY <1>2 DEF StartSetup, Start
  <1>3. CASE StartForeground
    BY <1>3 DEF StartForeground, Start
  <1>4. CASE StartDaemon
    BY <1>4 DEF StartDaemon, Start
  <1>5. CASE Detach
    <2>1. ForkFails \/ UNCHANGED schemaVars
      BY <1>5 DEF Detach
    <2> QED
      BY <2>1, FailsAsSecond
  <1>6. CASE WritePid
    <2>1. ForkFails \/ UNCHANGED schemaVars
      BY <1>6 DEF WritePid
    <2> QED
      BY <2>1, FailsAsSecond
  <1>7. CASE Load
    BY <1>7 DEF Load
  <1>8. CASE Serve
    <2>1. ForkFails \/ UNCHANGED schemaVars
      BY <1>8 DEF Serve
    <2> QED
      BY <2>1, FailsAsSecond
  <1>9. CASE Bind
    <2>1. ForkFails \/ UNCHANGED schemaVars
      BY <1>9 DEF Bind
    <2> QED
      BY <2>1, FailsAsSecond
  <1>10. CASE Listen
    <2>1. ForkFails \/ UNCHANGED schemaVars
      BY <1>10 DEF Listen
    <2> QED
      BY <2>1, FailsAsSecond
  <1>11. CASE Look
    BY <1>11 DEF Look
  <1>12. CASE LeaveConsole
    <2>1. next = 0
      BY <1>12 DEF LeaveConsole
    <2>2. UNCHANGED schemaVars \/ (Fails /\ GiveUp("ended")) \/ EndSchema
      BY <1>12, Zenon DEF LeaveConsole
    <2> QED
      BY <2>1, <2>2, FailsAsSetup
  <1>13. CASE InstallTerm
    BY <1>13 DEF InstallTerm
  <1>14. CASE InstallHup
    BY <1>14 DEF InstallHup
  <1>15. CASE Connect
    BY <1>15 DEF Connect
  <1>16. CASE FindScript
    BY <1>16 DEF FindScript, Return
  <1>17. CASE RunStatement
    BY <1>17 DEF RunStatement, Return
  <1>18. CASE Reload
    BY <1>18 DEF Reload
  <1>19. CASE Leave
    BY <1>19 DEF Leave
  <1>20. CASE StopServer
    BY <1>20 DEF StopServer, Hang
  <1>21. CASE RemovePid
    <2>1. next = 0
      BY <1>21 DEF RemovePid, LeaveMain
    <2>2. UNCHANGED schemaVars \/ (Fails /\ GiveUp("ended")) \/ EndSchema
      BY <1>21, Zenon DEF RemovePid, LeaveMain, EndSchema
    <2> QED
      BY <2>1, <2>2, FailsAsSetup
  <1>22. CASE Term
    BY <1>22 DEF Term, Hang
  <1>23. CASE Hup
    BY <1>23 DEF Hup
  <1>24. CASE Kill
    BY <1>24 DEF Kill
  <1>25. CASE RemoveDatabase
    BY <1>25 DEF RemoveDatabase
  <1>26. CASE UNCHANGED vars
    BY <1>26 DEF vars
  <1>27. CASE ConnectSecond
    BY <1>27 DEF ConnectSecond
  <1> QED
    BY <1>1, <1>2, <1>3, <1>4, <1>5, <1>6, <1>7, <1>8, <1>9, <1>10, <1>11, <1>12,
       <1>13, <1>14, <1>15, <1>16, <1>17, <1>18, <1>19, <1>20, <1>21, <1>22, <1>23,
       <1>24, <1>25, <1>26, <1>27, Zenon DEF Next, Step

(* A script that meets only tables of its own drops none. *)
LEMMA ExecuteKeepsTables ==
  ASSUME SchemaTypeOK, Execute, \A t \in tables : 2 * t < next
  PROVE  tables \subseteq tables' /\ \A t \in tables' : 2 * t < next + 1
PROOF
  <1>1. /\ Tables \in Nat /\ next \in 0 .. 2 * Tables /\ next > 0
        /\ tables \in SUBSET (1 .. Tables) /\ tables' = Effect(next)
    BY SchemaAssumption DEF SchemaTypeOK, Last, Execute
  <1>2. CASE next % 2 = 1
    <2>1. PICK k \in Int : next = 2 * k + 1
      BY <1>1, <1>2, SMT
    <2>2. (next + 1) \div 2 = k + 1
      BY <1>1, <2>1, SMT
    <2>3. tables' = tables \ {k + 1}
      BY <1>1, <1>2, <2>2 DEF Effect
    <2>4. \A t \in tables : t # k + 1 /\ 2 * t < next + 1
      BY <1>1, <2>1, SMT
    <2> QED
      BY <2>3, <2>4, Zenon
  <1>3. CASE next % 2 # 1
    <2>1. PICK k \in Int : next = 2 * k
      BY <1>1, <1>3, SMT
    <2>2. next \div 2 = k
      BY <1>1, <2>1, SMT
    <2>3. tables' = tables \cup {k}
      BY <1>1, <1>3, <2>2 DEF Effect
    <2>4. 2 * k < next + 1 /\ \A t \in tables : 2 * t < next + 1
      BY <1>1, <2>1, SMT
    <2> QED
      BY <2>3, <2>4, Zenon
  <1> QED
    BY <1>2, <1>3

(* The tables of a start are those of its script, and no step drops one. *)
LEMMA TablesStep ==
  ASSUME SchemaInv, PhaseInv, ScriptInv, [Next]_vars
  PROVE  ScriptInv' /\ TablesSurvive
PROOF
  <1> USE DEF SchemaInv, SchemaTypeOK, PhaseInv, ScriptInv, TablesSurvive, Idle,
     Begin, GiveUp, schemaVars, Alive, At, Goto, End, Quiet, run, flags, handlers
  <1>1. CASE StartTest
    BY <1>1 DEF StartTest, Start
  <1>2. CASE StartSetup
    BY <1>2 DEF StartSetup, Start, AskForSetup
  <1>3. CASE StartForeground
    BY <1>3 DEF StartForeground, Start
  <1>4. CASE StartDaemon
    BY <1>4 DEF StartDaemon, Start
  <1>5. CASE Detach
    BY <1>5 DEF Detach, Child, ForkFails, Fails
  <1>6. CASE WritePid
    BY <1>6 DEF WritePid, ForkFails, Fails
  <1>7. CASE Load
    BY <1>7 DEF Load
  <1>8. CASE Serve
    BY <1>8 DEF Serve, Child, ForkFails, Fails
  <1>9. CASE Bind
    BY <1>9 DEF Bind, ForkFails, Fails
  <1>10. CASE Listen
    BY <1>10 DEF Listen, ForkFails, Fails
  <1>11. CASE Look
    BY <1>11 DEF Look, LookForFile
  <1>12. CASE LeaveConsole
    BY <1>12 DEF LeaveConsole, Child, Fails
  <1>13. CASE InstallTerm
    BY <1>13 DEF InstallTerm
  <1>14. CASE InstallHup
    BY <1>14 DEF InstallHup
  <1>15. CASE Connect
    <2>1. /\ cmd' = cmd /\ tables' = tables /\ next = 0
      BY <1>15, Zenon DEF Connect, OpenFile, Open, OpenFails, SetupRefused, OpenOnly
    <2>2. CASE OpenFile
      <3>1. pending = TRUE /\ cmd # "setupdb" => tables = {}
        BY <2>1, Numbers, Zenon
      <3> QED
        BY <2>1, <2>2, <3>1, Zenon DEF OpenFile, Open
    <2>3. CASE OpenFails \/ SetupRefused \/ OpenOnly
      BY <2>1, <2>3, Zenon DEF OpenFails, SetupRefused, OpenOnly
    <2> QED
      BY <1>15, <2>2, <2>3, Zenon DEF Connect
  <1>16. CASE FindScript
    BY <1>16 DEF FindScript, Return, NoScript
  <1>17. CASE RunStatement
    <2>1. /\ SchemaTypeOK /\ next > 0 => pending = TRUE
          /\ cmd' = cmd
      BY <1>17 DEF RunStatement, Return
    <2>2. CASE StatementFails \/ NotConnected
      BY <2>2, Zenon DEF StatementFails, NotConnected
    <2>3. CASE Execute /\ cmd # "setupdb"
      <3>1. /\ tables \subseteq tables' /\ \A t \in tables' : 2 * t < next + 1
        BY <2>1, <2>3, ExecuteKeepsTables DEF Execute
      <3> QED
        BY <3>1, <2>3, Zenon DEF Execute
    <2>4. CASE cmd = "setupdb"
      BY <2>1, <2>4
    <2> QED
      BY <1>17, <2>2, <2>3, <2>4, Zenon DEF RunStatement
  <1>18. CASE Reload
    BY <1>18 DEF Reload, LookForFile
  <1>19. CASE Leave
    BY <1>19 DEF Leave
  <1>20. CASE StopServer
    BY <1>20 DEF StopServer, Hang
  <1>21. CASE RemovePid
    BY <1>21 DEF RemovePid, LeaveMain
  <1>22. CASE Term
    BY <1>22 DEF Term, Hang, EndSchema
  <1>23. CASE Hup
    BY <1>23 DEF Hup, EndSchema
  <1>24. CASE Kill
    BY <1>24 DEF Kill, EndSchema
  <1>25. CASE RemoveDatabase
    BY <1>25 DEF RemoveDatabase, RemoveFile
  <1>27. CASE ConnectSecond
    <2>1. /\ cmd' = cmd /\ tables' = tables /\ pending' = pending
          /\ next' = next \/ (next <= 1 /\ (pending = TRUE => next' = 1))
      BY <1>27, Zenon DEF ConnectSecond, OpenSecond, Open, SecondFails
    <2>2. next <= 1 /\ pending = TRUE /\ cmd # "setupdb" => \A t \in tables : 2 * t < 1
      BY SMT
    <2> QED
      BY <2>1, <2>2, Zenon
  <1>26. CASE UNCHANGED vars
    BY <1>26 DEF vars
  <1> QED
    BY <1>1, <1>2, <1>3, <1>4, <1>5, <1>6, <1>7, <1>8, <1>9, <1>10, <1>11, <1>12,
       <1>13, <1>14, <1>15, <1>16, <1>17, <1>18, <1>19, <1>20, <1>21, <1>22, <1>23,
       <1>24, <1>25, <1>26, <1>27, Zenon DEF Next, Step

(* No step but SIGKILL ends a process that polls or sets up. *)
LEMMA SignalStep ==
  ASSUME HandlerInv, [Next]_vars
  PROVE  SignalIsRequest
PROOF
  <1> USE DEF HandlerInv, SignalIsRequest, Running, Alive, At, Goto, End, Quiet, run,
     flags, handlers
  <1>1. CASE StartTest
    BY <1>1 DEF StartTest, Start
  <1>2. CASE StartSetup
    BY <1>2 DEF StartSetup, Start
  <1>3. CASE StartForeground
    BY <1>3 DEF StartForeground, Start
  <1>4. CASE StartDaemon
    BY <1>4 DEF StartDaemon, Start
  <1>5. CASE Detach
    BY <1>5 DEF Detach, Child, ForkFails
  <1>6. CASE WritePid
    BY <1>6 DEF WritePid, ForkFails
  <1>7. CASE Load
    BY <1>7 DEF Load
  <1>8. CASE Serve
    BY <1>8 DEF Serve, Child, ForkFails
  <1>9. CASE Bind
    BY <1>9 DEF Bind, ForkFails
  <1>10. CASE Listen
    BY <1>10 DEF Listen, ForkFails
  <1>11. CASE Look
    BY <1>11 DEF Look
  <1>12. CASE LeaveConsole
    BY <1>12 DEF LeaveConsole, Child
  <1>13. CASE InstallTerm
    BY <1>13 DEF InstallTerm
  <1>14. CASE InstallHup
    BY <1>14 DEF InstallHup
  <1>15. CASE Connect
    BY <1>15 DEF Connect
  <1>16. CASE FindScript
    BY <1>16 DEF FindScript, Return
  <1>17. CASE RunStatement
    BY <1>17 DEF RunStatement, Return
  <1>18. CASE Reload
    BY <1>18 DEF Reload
  <1>19. CASE Leave
    BY <1>19 DEF Leave
  <1>20. CASE StopServer
    BY <1>20 DEF StopServer, Hang
  <1>21. CASE RemovePid
    BY <1>21 DEF RemovePid, LeaveMain, KeepPid
  <1>22. CASE Term
    BY <1>22 DEF Term, Hang
  <1>23. CASE Hup
    BY <1>23 DEF Hup
  <1>24. CASE Kill
    BY <1>24 DEF Kill
  <1>25. CASE RemoveDatabase
    BY <1>25 DEF RemoveDatabase
  <1>27. CASE ConnectSecond
    BY <1>27 DEF ConnectSecond
  <1>26. CASE UNCHANGED vars
    BY <1>26 DEF vars
  <1> QED
    BY <1>1, <1>2, <1>3, <1>4, <1>5, <1>6, <1>7, <1>8, <1>9, <1>10, <1>11, <1>12,
       <1>13, <1>14, <1>15, <1>16, <1>17, <1>18, <1>19, <1>20, <1>21, <1>22, <1>23,
       <1>24, <1>25, <1>26, <1>27, Zenon DEF Next, Step

(* All parts of the invariant hold at first and are preserved together. *)
THEOREM LifecycleInvariance ==
  Spec => []LifeInv
PROOF
  <1>1. Init => LifeInv
    <2> SUFFICES ASSUME Init PROVE LifeInv
      OBVIOUS
    <2>1. SchemaInv
      BY SchemaInitInv DEF Init
    <2>2. PhaseInv /\ ScriptInv
      BY Zenon DEF Init, SchemaInit, PhaseInv, ScriptInv
    <2>3. PidInv /\ HandlerInv
      BY DEF Init, PidInv, HandlerInv, Running, Alive, At
    <2> QED
      BY <2>1, <2>2, <2>3 DEF LifeInv
  <1>2. LifeInv /\ [Next]_vars => LifeInv'
    <2> SUFFICES ASSUME LifeInv, [Next]_vars PROVE LifeInv'
      OBVIOUS
    <2> USE DEF LifeInv
    <2>1. pending \in BOOLEAN /\ (pending = FALSE => next = 0)
      BY SchemaAssumption DEF SchemaInv, SchemaTypeOK, Last
    <2>2. SchemaInv'
      BY SchemaStep, SchemaNextInv
    <2>3. PhaseInv'
      BY <2>1, PhaseStep
    <2>4. ScriptInv'
      BY TablesStep
    <2>5. PidInv' /\ HandlerInv'
      BY PidStep, HandlerStep
    <2> QED
      BY <2>2, <2>3, <2>4, <2>5
  <1> QED
    BY <1>1, <1>2, PTL DEF Spec

(* A database no script is at work on has its tables, or its set-up is     *)
(* known to have come to an early end, whatever the processes did.         *)
THEOREM DatabaseIsUsable ==
  Spec => []SchemaUsable
PROOF
  <1>1. LifeInv => SchemaUsable
    BY DEF LifeInv, SchemaInv
  <1> QED
    BY <1>1, LifecycleInvariance, PTL

(* The PID file of a daemon names it while it polls, unless the HTTP       *)
(* server has forked, and is gone after run() has returned, unless it      *)
(* could not be removed.                                                   *)
THEOREM PidFileIsTruthful ==
  Spec => []PidFileTruthful
PROOF
  <1>1. LifeInv => PidFileTruthful
    BY DEF LifeInv, PidInv, PidFileTruthful, Alive, At
  <1> QED
    BY <1>1, LifecycleInvariance, PTL

(* From the connection on, a signal is a request and ends no process. *)
THEOREM SignalsAreOnlyRequests ==
  Spec => SignalsAreRequests
PROOF
  <1>1. LifeInv /\ [Next]_vars => [SignalIsRequest]_vars
    BY SignalStep DEF LifeInv
  <1> QED
    BY <1>1, LifecycleInvariance, PTL DEF Spec, SignalsAreRequests, SignalIsRequest

(* No start and no reload drops a table that is there. *)
THEOREM TablesAreKept ==
  Spec => TablesSurviveStarts
PROOF
  <1>1. LifeInv /\ [Next]_vars => [TablesSurvive]_vars
    BY TablesStep DEF LifeInv
  <1> QED
    BY <1>1, LifecycleInvariance, PTL DEF Spec, TablesSurviveStarts, TablesSurvive

----------------------------------------------------------------------------
(* Types.                                                                  *)

Ends ==
  {"not yet", "returned", "not removed", "failed", "signal", "handle_signal", "killed"}

(* The part of TypeOK that is not SchemaSetup's. *)
ProcessTypeOK ==
  /\ env \in Environments
  /\ cmd \in Commands
  /\ pc \in Labels
  /\ cwd \in {"start", "/"}
  /\ pidFile \in {"none", "self", "gone", "empty"}
  /\ http \in {"none", "serving", "left behind"}
  /\ term \in {"default", "handle_signal", "sigTERM"}
  /\ hup \in {"default", "sigHUP"}
  /\ named \in BOOLEAN /\ exiting \in BOOLEAN /\ reload \in BOOLEAN
  /\ ended \in Ends
  /\ starts \in 0 .. MaxStarts

(* A process starts with fresh memory; the number of starts is bounded. *)
LEMMA StartTypes ==
  ASSUME ProcessTypeOK, NEW c \in Commands, NEW label \in Labels, Start(c), Goto(label)
  PROVE  ProcessTypeOK'
PROOF
  <1>1. starts' \in 0 .. MaxStarts
    <2>1. starts \in 0 .. MaxStarts /\ starts < MaxStarts /\ starts' = starts + 1
      BY Zenon DEF ProcessTypeOK, Start
    <2> QED
      BY ONLY <2>1, StartAssumption, SMT
  <1>2. /\ pc' = label /\ cmd' = c /\ cwd' = "start"
        /\ named' = FALSE /\ exiting' = FALSE /\ reload' = FALSE
        /\ term' = "default" /\ hup' = "default" /\ ended' = "not yet"
        /\ env' = env /\ pidFile' = pidFile /\ http' = http
    BY Zenon DEF Start, Goto
  <1>3. "not yet" \in Ends
    BY DEF Ends
  <1> QED
    BY <1>1, <1>2, <1>3 DEF ProcessTypeOK

(* The end of a process says how. *)
LEMMA EndTypes ==
  ASSUME ProcessTypeOK, NEW how \in Ends, End(how)
  PROVE  ProcessTypeOK'
PROOF
  <1>1. "off" \in Labels
    BY DEF Labels
  <1> QED
    BY <1>1, Zenon DEF ProcessTypeOK, End, Goto, run, handlers, flags

(* Most steps only move on. *)
LEMMA QuietTypes ==
  ASSUME ProcessTypeOK, Quiet, pc' \in Labels,
         cwd' \in {cwd, "/"}, pidFile' \in {pidFile, "gone"},
         http' \in {http, "none", "serving", "left behind"}
  PROVE  ProcessTypeOK'
PROOF
  BY Zenon DEF ProcessTypeOK, Quiet, handlers, flags

(* Every step keeps the types. *)
LEMMA TypeStep ==
  ASSUME ProcessTypeOK, [Next]_vars
  PROVE  ProcessTypeOK'
PROOF
  <1> DEFINE Known == {"returned", "not removed", "failed", "signal", "handle_signal", "killed"}
  <1>a. Known \subseteq Ends
    BY DEF Ends
  <1>b. \A l \in {"off", "detach", "pid", "load", "serve", "bind", "listen", "look", "leave", "term",
                  "hup", "connect", "connect2", "setup", "script", "loop", "stop", "remove", "hung"} :
          l \in Labels
    BY DEF Labels
  <1>c. {"daemon", "foreground", "setupdb", "test"} \subseteq Commands
    BY DEF Commands
  <1>1. CASE StartTest \/ StartSetup \/ StartForeground \/ StartDaemon
    BY <1>b, <1>c, <1>1, StartTypes DEF StartTest, StartSetup, StartForeground, StartDaemon
  <1>2. CASE Detach
    <2>1. CASE Child /\ cwd' = "/" /\ Goto("pid") /\ Quiet
      BY <1>b, <2>1, QuietTypes DEF Child, Goto
    <2>2. CASE End("failed")
      BY <1>a, <2>2, EndTypes
    <2> QED
      BY <1>2, <2>1, <2>2, Zenon DEF Detach
  <1>3. CASE WritePid
    BY <1>b, <1>3 DEF ProcessTypeOK, WritePid, Goto, run, handlers, flags
  <1>4. CASE Load
    BY <1>b, <1>4, QuietTypes DEF Load, Goto
  <1>5. CASE Serve
    BY <1>b, <1>5, QuietTypes DEF Serve, Child, Goto
  <1>6. CASE Bind
    BY <1>b, <1>6 DEF ProcessTypeOK, Bind, Goto, run, flags
  <1>7. CASE Listen
    BY <1>b, <1>7, QuietTypes DEF Listen, Goto
  <1>8. CASE Look
    BY <1>b, <1>8, QuietTypes DEF Look, Goto
  <1>9. CASE LeaveConsole
    <2>1. CASE Child /\ Goto("term") /\ Quiet /\ UNCHANGED cwd
      BY <1>b, <2>1, QuietTypes DEF Child, Goto
    <2>2. CASE End("failed")
      BY <1>a, <2>2, EndTypes
    <2> QED
      BY <1>9, <2>1, <2>2, Zenon DEF LeaveConsole
  <1>10. CASE InstallTerm
    BY <1>b, <1>10 DEF ProcessTypeOK, InstallTerm, Goto, run, flags
  <1>11. CASE InstallHup
    BY <1>b, <1>11 DEF ProcessTypeOK, InstallHup, Goto, run, flags
  <1>12. CASE Connect
    <2>1. CASE /\ Goto("setup") \/ Goto("connect2")
               /\ Quiet /\ UNCHANGED <<cwd, pidFile, http>>
      BY <1>b, <2>1, QuietTypes DEF Goto
    <2>2. CASE End("failed") \/ End("returned")
      BY <1>a, <2>2, EndTypes
    <2> QED
      BY <1>12, <2>1, <2>2, Zenon DEF Connect, Goto
  <1>d. ASSUME NEW how \in {"failed", "returned"}, Return(how) PROVE ProcessTypeOK'
    <2>1. CASE Goto("loop") /\ Quiet /\ UNCHANGED <<cwd, pidFile, http>>
      BY <1>b, <2>1, QuietTypes DEF Goto
    <2>2. CASE End(how)
      BY <1>a, <2>2, EndTypes
    <2> QED
      BY <1>d, <2>1, <2>2, Zenon DEF Return
  <1>13. CASE FindScript
    <2>1. CASE Goto("script") /\ Quiet /\ UNCHANGED <<cwd, pidFile, http>>
      BY <1>b, <2>1, QuietTypes DEF Goto
    <2> QED
      BY <1>13, <1>d, <2>1, Zenon DEF FindScript
  <1>14. CASE RunStatement
    <2>1. CASE Quiet /\ UNCHANGED <<pc, cwd, pidFile, http>>
      BY <2>1, QuietTypes DEF ProcessTypeOK
    <2> QED
      BY <1>14, <1>d, <2>1, Zenon DEF RunStatement
  <1>15. CASE Reload
    BY <1>b, <1>15 DEF ProcessTypeOK, Reload, Goto, run, handlers
  <1>16. CASE Leave
    BY <1>b, <1>16, QuietTypes DEF Leave, Goto
  <1>e. Hang => ProcessTypeOK'
    BY <1>b, QuietTypes DEF Hang, Goto
  <1>17. CASE StopServer
    <2>1. CASE http' = "none" /\ Goto("remove") /\ Quiet /\ UNCHANGED <<cwd, pidFile>>
      BY <1>b, <2>1, QuietTypes DEF Goto
    <2> QED
      BY <1>17, <1>e, <2>1, Zenon DEF StopServer
  <1>18. CASE RemovePid
    BY <1>a, <1>b, <1>18
       DEF ProcessTypeOK, RemovePid, LeaveMain, KeepPid, Goto, run, handlers, flags
  <1>19. CASE Term
    <2>1. CASE End("signal") \/ End("handle_signal")
      BY <1>a, <2>1, EndTypes
    <2>2. CASE /\ exiting' = TRUE
               /\ UNCHANGED <<env, run, pc, pidFile, named, http, handlers, reload, ended, starts>>
      BY <2>2 DEF ProcessTypeOK, run, handlers
    <2> QED
      BY <1>19, <1>e, <2>1, <2>2, Zenon DEF Term
  <1>20. CASE Hup
    <2>1. CASE End("signal")
      BY <1>a, <2>1, EndTypes
    <2>2. CASE /\ reload' = TRUE
               /\ UNCHANGED <<env, run, pc, pidFile, named, http, handlers, exiting, ended, starts>>
      BY <2>2 DEF ProcessTypeOK, run, handlers
    <2> QED
      BY <1>20, <2>1, <2>2, Zenon DEF Hup
  <1>21. CASE Kill
    BY <1>a, <1>21, EndTypes DEF Kill
  <1>22. CASE RemoveDatabase \/ UNCHANGED vars
    BY <1>22, Zenon DEF ProcessTypeOK, RemoveDatabase, vars, run, handlers, flags
  <1>23. CASE ConnectSecond
    BY <1>b, <1>23, QuietTypes DEF ConnectSecond, Goto
  <1> QED
    BY <1>1, <1>2, <1>3, <1>4, <1>5, <1>6, <1>7, <1>8, <1>9, <1>10, <1>11, <1>12,
       <1>13, <1>14, <1>15, <1>16, <1>17, <1>18, <1>19, <1>20, <1>21, <1>22, <1>23,
       Zenon DEF Next, Step

(* Every variable of a process keeps its type. *)
THEOREM LifecycleTypes ==
  Spec => []TypeOK
PROOF
  <1>1. Init => ProcessTypeOK
    <2> SUFFICES ASSUME Init PROVE ProcessTypeOK
      OBVIOUS
    <2>1. starts \in 0 .. MaxStarts
      <3>1. starts = 0
        BY Zenon DEF Init
      <3> QED
        BY ONLY <3>1, StartAssumption, SMT
    <2>2. pc \in Labels /\ cmd \in Commands /\ ended \in Ends
      BY DEF Init, Labels, Commands, Ends
    <2> QED
      BY <2>1, <2>2 DEF Init, ProcessTypeOK
  <1>2. ProcessTypeOK /\ [Next]_vars => ProcessTypeOK'
    BY TypeStep
  <1>3. ProcessTypeOK /\ LifeInv => TypeOK
    BY DEF ProcessTypeOK, LifeInv, SchemaInv, TypeOK, Ends
  <1> QED
    BY <1>1, <1>2, <1>3, LifecycleInvariance, PTL DEF Spec
=============================================================================
