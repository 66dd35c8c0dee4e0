----------------------------- MODULE Lifecycle -----------------------------
(***************************************************************************)
(* One scastd process after another, from main() to its end: the options   *)
(* that end early, the forks of main(), HttpServer::start and run(), the   *)
(* PID file, the working directory, the order in which the signal handlers *)
(* are installed, and the set-up of the database file on the way           *)
(* (src/src/main.cpp, src/src/scastd.cpp, src/src/HttpServer.cpp).  What   *)
(* the loop of run() does besides reloading and leaving is PollLoop.       *)
(*                                                                         *)
(* A fork goes on as the child, because the parent leaves at once.  What   *)
(* the process needs of its parent is told apart: a PID file that names    *)
(* the parent, and threads that stayed with it.                            *)
(***************************************************************************)
EXTENDS SchemaSetup

CONSTANT MaxStarts      (* bound on the processes *)

ASSUME StartAssumption == MaxStarts \in Nat

VARIABLES
  env,          (* the configuration and the machine; never changes         *)
  cmd,          (* the option the process was started with                  *)
  pc,           (* the statement to come, or "off"                          *)
  cwd,          (* the working directory                                    *)
  pidFile,      (* whom the PID file names, or "none"                       *)
  named,        (* history: this process has written the PID file           *)
  http,         (* the threads of the HTTP server                           *)
  term, hup,    (* the handlers of SIGTERM and SIGHUP                       *)
  exiting,      (* the flags of the handlers                                *)
  reload,
  ended,        (* history: how the process has ended                       *)
  starts        (* the number of processes started                          *)

flags == <<exiting, reload>>
handlers == <<term, hup>>
run == <<cmd, cwd>>
vars == <<schemaVars, env, run, pc, pidFile, named, http, handlers, flags, ended, starts>>

Commands == {"daemon", "foreground", "setupdb", "test"}

(* http: http_enabled; stay: SCASD_NO_DAEMON is 1; relative: so is the     *)
(* path of the configuration; installed: the script is in /etc/scastd, and *)
(* not only in the source tree the program is started in.                  *)
Environments == [http : BOOLEAN, stay : BOOLEAN, relative : BOOLEAN, installed : BOOLEAN]

Init ==
  /\ SchemaInit
  /\ env \in Environments
  /\ cmd = "test" /\ cwd = "start" /\ pc = "off"
  /\ pidFile = "none" /\ named = FALSE
  /\ http = "none"
  /\ term = "default" /\ hup = "default"
  /\ exiting = FALSE /\ reload = FALSE
  /\ ended = "not yet" /\ starts = 0

At(label) == pc = label

Goto(label) == pc' = label

Alive == ~At("off")

ConfigFound == env.relative => cwd = "start"

ScriptFound == env.installed \/ cwd = "start"

(* The end of the process, and what it leaves to the next one. *)
End(how) ==
  /\ Goto("off")
  /\ ended' = how
  /\ pidFile' = IF pidFile = "self" THEN "gone" ELSE pidFile
  /\ http' = "none"
  /\ UNCHANGED <<env, run, named, handlers, flags, starts>>

(* main() has parsed its options and read the configuration. *)
Start(c) ==
  /\ At("off")
  /\ starts < MaxStarts /\ starts' = starts + 1
  /\ cmd' = c /\ cwd' = "start"
  /\ named' = FALSE
  /\ term' = "default" /\ hup' = "default"
  /\ exiting' = FALSE /\ reload' = FALSE
  /\ ended' = "not yet"
  /\ UNCHANGED <<env, pidFile, http>>

StartTest == Start("test") /\ Goto("connect") /\ UNCHANGED schemaVars

StartSetup == Start("setupdb") /\ Goto("connect") /\ AskForSetup

StartForeground == Start("foreground") /\ Goto("load") /\ UNCHANGED schemaVars

StartDaemon == Start("daemon") /\ Goto("detach") /\ UNCHANGED schemaVars

(* The child of a fork: it has another number and one thread. *)
Child ==
  /\ pidFile' = IF pidFile = "self" THEN "gone" ELSE pidFile
  /\ http' = IF http = "serving" THEN "left behind" ELSE http

ForkFails == Fails /\ UNCHANGED <<created, tables, pending, next, connected, cut>>

Quiet == UNCHANGED <<env, cmd, named, handlers, flags, ended, starts>>

Detach_Bug == \* the PID file is written before daemon(0, 0)
  /\ At("detach")
  /\ pidFile' = "gone" /\ named' = TRUE /\ cwd' = "/"
  /\ Goto("load")
  /\ UNCHANGED <<schemaVars, env, cmd, http, handlers, flags, ended, starts>>

(* daemon(0, 0) of main() *)
Detach ==
  /\ At("detach")
  /\ \/ /\ Child /\ cwd' = "/"
        /\ Goto("pid") /\ Quiet /\ UNCHANGED schemaVars
     \/ ForkFails /\ End("failed")

(* The file cannot be opened, or not be written. *)
WritePid ==
  /\ At("pid")
  /\ \/ pidFile' = "self" /\ named' = TRUE /\ UNCHANGED schemaVars
     \/ ForkFails /\ pidFile' \in {pidFile, "empty"} /\ UNCHANGED named
  /\ Goto("load")
  /\ UNCHANGED <<env, run, http, handlers, flags, ended, starts>>

(* run() reads the configuration again, from where it is by now. *)
Load ==
  /\ At("load")
  /\ Goto(IF ~ConfigFound THEN "remove" ELSE IF env.http THEN "serve" ELSE "look")
  /\ Quiet /\ UNCHANGED <<schemaVars, cwd, pidFile, http>>

(* HttpServer::start forks again unless told not to. *)
Serve ==
  /\ At("serve")
  /\ \/ /\ Goto("bind")
        /\ \/ env.stay /\ UNCHANGED <<cwd, pidFile, http>>
           \/ ~env.stay /\ Child /\ cwd' = "/"
        /\ UNCHANGED schemaVars
     \/ /\ Goto("look")
        /\ ~env.stay /\ ForkFails /\ UNCHANGED <<cwd, pidFile, http>>
  /\ Quiet

(* Its handlers come before its threads; the address may not resolve. *)
Bind ==
  /\ At("bind")
  /\ \/ Goto("listen") /\ term' = "handle_signal" /\ UNCHANGED schemaVars
     \/ Goto("look") /\ ForkFails /\ UNCHANGED term
  /\ UNCHANGED <<env, run, pidFile, named, http, hup, flags, ended, starts>>

Listen ==
  /\ At("listen")
  /\ Goto("look")
  /\ \/ http' = "serving" /\ UNCHANGED schemaVars
     \/ ForkFails /\ UNCHANGED http
  /\ Quiet /\ UNCHANGED <<cwd, pidFile>>

Look ==
  /\ At("look")
  /\ LookForFile
  /\ Goto(IF cmd = "foreground" THEN "leave" ELSE "term")
  /\ Quiet /\ UNCHANGED <<cwd, pidFile, http>>

(* The fork of the foreground mode. -1, an error, also takes the parent's  *)
(* branch.                                                                 *)
LeaveConsole ==
  /\ At("leave")
  /\ \/ /\ Child /\ Goto("term")
        /\ Quiet /\ UNCHANGED <<schemaVars, cwd>>
     \/ Fails /\ GiveUp("ended") /\ End("failed")

InstallTerm_Bug == \* a handler that is there already is left in place
  /\ At("term")
  /\ Goto("hup")
  /\ term' = IF term = "default" THEN "sigTERM" ELSE term
  /\ UNCHANGED <<schemaVars, env, run, pidFile, named, http, hup, flags, ended, starts>>

InstallTerm ==
  /\ At("term")
  /\ Goto("hup")
  /\ term' = "sigTERM"
  /\ UNCHANGED <<schemaVars, env, run, pidFile, named, http, hup, flags, ended, starts>>

InstallHup ==
  /\ At("hup")
  /\ Goto("connect")
  /\ hup' = "sigHUP"
  /\ UNCHANGED <<schemaVars, env, run, pidFile, named, http, term, flags, ended, starts>>

Running == cmd \in {"daemon", "foreground"}

(* run() ignores what connect returns, main() does not. *)
Connect ==
  /\ At("connect")
  /\ \/ /\ cmd # "test" /\ OpenFile
        /\ Goto(IF Running THEN "connect2" ELSE "setup")
        /\ Quiet /\ UNCHANGED <<cwd, pidFile, http>>
     \/ /\ Running /\ OpenFails
        /\ Goto("connect2")
        /\ Quiet /\ UNCHANGED <<cwd, pidFile, http>>
     \/ ~Running /\ SetupRefused /\ End("failed")
     \/ cmd = "test" /\ OpenOnly /\ End("returned")

(* db2->connect *)
ConnectSecond ==
  /\ At("connect2")
  /\ OpenSecond \/ SecondFails
  /\ Goto(IF pending THEN "setup" ELSE "loop")
  /\ Quiet /\ UNCHANGED <<cwd, pidFile, http>>

(* Back from setupDatabase: to the loop, whatever it returned, or to the   *)
(* end of --setupdb.                                                       *)
Return(how) ==
  \/ Running /\ Goto("loop") /\ Quiet /\ UNCHANGED <<cwd, pidFile, http>>
  \/ ~Running /\ End(how)

FindScript ==
  /\ At("setup")
  /\ \/ /\ ScriptFound /\ Goto("script")
        /\ Quiet /\ UNCHANGED <<schemaVars, cwd, pidFile, http>>
     \/ ~ScriptFound /\ NoScript /\ Return("failed")

RunStatement ==
  /\ At("script")
  /\ \/ /\ Execute
        /\ \/ /\ next # Last /\ UNCHANGED pc
              /\ Quiet /\ UNCHANGED <<cwd, pidFile, http>>
           \/ next = Last /\ Return("returned")
     \/ (StatementFails \/ NotConnected) /\ Return("failed")

Reload ==
  /\ At("loop") /\ reload
  /\ reload' = FALSE
  /\ \/ ConfigFound /\ LookForFile /\ Goto("connect")
     \/ ~ConfigFound /\ UNCHANGED <<schemaVars, pc>>
  /\ UNCHANGED <<env, run, pidFile, named, http, handlers, exiting, ended, starts>>

Leave ==
  /\ At("loop") /\ exiting
  /\ Goto("stop")
  /\ Quiet /\ UNCHANGED <<schemaVars, cwd, pidFile, http>>

(* It stands for ever, or until it is killed. *)
Hang ==
  /\ Goto("hung")
  /\ Quiet /\ UNCHANGED <<schemaVars, cwd, pidFile, http>>

(* HttpServer::stop() joins its threads; joining one that stayed with the  *)
(* parent is undefined, and either returns or does not.                    *)
StopServer ==
  /\ At("stop")
  /\ \/ /\ http' = "none" /\ Goto("remove")
        /\ Quiet /\ UNCHANGED <<schemaVars, cwd, pidFile>>
     \/ http = "left behind" /\ Hang

LeaveMain(how) ==
  /\ At("remove")
  /\ GiveUp("ended")
  /\ Goto("off") /\ ended' = how /\ http' = "none"
  /\ UNCHANGED <<env, run, named, handlers, flags, starts>>

KeepPid == pidFile' = IF pidFile = "self" THEN "gone" ELSE pidFile

RemovePid_Bug == \* only the file that names this process is removed
  /\ LeaveMain("returned") /\ UNCHANGED faults
  /\ pidFile' = IF cmd = "daemon" /\ pidFile = "self" THEN "none" ELSE pidFile

(* main() after run(), whatever run() returned. An error of remove() goes  *)
(* to a variable that nobody looks at.                                     *)
RemovePid ==
  \/ /\ LeaveMain("returned") /\ UNCHANGED faults
     /\ IF cmd = "daemon" THEN pidFile' = "none" ELSE KeepPid
  \/ /\ cmd = "daemon" /\ pidFile # "none"
     /\ Fails /\ LeaveMain("not removed")
     /\ KeepPid

(* SIGTERM or SIGINT reaches the process. handle_signal stops the server   *)
(* and logs that, which does not return on a thread of the pool, nor where *)
(* the mutex of the logger is held. What sigTERM does inside Logger::write *)
(* is SignalLogging's.                                                     *)
Term ==
  /\ Alive /\ ~At("hung")
  /\ \/ term = "default" /\ EndSchema /\ End("signal")
     \/ term = "handle_signal" /\ EndSchema /\ End("handle_signal")
     \/ term = "handle_signal" /\ Hang
     \/ /\ term = "sigTERM" /\ exiting' = TRUE
        /\ UNCHANGED <<schemaVars, env, run, pc, pidFile, named, http, handlers, reload, ended, starts>>

Hup ==
  /\ Alive /\ ~At("hung")
  /\ \/ hup = "default" /\ EndSchema /\ End("signal")
     \/ /\ hup = "sigHUP" /\ reload' = TRUE
        /\ UNCHANGED <<schemaVars, env, run, pc, pidFile, named, http, handlers, exiting, ended, starts>>

(* SIGKILL, or an exception that nobody catches *)
Kill == Alive /\ EndSchema /\ End("killed")

(* The operator removes the database. *)
RemoveDatabase ==
  /\ pc \in {"off", "loop"} /\ created
  /\ RemoveFile
  /\ UNCHANGED <<env, run, pc, pidFile, named, http, handlers, flags, ended, starts>>

Step ==
  \/ Detach \/ WritePid \/ Load \/ Serve \/ Bind \/ Listen
  \/ Look \/ LeaveConsole \/ InstallTerm \/ InstallHup
  \/ Connect \/ ConnectSecond \/ FindScript \/ RunStatement
  \/ Reload \/ Leave \/ StopServer \/ RemovePid

Next ==
  \/ StartTest \/ StartSetup \/ StartForeground \/ StartDaemon
  \/ Step
  \/ Term \/ Hup \/ Kill \/ RemoveDatabase

Spec == Init /\ [][Next]_vars

(* The process is scheduled.  The loop looks at exiting in every cycle,    *)
(* after a reload, too, so that SIGHUPs do not keep it from leaving.  That *)
(* its cycles end is assumed here: PollLoop's ShutdownCompletes shows it   *)
(* where every server answers or fails, and PollLoopHang what happens      *)
(* where one does neither.                                                 *)
FairSpec == Spec /\ WF_vars(Step) /\ SF_vars(Leave)

----------------------------------------------------------------------------
Labels ==
  {"off", "detach", "pid", "load", "serve", "bind", "listen", "look", "leave",
   "term", "hup", "connect", "connect2", "setup", "script", "loop", "stop", "remove", "hung"}

(* Every variable has its type. *)
TypeOK ==
  /\ SchemaTypeOK
  /\ env \in Environments
  /\ cmd \in Commands
  /\ pc \in Labels
  /\ cwd \in {"start", "/"}
  /\ pidFile \in {"none", "self", "gone", "empty"}
  /\ http \in {"none", "serving", "left behind"}
  /\ term \in {"default", "handle_signal", "sigTERM"}
  /\ hup \in {"default", "sigHUP"}
  /\ {named, exiting, reload} \subseteq BOOLEAN
  /\ ended \in {"not yet", "returned", "not removed", "failed", "signal", "handle_signal",
                "killed"}
  /\ starts \in 0 .. MaxStarts

(* The PID file that a daemon has written names it while it polls, if the  *)
(* HTTP server has not forked since; and a daemon that comes back from     *)
(* run(), with an error or without, leaves no PID file, also where the     *)
(* file is empty or named its parent, unless it is the removal that fails. *)
PidFileTruthful ==
  /\ At("loop") /\ named /\ (env.http => env.stay) => pidFile = "self"
  /\ At("off") /\ cmd = "daemon" /\ ended = "returned" => pidFile = "none"

(* Once run() polls or sets up its database, a signal asks it to leave and *)
(* does not end it: the order in which the handlers are installed leaves   *)
(* HttpServer's in place only before that.                                 *)
SignalsAreRequests ==
  [][Running /\ pc \in {"connect", "connect2", "setup", "script", "loop"} /\ At("off")'
       => ended' = "killed"]_vars

(* No start and no reload drops a table that is there; only --setupdb,     *)
(* which was asked to, does, and the operator.                             *)
TablesSurviveStarts ==
  [][tables \subseteq tables' \/ cmd = "setupdb" \/ ~created']_vars

(* A daemon in its loop that is asked to leave comes back to main() and    *)
(* removes its PID file, if the file can be removed; it never waits for    *)
(* threads of another process, as one in the foreground may.  Assumed are  *)
(* the fairness above, that is that polling the servers comes to its end,  *)
(* and that no signal finds a thread inside Logger::write, for such a one  *)
(* waits for itself (SignalSelfLock).                                      *)
StopRemovesPid ==
  (At("loop") /\ cmd = "daemon" /\ exiting)
     ~> (pidFile = "none" \/ ended \in {"killed", "not removed"})
=============================================================================
