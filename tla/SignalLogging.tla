--------------------------- MODULE SignalLogging ---------------------------
(***************************************************************************)
(* Signal handlers and the three mutexes of scastd: Logger::mtx,           *)
(* StatusLogger::mtx_ and dbMutex (src/src/logger.cpp, StatusLogger.cpp,   *)
(* and the handlers sigUSR1, sigTERM, sigHUP of scastd.cpp; sigUSR2 and    *)
(* sigINT do what sigTERM does).                                           *)
(*                                                                         *)
(* The kernel runs a handler on any thread, at any statement, on top of    *)
(* what the thread was doing; every handler writes to the log before it    *)
(* sets its flag. The state of a thread is therefore a stack of frames,    *)
(* its own code below and the handlers it is in above. Frames wait for     *)
(* mutexes that belong to threads: a thread that waits for a mutex it owns *)
(* waits for ever, as a std::mutex on glibc does.                          *)
(***************************************************************************)
EXTENDS Integers, Sequences, SequencesExt

CONSTANTS
  Threads,      (* threads that may log: the main one, workers, HTTP        *)
  Workers,      (* those that record a poll under dbMutex                   *)
  NoThread,     (* the owner of a free mutex                                *)
  MaxLogs,      (* bound on the log calls and polls of a thread             *)
  MaxSent       (* bounds on the signals sent of each kind                  *)

ASSUME SignalAssumption ==
  /\ Workers \subseteq Threads
  /\ NoThread \notin Threads
  /\ MaxLogs \in Nat
  /\ MaxSent \in [{"SIGUSR1", "SIGTERM", "SIGHUP"} -> Nat]

Signals == {"SIGUSR1", "SIGTERM", "SIGHUP"}
Mutexes == {"db", "status", "logger"}
(* A thread takes the mutexes in this order.                               *)
Rank == [db |-> 1, status |-> 2, logger |-> 3]

(* "log", "status" and "db" wait for a mutex; "write" owns the logger's,   *)
(* "entry" the status log's, and "record" to "leave" dbMutex.              *)
Labels == {"run", "db", "record", "status", "entry", "leave", "read", "log", "write", "set"}
Frames == [of : {"code"} \cup Signals, at : Labels, resume : BOOLEAN]

VARIABLES
  stack,        (* the frames of each thread, the running one last          *)
  owner,        (* the thread that owns each mutex                          *)
  logs,         (* log calls and polls each thread has started              *)
  pending,      (* signals sent to the process and not yet taken            *)
  sent,         (* signals sent so far                                      *)
  paused, exiting, reloadConfig,
  toggles,      (* history: handlers of SIGUSR1 that have returned          *)
  overlap       (* history: were two threads in one at the same time?       *)

flags == <<paused, exiting, reloadConfig>>
history == <<toggles, overlap>>
kernel == <<pending, sent>>
vars == <<stack, owner, logs, kernel, flags, history>>

Frame(of, at) == [of |-> of, at |-> at, resume |-> FALSE]

Init ==
  /\ stack = [t \in Threads |-> <<Frame("code", "run")>>]
  /\ owner = [m \in Mutexes |-> NoThread]
  /\ logs = [t \in Threads |-> 0]
  /\ pending = {} /\ sent = [s \in Signals |-> 0]
  /\ paused = FALSE /\ exiting = FALSE /\ reloadConfig = FALSE
  /\ toggles = 0 /\ overlap = FALSE

Top(t) == Last(stack[t])
At(t, label) == Top(t).at = label
Goto(t, label) == stack' = [stack EXCEPT ![t][Len(stack[t])].at = label]
Return(t) == stack' = [stack EXCEPT ![t] = Front(@)]
InHandler(t, s) == \E i \in DOMAIN stack[t] : stack[t][i].of = s

Lock(t, m) == owner[m] = NoThread /\ owner' = [owner EXCEPT ![m] = t]
Unlock(m) == owner' = [owner EXCEPT ![m] = NoThread]

----------------------------------------------------------------------------
(* The kernel.                                                             *)

Send(s) ==
  /\ sent[s] < MaxSent[s]
  /\ sent' = [sent EXCEPT ![s] = @ + 1]
  /\ pending' = pending \cup {s}
  /\ UNCHANGED <<stack, owner, logs, flags, history>>

Begin(t, s) == stack' = [stack EXCEPT ![t] =
                 Append(@, Frame(s, IF s = "SIGUSR1" THEN "read" ELSE "log"))]

Overlap(t, s) ==
  overlap' = \/ overlap
             \/ s = "SIGUSR1" /\ \E u \in Threads \ {t} : InHandler(u, s)

Take_Bug(t, s) == \* a handler does not block its own signal
  /\ s \in pending
  /\ Begin(t, s)
  /\ pending' = pending \ {s}
  /\ Overlap(t, s)
  /\ UNCHANGED <<owner, logs, sent, flags, toggles>>

(* signal() blocks a signal on the thread that is handling it, and only    *)
(* there: another thread may take the next one.                            *)
Take(t, s) ==
  /\ s \in pending
  /\ ~InHandler(t, s)
  /\ Begin(t, s)
  /\ pending' = pending \ {s}
  /\ Overlap(t, s)
  /\ UNCHANGED <<owner, logs, sent, flags, toggles>>

----------------------------------------------------------------------------
(* The program of a thread: log calls, and the locked part of a poll.      *)

(* A log call, from outside or from the statements under dbMutex.          *)
StartLog(t) ==
  /\ At(t, "run") \/ At(t, "record")
  /\ logs[t] < MaxLogs
  /\ logs' = [logs EXCEPT ![t] = @ + 1]
  /\ Goto(t, "log")
  /\ UNCHANGED <<owner, kernel, flags, history>>

StartRecord(t) ==
  /\ t \in Workers
  /\ At(t, "run")
  /\ logs[t] < MaxLogs
  /\ logs' = [logs EXCEPT ![t] = @ + 1]
  /\ Goto(t, "db")
  /\ UNCHANGED <<owner, kernel, flags, history>>

LockDb(t) ==
  /\ At(t, "db")
  /\ Lock(t, "db")
  /\ Goto(t, "record")
  /\ UNCHANGED <<logs, kernel, flags, history>>

EndStatements(t) ==
  /\ At(t, "record")
  /\ Goto(t, "status")
  /\ UNCHANGED <<owner, logs, kernel, flags, history>>

LockStatus(t) ==
  /\ At(t, "status")
  /\ Lock(t, "status")
  /\ Goto(t, "entry")
  /\ UNCHANGED <<logs, kernel, flags, history>>

(* The entry is written, and processServer returns. *)
EndEntry(t) ==
  /\ At(t, "entry")
  /\ Unlock("status")
  /\ Goto(t, "leave")
  /\ UNCHANGED <<logs, kernel, flags, history>>

EndRecord(t) ==
  /\ At(t, "leave")
  /\ Unlock("db")
  /\ Goto(t, "run")
  /\ UNCHANGED <<logs, kernel, flags, history>>

----------------------------------------------------------------------------
(* Logger::write, in the program and in the handlers.                      *)

LockLogger(t) ==
  /\ At(t, "log")
  /\ Lock(t, "logger")
  /\ Goto(t, "write")
  /\ UNCHANGED <<logs, kernel, flags, history>>

AfterWrite(t) ==
  IF Top(t).of # "code" THEN "set"
  ELSE IF owner["db"] = t THEN "record" ELSE "run"

EndWrite_Bug(t) == \* the lock outlives the call
  /\ At(t, "write")
  /\ Goto(t, AfterWrite(t))
  /\ UNCHANGED <<owner, logs, kernel, flags, history>>

EndWrite(t) ==
  /\ At(t, "write")
  /\ Unlock("logger")
  /\ Goto(t, AfterWrite(t))
  /\ UNCHANGED <<logs, kernel, flags, history>>

----------------------------------------------------------------------------
(* The handlers.                                                           *)

(* sigUSR1 chooses its branch before it logs. *)
ReadPaused(t) ==
  /\ At(t, "read")
  /\ stack' = [stack EXCEPT ![t][Len(stack[t])] = [@ EXCEPT !.at = "log", !.resume = paused]]
  /\ UNCHANGED <<owner, logs, kernel, flags, history>>

SetFlag_Bug(t) == \* sigTERM only logs
  /\ At(t, "set")
  /\ paused' = IF Top(t).of = "SIGUSR1" THEN ~Top(t).resume ELSE paused
  /\ toggles' = IF Top(t).of = "SIGUSR1" THEN toggles + 1 ELSE toggles
  /\ reloadConfig' = (reloadConfig \/ Top(t).of = "SIGHUP")
  /\ Return(t)
  /\ UNCHANGED <<owner, logs, kernel, exiting, overlap>>

SetFlag(t) ==
  /\ At(t, "set")
  /\ paused' = IF Top(t).of = "SIGUSR1" THEN ~Top(t).resume ELSE paused
  /\ toggles' = IF Top(t).of = "SIGUSR1" THEN toggles + 1 ELSE toggles
  /\ exiting' = (exiting \/ Top(t).of = "SIGTERM")
  /\ reloadConfig' = (reloadConfig \/ Top(t).of = "SIGHUP")
  /\ Return(t)
  /\ UNCHANGED <<owner, logs, kernel, overlap>>

----------------------------------------------------------------------------
(* What a thread does once it has begun it. *)
Continue(t) ==
  \/ LockDb(t) \/ EndStatements(t) \/ LockStatus(t) \/ EndEntry(t) \/ EndRecord(t)
  \/ LockLogger(t) \/ EndWrite(t)
  \/ ReadPaused(t) \/ SetFlag(t)

Next ==
  \/ \E s \in Signals : Send(s) \/ \E t \in Threads : Take(t, s)
  \/ \E t \in Threads : StartLog(t) \/ StartRecord(t) \/ Continue(t)

Spec == Init /\ [][Next]_vars

(* The kernel schedules every thread and delivers every signal.            *)
FairSpec ==
  /\ Spec
  /\ \A t \in Threads : WF_vars(Continue(t))
  /\ \A s \in Signals : WF_vars(\E t \in Threads : Take(t, s))

----------------------------------------------------------------------------
(* Properties.                                                             *)

(* Every variable has its type: no thread has two frames of one signal. *)
TypeOK ==
  /\ stack \in [Threads -> Seq(Frames)]
  /\ \A t \in Threads :
       /\ Len(stack[t]) \in 1 .. 4
       /\ \A i, j \in DOMAIN stack[t] : i # j => stack[t][i].of # stack[t][j].of
  /\ owner \in [Mutexes -> Threads \cup {NoThread}]
  /\ logs \in [Threads -> 0 .. MaxLogs]
  /\ pending \in SUBSET Signals
  /\ \A s \in Signals : sent[s] \in 0 .. MaxSent[s]
  /\ {paused, exiting, reloadConfig, overlap} \subseteq BOOLEAN
  /\ toggles \in 0 .. MaxSent["SIGUSR1"]

WaitsFor(t, m) == At(t, IF m = "logger" THEN "log" ELSE m)
SelfLocked(t) == WaitsFor(t, "logger") /\ owner["logger"] = t

(* A thread that waits for a mutex owns only mutexes that come before it   *)
(* in Rank, or is a thread that a signal stopped inside Logger::write:     *)
(* the mutexes of different threads never form a circle, even with         *)
(* handlers on top of every statement.                                     *)
LocksAreOrdered ==
  \A t \in Threads : \A m \in Mutexes :
    WaitsFor(t, m) =>
      \/ SelfLocked(t)
      \/ \A n \in Mutexes : owner[n] = t => Rank[n] < Rank[m]

(* Unless the kernel ran sigUSR1 on two threads at once, every SIGUSR1     *)
(* that was handled has toggled paused, whatever other handlers came       *)
(* between its reading paused and its setting it.                          *)
PauseParity ==
  ~overlap /\ (\A t \in Threads : ~InHandler(t, "SIGUSR1")) =>
    paused = (toggles % 2 = 1)

(* SIGTERM is handled, unless a signal stopped a thread inside             *)
(* Logger::write: other threads never keep the handler from its flag.      *)
TermHandledUnlessSelfLocked ==
  "SIGTERM" \in pending ~> (exiting \/ \E t \in Threads : SelfLocked(t))

(* tests/test_pid.cpp: a daemon that is sent SIGTERM ends.                 *)
TermHandled == "SIGTERM" \in pending ~> exiting
=============================================================================
