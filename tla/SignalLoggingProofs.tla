------------------------ MODULE SignalLoggingProofs ------------------------
(***************************************************************************)
(* Proofs about SignalLogging, for every set of threads and workers and    *)
(* every number of log calls and signals: the mutexes of different threads *)
(* form no circle, whatever handlers run on top of what statements;        *)
(* handlers of SIGUSR1 that do not overlap toggle; and a thread never has  *)
(* two frames of one signal.                                               *)
(***************************************************************************)
EXTENDS SignalLogging, SequenceTheorems, FiniteSetTheorems, TLAPS

CodeLabels == {"run", "db", "record", "status", "entry", "leave", "log", "write"}
HandlerLabels == {"read", "log", "write", "set"}
UnderDb == {"record", "status", "entry", "leave"}

(* A stack is the thread's own code and handlers on top of it; what one of *)
(* them may have read is paused.                                           *)
StackInv ==
  /\ paused \in BOOLEAN
  /\ stack \in [Threads -> Seq(Frames)]
  /\ \A t \in Threads : Len(stack[t]) >= 1
  /\ \A t \in Threads : \A i \in 1 .. Len(stack[t]) :
       /\ stack[t][i].of = "code" <=> i = 1
       /\ i = 1 => stack[t][i].at \in CodeLabels
       /\ i > 1 => stack[t][i].at \in HandlerLabels

(* Only a thread's own code takes dbMutex and the status log's mutex. *)
CodeLockInv ==
  /\ owner \in [Mutexes -> Threads \cup {NoThread}]
  /\ \A t \in Threads :
       /\ stack[t][1].at \in UnderDb => owner["db"] = t
       /\ owner["db"] = t => stack[t][1].at \in UnderDb \cup {"log", "write"}
       /\ owner["status"] = t <=> stack[t][1].at = "entry"

(* One frame of its owner is inside Logger::write, and no other. *)
LoggerInv ==
  \A t \in Threads :
    /\ \A i \in 1 .. Len(stack[t]) : stack[t][i].at = "write" => owner["logger"] = t
    /\ \A i, j \in 1 .. Len(stack[t]) :
         stack[t][i].at = "write" /\ stack[t][j].at = "write" => i = j
    /\ owner["logger"] = t => \E i \in 1 .. Len(stack[t]) : stack[t][i].at = "write"

(* As long as handlers of SIGUSR1 have not overlapped there is at most one *)
(* of them, and what it read is still what paused is.                      *)
ToggleInv ==
  /\ overlap \in BOOLEAN /\ toggles \in Nat
  /\ ~overlap =>
       /\ paused <=> toggles % 2 = 1
       /\ \A t, u \in Threads : \A i \in 1 .. Len(stack[t]), j \in 1 .. Len(stack[u]) :
            stack[t][i].of = "SIGUSR1" /\ stack[u][j].of = "SIGUSR1" => t = u /\ i = j
       /\ \A t \in Threads : \A i \in 1 .. Len(stack[t]) :
            stack[t][i].of = "SIGUSR1" /\ stack[t][i].at # "read" =>
              stack[t][i].resume = paused

LockInv == StackInv /\ CodeLockInv /\ LoggerInv

----------------------------------------------------------------------------
(* What the three ways to change a stack do to its frames.                 *)

Changed(t, at, resume) ==
  /\ stack' \in [Threads -> Seq(Frames)]
  /\ \A u \in Threads : Len(stack'[u]) = Len(stack[u])
  /\ \A u \in Threads : \A i \in 1 .. Len(stack[u]) :
       stack'[u][i] = IF u = t /\ i = Len(stack[t])
                      THEN [of |-> stack[t][i].of, at |-> at, resume |-> resume]
                      ELSE stack[u][i]

Pushed(t, s) ==
  /\ stack' \in [Threads -> Seq(Frames)]
  /\ \A u \in Threads : Len(stack'[u]) = IF u = t THEN Len(stack[u]) + 1 ELSE Len(stack[u])
  /\ \A u \in Threads : \A i \in 1 .. Len(stack[u]) : stack'[u][i] = stack[u][i]
  /\ stack'[t][Len(stack[t]) + 1] = Frame(s, IF s = "SIGUSR1" THEN "read" ELSE "log")

Popped(t) ==
  /\ stack' \in [Threads -> Seq(Frames)]
  /\ Len(stack[t]) >= 2
  /\ \A u \in Threads : Len(stack'[u]) = IF u = t THEN Len(stack[u]) - 1 ELSE Len(stack[u])
  /\ \A u \in Threads : \A i \in 1 .. Len(stack'[u]) : stack'[u][i] = stack[u][i]

(* Replacing the top frame of a stack. *)
LEMMA ChangeTop ==
  ASSUME StackInv, NEW t \in Threads, NEW at \in Labels, NEW resume \in BOOLEAN,
         stack' = [stack EXCEPT ![t] = [stack[t] EXCEPT ![Len(stack[t])] =
                     [of |-> stack[t][Len(stack[t])].of, at |-> at, resume |-> resume]]]
  PROVE  Changed(t, at, resume)
PROOF
  <1> DEFINE n == Len(stack[t])
             f == [of |-> stack[t][n].of, at |-> at, resume |-> resume]
  <1>1. /\ stack[t] \in Seq(Frames) /\ n \in 1 .. Len(stack[t])
        /\ stack[t][n] \in Frames
    BY DEF StackInv
  <1>2. f \in Frames
    BY <1>1, Zenon DEF Frames
  <1> HIDE DEF f, n
  <1>3. /\ [stack[t] EXCEPT ![n] = f] \in Seq(Frames)
        /\ Len([stack[t] EXCEPT ![n] = f]) = Len(stack[t])
        /\ \A j \in 1 .. Len(stack[t]) :
             [stack[t] EXCEPT ![n] = f][j] = IF j = n THEN f ELSE stack[t][j]
    BY <1>1, <1>2, ExceptSeq
  <1>4. stack' = [stack EXCEPT ![t] = [stack[t] EXCEPT ![n] = f]]
    BY DEF f, n
  <1>5. stack' \in [Threads -> Seq(Frames)]
    BY <1>3, <1>4 DEF StackInv
  <1>6. /\ stack'[t] = [stack[t] EXCEPT ![n] = f]
        /\ \A u \in Threads : u # t => stack'[u] = stack[u]
    BY <1>4 DEF StackInv
  <1>7. \A u \in Threads : Len(stack'[u]) = Len(stack[u])
    BY <1>3, <1>6
  <1>8. ASSUME NEW u \in Threads, NEW i \in 1 .. Len(stack[u])
        PROVE  stack'[u][i] = IF u = t /\ i = n THEN f ELSE stack[u][i]
    BY <1>3, <1>6
  <1> QED
    BY <1>5, <1>7, <1>8 DEF Changed, f, n

(* A statement of the program or of a handler. *)
LEMMA GotoTop ==
  ASSUME StackInv, NEW t \in Threads, NEW label \in Labels, Goto(t, label)
  PROVE  Changed(t, label, stack[t][Len(stack[t])].resume)
PROOF
  <1> DEFINE top == stack[t][Len(stack[t])]
  <1>1. top \in Frames
    BY DEF StackInv
  <1>2. [top EXCEPT !.at = label] = [of |-> top.of, at |-> label, resume |-> top.resume]
    BY <1>1 DEF Frames
  <1>3. top.resume \in BOOLEAN
    BY <1>1 DEF Frames
  <1> QED
    BY <1>2, <1>3, ChangeTop DEF Goto

(* A handler that begins. *)
LEMMA PushTop ==
  ASSUME StackInv, NEW t \in Threads, NEW s \in Signals, Begin(t, s)
  PROVE  Pushed(t, s)
PROOF
  <1> DEFINE f == Frame(s, IF s = "SIGUSR1" THEN "read" ELSE "log")
  <1>1. f \in Frames
    BY DEF Frame, Frames, Labels
  <1>2. stack[t] \in Seq(Frames)
    BY DEF StackInv
  <1> HIDE DEF f
  <1>3. /\ Append(stack[t], f) \in Seq(Frames)
        /\ Len(Append(stack[t], f)) = Len(stack[t]) + 1
        /\ Append(stack[t], f)[Len(stack[t]) + 1] = f
        /\ \A i \in 1 .. Len(stack[t]) : Append(stack[t], f)[i] = stack[t][i]
    BY <1>1, <1>2, AppendProperties
  <1>4. stack' = [stack EXCEPT ![t] = Append(stack[t], f)]
    BY DEF Begin, f
  <1>5. stack' \in [Threads -> Seq(Frames)]
    BY <1>3, <1>4 DEF StackInv
  <1>6. /\ stack'[t] = Append(stack[t], f)
        /\ \A u \in Threads : u # t => stack'[u] = stack[u]
    BY <1>4 DEF StackInv
  <1>7. \A u \in Threads : Len(stack'[u]) = IF u = t THEN Len(stack[u]) + 1 ELSE Len(stack[u])
    BY <1>3, <1>6
  <1>8. \A u \in Threads : \A i \in 1 .. Len(stack[u]) : stack'[u][i] = stack[u][i]
    BY <1>3, <1>6
  <1>9. stack'[t][Len(stack[t]) + 1] = f
    BY <1>3, <1>6
  <1> QED
    BY <1>5, <1>7, <1>8, <1>9 DEF Pushed, f

(* A handler that returns; there is code below it. *)
LEMMA PopTop ==
  ASSUME StackInv, NEW t \in Threads, At(t, "set"), Return(t)
  PROVE  Popped(t)
PROOF
  <1>1. stack[t] \in Seq(Frames) /\ Len(stack[t]) \in Nat /\ Len(stack[t]) >= 1
    BY DEF StackInv
  <1>2. stack[t][Len(stack[t])].at = "set"
    BY DEF At, Top, Last
  <1>3. Len(stack[t]) >= 2
    BY <1>1, <1>2 DEF StackInv, CodeLabels
  <1>4. \A i \in 1 .. Len(stack[t]) - 1 : stack[t][i] \in Frames
    BY <1>1
  <1>5. /\ Front(stack[t]) \in Seq(Frames)
        /\ Len(Front(stack[t])) = Len(stack[t]) - 1
        /\ \A i \in 1 .. Len(stack[t]) - 1 : Front(stack[t])[i] = stack[t][i]
    BY <1>1, <1>3, <1>4, SubSeqProperties DEF Front
  <1>6. stack' \in [Threads -> Seq(Frames)]
    BY <1>5 DEF Return, StackInv
  <1>7. /\ stack'[t] = Front(stack[t])
        /\ \A u \in Threads : u # t => stack'[u] = stack[u]
    BY DEF Return, StackInv
  <1>8. \A u \in Threads : Len(stack'[u]) = IF u = t THEN Len(stack[u]) - 1 ELSE Len(stack[u])
    BY <1>5, <1>7
  <1>9. \A u \in Threads : \A i \in 1 .. Len(stack'[u]) : stack'[u][i] = stack[u][i]
    BY <1>5, <1>7
  <1> QED
    BY <1>3, <1>6, <1>8, <1>9 DEF Popped

----------------------------------------------------------------------------
(* What each action does to the frames.                                    *)

(* The statement that follows a line of the log. *)
LEMMA AfterWriteLabel ==
  ASSUME NEW t \in Threads
  PROVE  AfterWrite(t) \in {"set", "record", "run"}
  BY DEF AfterWrite

(* A statement: the label it is at, and the one it goes to. *)
Moves(t, from, to) ==
  /\ stack[t][Len(stack[t])].at = from
  /\ Changed(t, to, stack[t][Len(stack[t])].resume)

(* The labels of each statement. *)
LEMMA StatementMoves ==
  ASSUME StackInv, NEW t \in Threads
  PROVE  /\ StartLog(t) => Moves(t, "run", "log") \/ Moves(t, "record", "log")
         /\ StartRecord(t) => Moves(t, "run", "db")
         /\ LockDb(t) => Moves(t, "db", "record")
         /\ EndStatements(t) => Moves(t, "record", "status")
         /\ LockStatus(t) => Moves(t, "status", "entry")
         /\ EndEntry(t) => Moves(t, "entry", "leave")
         /\ EndRecord(t) => Moves(t, "leave", "run")
         /\ LockLogger(t) => Moves(t, "log", "write")
         /\ EndWrite(t) => Moves(t, "write", AfterWrite(t))
PROOF
  <1> USE GotoTop DEF Moves, At, Top, Last, Labels
  <1>1. StartLog(t) => Moves(t, "run", "log") \/ Moves(t, "record", "log")
    BY DEF StartLog
  <1>2. StartRecord(t) => Moves(t, "run", "db")
    BY DEF StartRecord
  <1>3. LockDb(t) => Moves(t, "db", "record")
    BY DEF LockDb
  <1>4. EndStatements(t) => Moves(t, "record", "status")
    BY DEF EndStatements
  <1>5. LockStatus(t) => Moves(t, "status", "entry")
    BY DEF LockStatus
  <1>6. EndEntry(t) => Moves(t, "entry", "leave")
    BY DEF EndEntry
  <1>7. EndRecord(t) => Moves(t, "leave", "run")
    BY DEF EndRecord
  <1>8. LockLogger(t) => Moves(t, "log", "write")
    BY DEF LockLogger
  <1>9. EndWrite(t) => Moves(t, "write", AfterWrite(t))
    BY AfterWriteLabel DEF EndWrite
  <1> QED
    BY <1>1, <1>2, <1>3, <1>4, <1>5, <1>6, <1>7, <1>8, <1>9

(* A frame with another label and another branch. *)
LEMMA FrameChanges ==
  ASSUME NEW f \in Frames, NEW at, NEW resume
  PROVE  [f EXCEPT !.at = at, !.resume = resume]
           = [of |-> f.of, at |-> at, resume |-> resume]
PROOF
  <1>1. [f EXCEPT !.at = at] = [of |-> f.of, at |-> at, resume |-> f.resume]
    BY DEF Frames
  <1>2. [[of |-> f.of, at |-> at, resume |-> f.resume] EXCEPT !.resume = resume]
          = [of |-> f.of, at |-> at, resume |-> resume]
    OBVIOUS
  <1> QED
    BY <1>1, <1>2

(* sigUSR1 reads paused. *)
LEMMA ReadChanges ==
  ASSUME StackInv, NEW t \in Threads, ReadPaused(t)
  PROVE  /\ stack[t][Len(stack[t])].at = "read"
         /\ Changed(t, "log", paused)
PROOF
  <1> DEFINE top == stack[t][Len(stack[t])]
  <1>1. top \in Frames
    BY DEF StackInv
  <1>2. [top EXCEPT !.at = "log", !.resume = paused]
          = [of |-> top.of, at |-> "log", resume |-> paused]
    BY <1>1, FrameChanges
  <1>3. "log" \in Labels
    BY DEF Labels
  <1>4. stack' = [stack EXCEPT ![t] = [stack[t] EXCEPT ![Len(stack[t])] =
                    [of |-> top.of, at |-> "log", resume |-> paused]]]
    BY <1>2 DEF ReadPaused
  <1>5. Changed(t, "log", paused)
    BY <1>3, <1>4, ChangeTop DEF StackInv
  <1> QED
    BY <1>5 DEF ReadPaused, At, Top, Last

----------------------------------------------------------------------------
(* A statement keeps the frames in order, if it goes to one of its kind. *)
LEMMA ChangeKeepsStack ==
  ASSUME StackInv, NEW t \in Threads, NEW at, NEW resume, Changed(t, at, resume),
         paused' \in BOOLEAN,
         Len(stack[t]) = 1 => at \in CodeLabels,
         Len(stack[t]) > 1 => at \in HandlerLabels
  PROVE  StackInv'
PROOF
  <1>1. /\ stack' \in [Threads -> Seq(Frames)]
        /\ \A u \in Threads : Len(stack'[u]) >= 1
    BY DEF Changed, StackInv
  <1>2. ASSUME NEW u \in Threads, NEW i \in 1 .. Len(stack'[u])
        PROVE  /\ stack'[u][i].of = "code" <=> i = 1
               /\ i = 1 => stack'[u][i].at \in CodeLabels
               /\ i > 1 => stack'[u][i].at \in HandlerLabels
    <2>1. i \in 1 .. Len(stack[u])
      BY <1>2 DEF Changed
    <2>2. CASE u = t /\ i = Len(stack[t])
      <3>1. stack'[u][i] = [of |-> stack[t][i].of, at |-> at, resume |-> resume]
        BY <2>1, <2>2 DEF Changed
      <3>2. stack'[u][i].of = stack[u][i].of /\ stack'[u][i].at = at
        BY <2>2, <3>1
      <3>3. i \in Nat /\ (i = 1 => Len(stack[t]) = 1) /\ (i > 1 => Len(stack[t]) > 1)
        BY <2>1, <2>2
      <3> QED
        BY <2>1, <3>2, <3>3 DEF StackInv
    <2>3. CASE ~(u = t /\ i = Len(stack[t]))
      <3>1. stack'[u][i] = stack[u][i]
        BY <2>1, <2>3 DEF Changed
      <3> QED
        BY <2>1, <3>1 DEF StackInv
    <2> QED
      BY <2>2, <2>3
  <1> QED
    BY <1>1, <1>2 DEF StackInv

(* The frame that runs is the thread's own code or a handler. *)
LEMMA TopFacts ==
  ASSUME StackInv, NEW t \in Threads
  PROVE  /\ Len(stack[t]) \in Nat
         /\ Len(stack[t]) = 1 \/ Len(stack[t]) > 1
         /\ ~(Len(stack[t]) = 1 /\ Len(stack[t]) > 1)
         /\ stack[t][Len(stack[t])] \in Frames
         /\ stack[t][Len(stack[t])].of = "code" <=> Len(stack[t]) = 1
         /\ Len(stack[t]) = 1 => stack[t][Len(stack[t])].at \in CodeLabels
         /\ Len(stack[t]) > 1 => stack[t][Len(stack[t])].at \in HandlerLabels
PROOF
  <1> DEFINE n == Len(stack[t])
  <1>1. /\ stack[t] \in Seq(Frames)
        /\ n \in Nat /\ n >= 1 /\ n \in 1 .. Len(stack[t])
    BY DEF StackInv
  <1> HIDE DEF n
  <1>2. stack[t][n] \in Frames
    BY <1>1
  <1>3. (n = 1 \/ n > 1) /\ ~(n = 1 /\ n > 1)
    BY <1>1
  <1>4. /\ stack[t][n].of = "code" <=> n = 1
        /\ n = 1 => stack[t][n].at \in CodeLabels
        /\ n > 1 => stack[t][n].at \in HandlerLabels
    BY <1>1 DEF StackInv
  <1> QED
    BY <1>1, <1>2, <1>3, <1>4, Zenon DEF n

(* StackInv is inductive. *)
LEMMA StackStep ==
  ASSUME StackInv, [Next]_vars
  PROVE  StackInv'
PROOF
  <1>1. CASE UNCHANGED vars
    BY <1>1 DEF vars, flags, StackInv
  <1>2. ASSUME NEW s \in Signals, Send(s)
        PROVE  StackInv'
    BY <1>2 DEF Send, flags, StackInv
  <1>3. ASSUME NEW t \in Threads, NEW s \in Signals, Take(t, s)
        PROVE  StackInv'
    <2>1. Pushed(t, s) /\ paused' = paused
      BY <1>3, PushTop DEF Take, flags
    <2>2. s # "code"
      BY DEF Signals
    <2>3. ASSUME NEW u \in Threads, NEW i \in 1 .. Len(stack'[u])
          PROVE  /\ stack'[u][i].of = "code" <=> i = 1
                 /\ i = 1 => stack'[u][i].at \in CodeLabels
                 /\ i > 1 => stack'[u][i].at \in HandlerLabels
      <3>1. CASE u = t /\ i = Len(stack[t]) + 1
        BY <2>1, <2>2, <3>1 DEF Pushed, Frame, StackInv, HandlerLabels
      <3>2. CASE ~(u = t /\ i = Len(stack[t]) + 1)
        <4>1. i \in 1 .. Len(stack[u]) /\ stack'[u][i] = stack[u][i]
          BY <2>1, <3>2 DEF Pushed, StackInv
        <4> QED
          BY <4>1 DEF StackInv
      <3> QED
        BY <3>1, <3>2
    <2>4. /\ stack' \in [Threads -> Seq(Frames)]
          /\ \A u \in Threads : Len(stack'[u]) >= 1
      BY <2>1 DEF Pushed, StackInv
    <2> QED
      BY <2>1, <2>3, <2>4 DEF StackInv
  <1>4. ASSUME NEW t \in Threads,
               StartLog(t) \/ StartRecord(t) \/ LockDb(t) \/ EndStatements(t) \/ LockStatus(t)
                 \/ EndEntry(t) \/ EndRecord(t) \/ LockLogger(t)
        PROVE  StackInv'
    <2>1. paused' = paused /\ paused \in BOOLEAN
      BY <1>4, Zenon DEF StartLog, StartRecord, LockDb, EndStatements, LockStatus, EndEntry,
                         EndRecord, LockLogger, flags, StackInv
    <2>2. \/ Moves(t, "run", "log") \/ Moves(t, "record", "log") \/ Moves(t, "run", "db")
          \/ Moves(t, "db", "record") \/ Moves(t, "record", "status")
          \/ Moves(t, "status", "entry") \/ Moves(t, "entry", "leave")
          \/ Moves(t, "leave", "run") \/ Moves(t, "log", "write")
      BY <1>4, StatementMoves
    <2>3. PICK from \in Labels, to \in Labels :
            /\ Moves(t, from, to)
            /\ from \in CodeLabels => to \in CodeLabels
            /\ from \in HandlerLabels => to \in HandlerLabels
      BY <2>2, Zenon DEF Labels, CodeLabels, HandlerLabels
    <2> QED
      BY <2>1, <2>3, TopFacts, ChangeKeepsStack DEF Moves
  <1>5. ASSUME NEW t \in Threads, EndWrite(t)
        PROVE  StackInv'
    <2>1. Moves(t, "write", AfterWrite(t)) /\ paused' = paused /\ paused \in BOOLEAN
      BY <1>5, StatementMoves DEF EndWrite, flags, StackInv
    <2>2. /\ Len(stack[t]) = 1 => AfterWrite(t) \in CodeLabels
          /\ Len(stack[t]) > 1 => AfterWrite(t) \in HandlerLabels
      BY TopFacts DEF AfterWrite, Top, Last, CodeLabels, HandlerLabels
    <2> QED
      BY <2>1, <2>2, ChangeKeepsStack DEF Moves
  <1>6. ASSUME NEW t \in Threads, ReadPaused(t)
        PROVE  StackInv'
    <2>1. Changed(t, "log", paused) /\ paused' = paused /\ paused \in BOOLEAN
      BY <1>6, ReadChanges DEF ReadPaused, flags, StackInv
    <2> QED
      BY <2>1, ChangeKeepsStack DEF CodeLabels, HandlerLabels
  <1>7. ASSUME NEW t \in Threads, SetFlag(t)
        PROVE  StackInv'
    <2>1. Popped(t)
      BY <1>7, PopTop DEF SetFlag
    <2>2. paused' \in BOOLEAN
      BY <1>7, Zenon DEF SetFlag, StackInv
    <2>3. ASSUME NEW u \in Threads, NEW i \in 1 .. Len(stack'[u])
          PROVE  /\ stack'[u][i].of = "code" <=> i = 1
                 /\ i = 1 => stack'[u][i].at \in CodeLabels
                 /\ i > 1 => stack'[u][i].at \in HandlerLabels
      <3>1. i \in 1 .. Len(stack[u]) /\ stack'[u][i] = stack[u][i]
        BY <2>1 DEF Popped, StackInv
      <3> QED
        BY <3>1 DEF StackInv
    <2>4. /\ stack' \in [Threads -> Seq(Frames)]
          /\ \A u \in Threads : Len(stack'[u]) >= 1
      BY <2>1 DEF Popped, StackInv
    <2> QED
      BY <2>2, <2>3, <2>4 DEF StackInv
  <1> QED
    BY <1>1, <1>2, <1>3, <1>4, <1>5, <1>6, <1>7 DEF Next, Continue

(* What stands at the bottom of the stacks, where the thread's own code is, *)
(* after a step: only a statement of a thread without handlers changes it.  *)
LEMMA BottomFacts ==
  ASSUME StackInv, NEW t \in Threads, NEW at, NEW resume, Changed(t, at, resume)
  PROVE  /\ \A u \in Threads \ {t} : stack'[u][1].at = stack[u][1].at
         /\ Len(stack[t]) = 1 => stack'[t][1].at = at
         /\ Len(stack[t]) > 1 => stack'[t][1].at = stack[t][1].at
PROOF
  <1>1. \A u \in Threads : 1 \in 1 .. Len(stack[u])
    BY DEF StackInv
  <1>2. ASSUME NEW u \in Threads, ~(u = t /\ 1 = Len(stack[t]))
        PROVE  stack'[u][1].at = stack[u][1].at
    BY <1>1, <1>2 DEF Changed
  <1>3. ASSUME Len(stack[t]) = 1
        PROVE  stack'[t][1].at = at
    <2>1. stack'[t][1] = [of |-> stack[t][1].of, at |-> at, resume |-> resume]
      BY <1>1, <1>3 DEF Changed
    <2> QED
      BY <2>1
  <1>4. ASSUME Len(stack[t]) > 1
        PROVE  stack'[t][1].at = stack[t][1].at
    <2>1. ~(Len(stack[t]) = 1)
      BY <1>4, TopFacts, Zenon
    <2> QED
      BY <1>2, <2>1, Zenon
  <1> QED
    BY <1>2, <1>3, <1>4

(* CodeLockInv is inductive. *)
LEMMA CodeLockStep ==
  ASSUME NoThread \notin Threads, StackInv, CodeLockInv, [Next]_vars
  PROVE  CodeLockInv'
PROOF
  <1> USE DEF CodeLockInv, UnderDb
  <1>1. CASE UNCHANGED vars
    BY <1>1 DEF vars
  <1>2. ASSUME NEW s \in Signals, Send(s)
        PROVE  CodeLockInv'
    BY <1>2 DEF Send
  <1>3. ASSUME NEW t \in Threads, NEW s \in Signals, Take(t, s)
        PROVE  CodeLockInv'
    <2>1. Pushed(t, s) /\ owner' = owner
      BY <1>3, PushTop DEF Take
    <2>2. \A u \in Threads : stack'[u][1] = stack[u][1]
      BY <2>1 DEF Pushed, StackInv
    <2> QED
      BY <2>1, <2>2
  <1>4. ASSUME NEW t \in Threads, NEW from \in CodeLabels \ {"log", "write"}, NEW to \in Labels,
               Moves(t, from, to)
        PROVE  /\ stack[t][1].at = from /\ stack'[t][1].at = to
               /\ \A u \in Threads \ {t} : stack'[u][1].at = stack[u][1].at
    <2>1. from \notin HandlerLabels
      BY DEF CodeLabels, HandlerLabels
    <2>2. Len(stack[t]) = 1
      <3>1. stack[t][Len(stack[t])].at = from
        BY <1>4 DEF Moves
      <3> QED
        BY <2>1, <3>1, TopFacts, Zenon
    <2> QED
      BY <1>4, <2>2, BottomFacts DEF Moves
  <1>5. ASSUME NEW t \in Threads,
               StartLog(t) \/ StartRecord(t) \/ LockDb(t) \/ EndStatements(t) \/ LockStatus(t)
                 \/ EndEntry(t) \/ EndRecord(t)
        PROVE  CodeLockInv'
    <2> USE DEF Mutexes, Lock, Unlock
    <2> DEFINE Goes(from, to) ==
                 /\ stack[t][1].at = from /\ stack'[t][1].at = to
                 /\ \A u \in Threads \ {t} : stack'[u][1].at = stack[u][1].at
    <2>0. \A from \in CodeLabels \ {"log", "write"}, to \in Labels :
            Moves(t, from, to) => Goes(from, to)
      BY <1>4
    <2> HIDE DEF Goes
    <2>1. CASE StartLog(t)
      <3>1. Goes("run", "log") \/ Goes("record", "log")
        BY <2>0, <2>1, StatementMoves DEF CodeLabels, Labels
      <3> QED
        BY <2>1, <3>1 DEF StartLog, Goes
    <2>2. CASE StartRecord(t)
      <3>1. Goes("run", "db")
        BY <2>0, <2>2, StatementMoves DEF CodeLabels, Labels
      <3> QED
        BY <2>2, <3>1 DEF StartRecord, Goes
    <2>3. CASE LockDb(t)
      <3>1. Goes("db", "record")
        BY <2>0, <2>3, StatementMoves DEF CodeLabels, Labels
      <3> QED
        BY <2>3, <3>1 DEF LockDb, Goes
    <2>4. CASE EndStatements(t)
      <3>1. Goes("record", "status")
        BY <2>0, <2>4, StatementMoves DEF CodeLabels, Labels
      <3> QED
        BY <2>4, <3>1 DEF EndStatements, Goes
    <2>5. CASE LockStatus(t)
      <3>1. Goes("status", "entry")
        BY <2>0, <2>5, StatementMoves DEF CodeLabels, Labels
      <3> QED
        BY <2>5, <3>1 DEF LockStatus, Goes
    <2>6. CASE EndEntry(t)
      <3>1. Goes("entry", "leave")
        BY <2>0, <2>6, StatementMoves DEF CodeLabels, Labels
      <3> QED
        BY <2>6, <3>1 DEF EndEntry, Goes
    <2>7. CASE EndRecord(t)
      <3>1. Goes("leave", "run")
        BY <2>0, <2>7, StatementMoves DEF CodeLabels, Labels
      <3> QED
        BY <2>7, <3>1 DEF EndRecord, Goes
    <2> QED
      BY <1>5, <2>1, <2>2, <2>3, <2>4, <2>5, <2>6, <2>7
  <1>6. ASSUME NEW t \in Threads, LockLogger(t) \/ EndWrite(t)
        PROVE  CodeLockInv'
    <2>1. /\ LockLogger(t) => Moves(t, "log", "write")
          /\ EndWrite(t) => Moves(t, "write", AfterWrite(t))
      BY StatementMoves
    <2>2. \A u \in Threads \ {t} : stack'[u][1].at = stack[u][1].at
      BY <1>6, <2>1, BottomFacts DEF Moves
    <2>3. /\ owner' \in [Mutexes -> Threads \cup {NoThread}]
          /\ owner'["db"] = owner["db"] /\ owner'["status"] = owner["status"]
      BY <1>6 DEF LockLogger, EndWrite, Lock, Unlock, Mutexes
    <2>4. CASE Len(stack[t]) > 1
      <3>1. stack'[t][1].at = stack[t][1].at
        BY <1>6, <2>1, <2>4, BottomFacts DEF Moves
      <3> QED
        BY <2>2, <2>3, <3>1
    <2>5. CASE Len(stack[t]) = 1
      <3>1. /\ LockLogger(t) => stack[t][1].at = "log" /\ stack'[t][1].at = "write"
            /\ EndWrite(t) => stack[t][1].at = "write" /\ stack'[t][1].at = AfterWrite(t)
        BY <2>1, <2>5, BottomFacts DEF Moves
      <3>2. AfterWrite(t) = IF owner["db"] = t THEN "record" ELSE "run"
        BY <2>5, TopFacts DEF AfterWrite, Top, Last
      <3> QED
        BY <1>6, <2>2, <2>3, <3>1, <3>2
    <2>6. Len(stack[t]) = 1 \/ Len(stack[t]) > 1
      BY TopFacts, Zenon
    <2> QED
      BY <2>4, <2>5, <2>6
  <1>7. ASSUME NEW t \in Threads, ReadPaused(t)
        PROVE  CodeLockInv'
    <2>1. Len(stack[t]) > 1
      <3>1. stack[t][Len(stack[t])].at = "read"
        BY <1>7, ReadChanges
      <3>2. "read" \notin CodeLabels
        BY DEF CodeLabels
      <3> QED
        BY <3>1, <3>2, TopFacts, Zenon
    <2>2. Changed(t, "log", paused) /\ owner' = owner
      BY <1>7, ReadChanges DEF ReadPaused
    <2>3. \A u \in Threads : stack'[u][1].at = stack[u][1].at
      BY <2>1, <2>2, BottomFacts
    <2> QED
      BY <2>2, <2>3
  <1>8. ASSUME NEW t \in Threads, SetFlag(t)
        PROVE  CodeLockInv'
    <2>1. Popped(t) /\ owner' = owner
      BY <1>8, PopTop DEF SetFlag
    <2>2. ASSUME NEW u \in Threads
          PROVE  stack'[u][1] = stack[u][1]
      <3>1. Len(stack'[u]) \in Nat /\ Len(stack'[u]) >= 1
        BY <2>1 DEF Popped, StackInv
      <3>2. 1 \in 1 .. Len(stack'[u])
        BY <3>1
      <3> QED
        BY <2>1, <3>2 DEF Popped
    <2> QED
      BY <2>1, <2>2
  <1> QED
    BY <1>1, <1>2, <1>3, <1>5, <1>6, <1>7, <1>8 DEF Next, Continue

----------------------------------------------------------------------------
(* The frames inside Logger::write. *)

Writes(u, i) == i \in 1 .. Len(stack[u]) /\ stack[u][i].at = "write"

(* A step that leaves the mutex and the frames inside write alone. *)
LEMMA KeepWrites ==
  ASSUME LoggerInv, owner'["logger"] = owner["logger"],
         \A u \in Threads : \A i : Writes(u, i)' <=> Writes(u, i)
  PROVE  LoggerInv'
  BY DEF LoggerInv, Writes

(* A statement changes at most whether its own frame is inside. *)
LEMMA ChangedWrites ==
  ASSUME StackInv, NEW t \in Threads, NEW at, NEW resume, Changed(t, at, resume)
  PROVE  \A u \in Threads : \A i :
           Writes(u, i)' <=> IF u = t /\ i = Len(stack[t]) THEN at = "write" ELSE Writes(u, i)
PROOF
  <1>1. \A u \in Threads : Len(stack[u]) \in 1 .. Len(stack[u])
    BY DEF StackInv
  <1>2. ASSUME NEW u \in Threads, NEW i, ~(u = t /\ i = Len(stack[t]))
        PROVE  Writes(u, i)' <=> Writes(u, i)
    BY <1>2 DEF Changed, Writes
  <1>3. ASSUME NEW u \in Threads, NEW i, u = t /\ i = Len(stack[t])
        PROVE  Writes(u, i)' <=> at = "write"
    <2>1. i \in 1 .. Len(stack[t]) /\ i \in 1 .. Len(stack'[t])
      BY <1>1, <1>3 DEF Changed
    <2>2. stack'[t][i] = [of |-> stack[t][i].of, at |-> at, resume |-> resume]
      BY <1>3, <2>1 DEF Changed
    <2>3. stack'[t][i].at = at
      BY <2>2
    <2> QED
      BY <1>3, <2>1, <2>3 DEF Writes
  <1> QED
    BY <1>2, <1>3

(* LoggerInv is inductive. *)
LEMMA LoggerStep ==
  ASSUME NoThread \notin Threads, StackInv, CodeLockInv, LoggerInv, [Next]_vars
  PROVE  LoggerInv'
PROOF
  <1>1. CASE UNCHANGED vars
    BY <1>1 DEF vars, LoggerInv
  <1>2. ASSUME NEW s \in Signals, Send(s)
        PROVE  LoggerInv'
    BY <1>2 DEF Send, LoggerInv
  <1>3. ASSUME NEW t \in Threads, NEW s \in Signals, Take(t, s)
        PROVE  LoggerInv'
    <2>1. Pushed(t, s) /\ owner' = owner
      BY <1>3, PushTop DEF Take
    <2>2. ASSUME NEW u \in Threads, NEW i
          PROVE  Writes(u, i)' <=> Writes(u, i)
      <3>1. CASE u = t /\ i = Len(stack[t]) + 1
        <4>1. stack'[u][i].at # "write"
          BY <2>1, <3>1 DEF Pushed, Frame
        <4>2. i \notin 1 .. Len(stack[u])
          BY <3>1 DEF StackInv
        <4> QED
          BY <4>1, <4>2 DEF Writes
      <3>2. CASE ~(u = t /\ i = Len(stack[t]) + 1)
        <4>1. i \in 1 .. Len(stack'[u]) <=> i \in 1 .. Len(stack[u])
          BY <2>1, <3>2 DEF Pushed, StackInv
        <4>2. i \in 1 .. Len(stack[u]) => stack'[u][i] = stack[u][i]
          BY <2>1 DEF Pushed
        <4> QED
          BY <4>1, <4>2 DEF Writes
      <3> QED
        BY <3>1, <3>2
    <2> QED
      BY <2>1, <2>2, KeepWrites
  <1>4. ASSUME NEW t \in Threads, NEW at, NEW resume, Changed(t, at, resume),
               stack[t][Len(stack[t])].at # "write", at # "write",
               owner'["logger"] = owner["logger"]
        PROVE  LoggerInv'
    <2>1. ~Writes(t, Len(stack[t]))
      BY <1>4 DEF Writes
    <2>2. ASSUME NEW u \in Threads, NEW i
          PROVE  Writes(u, i)' <=> Writes(u, i)
      BY <1>4, <2>1, ChangedWrites
    <2> QED
      BY <1>4, <2>2, KeepWrites
  <1>5. ASSUME NEW t \in Threads,
               StartLog(t) \/ StartRecord(t) \/ LockDb(t) \/ EndStatements(t) \/ LockStatus(t)
                 \/ EndEntry(t) \/ EndRecord(t)
        PROVE  LoggerInv'
    <2>1. owner'["logger"] = owner["logger"]
      BY <1>5 DEF StartLog, StartRecord, LockDb, EndStatements, LockStatus, EndEntry,
                  EndRecord, Lock, Unlock, CodeLockInv, Mutexes
    <2>2. \E from, to \in Labels \ {"write"} : Moves(t, from, to)
      BY <1>5, StatementMoves DEF Labels
    <2> QED
      BY <1>4, <2>1, <2>2 DEF Moves
  <1>6. ASSUME NEW t \in Threads, LockLogger(t)
        PROVE  LoggerInv'
    <2>1. /\ Moves(t, "log", "write")
          /\ owner["logger"] = NoThread
          /\ owner'["logger"] = t
      BY <1>6, StatementMoves DEF LockLogger, Lock, CodeLockInv, Mutexes
    <2>2. \A u \in Threads : \A i : ~Writes(u, i)
      BY <2>1 DEF LoggerInv, Writes
    <2>3. \A u \in Threads : \A i : Writes(u, i)' <=> u = t /\ i = Len(stack[t])
      BY <2>1, <2>2, ChangedWrites DEF Moves
    <2>4. ASSUME NEW u \in Threads
          PROVE  /\ \A i : Writes(u, i)' => owner'["logger"] = u
                 /\ \A i, j : Writes(u, i)' /\ Writes(u, j)' => i = j
                 /\ owner'["logger"] = u => \E i : Writes(u, i)'
      <3>1. PICK n : n = Len(stack[t])
        OBVIOUS
      <3>2. u = t => Writes(u, n)'
        BY <2>3, <3>1
      <3> QED
        BY <2>1, <2>3, <3>2
    <2> QED
      BY <2>4, Zenon DEF LoggerInv, Writes
  <1>7. ASSUME NEW t \in Threads, EndWrite(t)
        PROVE  LoggerInv'
    <2>1. /\ Moves(t, "write", AfterWrite(t))
          /\ owner'["logger"] = NoThread
      BY <1>7, StatementMoves DEF EndWrite, Unlock, CodeLockInv, Mutexes
    <2>2. Writes(t, Len(stack[t]))
      BY <2>1 DEF Moves, Writes, StackInv
    <2>3. /\ \A u \in Threads \ {t} : \A i : ~Writes(u, i)
          /\ \A i : Writes(t, i) => i = Len(stack[t])
      BY <2>2 DEF LoggerInv, Writes
    <2>4. AfterWrite(t) # "write"
      BY DEF AfterWrite
    <2>5. Changed(t, AfterWrite(t), stack[t][Len(stack[t])].resume)
      BY <2>1 DEF Moves
    <2>6. ASSUME NEW u \in Threads, NEW i
          PROVE  ~Writes(u, i)'
      BY <2>3, <2>4, <2>5, ChangedWrites
    <2> QED
      BY <2>1, <2>6 DEF LoggerInv, Writes
  <1>8. ASSUME NEW t \in Threads, ReadPaused(t)
        PROVE  LoggerInv'
    <2>1. /\ stack[t][Len(stack[t])].at = "read" /\ Changed(t, "log", paused)
          /\ owner' = owner
      BY <1>8, ReadChanges DEF ReadPaused
    <2> QED
      BY <1>4, <2>1
  <1>9. ASSUME NEW t \in Threads, SetFlag(t)
        PROVE  LoggerInv'
    <2>1. Popped(t) /\ owner' = owner /\ stack[t][Len(stack[t])].at = "set"
      BY <1>9, PopTop DEF SetFlag, At, Top, Last
    <2>2. ASSUME NEW u \in Threads, NEW i
          PROVE  Writes(u, i)' <=> Writes(u, i)
      <3>1. CASE u = t /\ i = Len(stack[t])
        <4>1. i \notin 1 .. Len(stack'[u])
          BY <2>1, <3>1 DEF Popped, StackInv
        <4> QED
          BY <2>1, <3>1, <4>1 DEF Writes
      <3>2. CASE ~(u = t /\ i = Len(stack[t]))
        <4>1. i \in 1 .. Len(stack'[u]) <=> i \in 1 .. Len(stack[u])
          BY <2>1, <3>2 DEF Popped, StackInv
        <4>2. i \in 1 .. Len(stack'[u]) => stack'[u][i] = stack[u][i]
          BY <2>1 DEF Popped
        <4> QED
          BY <4>1, <4>2 DEF Writes
      <3> QED
        BY <3>1, <3>2
    <2> QED
      BY <2>1, <2>2, KeepWrites
  <1> QED
    BY <1>1, <1>2, <1>3, <1>5, <1>6, <1>7, <1>8, <1>9 DEF Next, Continue

----------------------------------------------------------------------------
(* The frames of sigUSR1.                                                  *)

(* A frame of sigUSR1, and one that has read paused. *)
Toggler(u, i) == i \in 1 .. Len(stack[u]) /\ stack[u][i].of = "SIGUSR1"
HasRead(u, i) == Toggler(u, i) /\ stack[u][i].at # "read"

(* ToggleInv in terms of these. *)
LEMMA ToggleParts ==
  ASSUME overlap' \in BOOLEAN, toggles' \in Nat,
         ~overlap' => (paused' <=> toggles' % 2 = 1),
         \A t, u \in Threads : \A i, j :
           ~overlap' /\ Toggler(t, i)' /\ Toggler(u, j)' => t = u /\ i = j,
         \A t \in Threads : \A i :
           ~overlap' /\ HasRead(t, i)' => stack'[t][i].resume = paused'
  PROVE  ToggleInv'
  BY Zenon DEF ToggleInv, Toggler, HasRead

(* A step that adds none and lets none read. *)
LEMMA KeepToggles ==
  ASSUME ToggleInv, paused' = paused, overlap' = overlap, toggles' = toggles,
         \A u \in Threads : \A i :
           /\ Toggler(u, i)' => Toggler(u, i)
           /\ HasRead(u, i)' => HasRead(u, i) /\ stack'[u][i].resume = stack[u][i].resume
  PROVE  ToggleInv'
PROOF
  <1>1. overlap' \in BOOLEAN /\ toggles' \in Nat
    BY DEF ToggleInv
  <1>2. ASSUME ~overlap'
        PROVE  paused' <=> toggles' % 2 = 1
    BY <1>2 DEF ToggleInv
  <1>3. ASSUME ~overlap', NEW t \in Threads, NEW u \in Threads,
               NEW i, NEW j, Toggler(t, i)', Toggler(u, j)'
        PROVE  t = u /\ i = j
    <2>1. ~overlap /\ Toggler(t, i) /\ Toggler(u, j)
      BY <1>3
    <2> QED
      BY <2>1 DEF ToggleInv, Toggler
  <1>4. ASSUME ~overlap', NEW t \in Threads, NEW i, HasRead(t, i)'
        PROVE  stack'[t][i].resume = paused'
    <2>1. ~overlap /\ HasRead(t, i) /\ stack'[t][i].resume = stack[t][i].resume
      BY <1>4
    <2> QED
      BY <2>1 DEF ToggleInv, Toggler, HasRead
  <1> QED
    BY <1>1, <1>2, <1>3, <1>4, ToggleParts

(* The frames of sigUSR1 after a statement are those before it. *)
LEMMA ChangedToggles ==
  ASSUME StackInv, NEW t \in Threads, NEW at, NEW resume, Changed(t, at, resume)
  PROVE  \A u \in Threads : \A i :
           /\ Toggler(u, i)' <=> Toggler(u, i)
           /\ u = t /\ i = Len(stack[t]) =>
                stack'[u][i].at = at /\ stack'[u][i].resume = resume
           /\ ~(u = t /\ i = Len(stack[t])) /\ Toggler(u, i) => stack'[u][i] = stack[u][i]
PROOF
  <1>1. \A u \in Threads : Len(stack[u]) \in 1 .. Len(stack[u])
    BY DEF StackInv
  <1>2. ASSUME NEW u \in Threads, NEW i, ~(u = t /\ i = Len(stack[t]))
        PROVE  /\ Toggler(u, i)' <=> Toggler(u, i)
               /\ Toggler(u, i) => stack'[u][i] = stack[u][i]
    BY <1>2 DEF Changed, Toggler
  <1>3. ASSUME NEW u \in Threads, NEW i, u = t /\ i = Len(stack[t])
        PROVE  /\ Toggler(u, i)' <=> Toggler(u, i)
               /\ stack'[u][i].at = at /\ stack'[u][i].resume = resume
    <2>1. i \in 1 .. Len(stack[t]) /\ i \in 1 .. Len(stack'[t])
      BY <1>1, <1>3 DEF Changed
    <2>2. stack'[t][i] = [of |-> stack[t][i].of, at |-> at, resume |-> resume]
      BY <1>3, <2>1 DEF Changed
    <2>3. /\ stack'[t][i].of = stack[t][i].of
          /\ stack'[t][i].at = at /\ stack'[t][i].resume = resume
      BY <2>2
    <2> QED
      BY <1>3, <2>1, <2>3 DEF Toggler
  <1> QED
    BY <1>2, <1>3

(* ToggleInv is inductive. *)
LEMMA ToggleStep ==
  ASSUME StackInv, ToggleInv, [Next]_vars
  PROVE  ToggleInv'
PROOF
  <1>1. CASE UNCHANGED vars
    BY <1>1 DEF vars, flags, history, ToggleInv
  <1>2. ASSUME NEW s \in Signals, Send(s)
        PROVE  ToggleInv'
    BY <1>2 DEF Send, flags, history, ToggleInv
  <1>3. ASSUME NEW t \in Threads, NEW s \in Signals, Take(t, s)
        PROVE  ToggleInv'
    <2> DEFINE n == Len(stack[t])
    <2>1. /\ Pushed(t, s) /\ paused' = paused /\ toggles' = toggles
          /\ overlap' = \/ overlap
                        \/ s = "SIGUSR1" /\ \E u \in Threads \ {t} : InHandler(u, s)
          /\ ~InHandler(t, s)
      BY <1>3, PushTop DEF Take, flags, Overlap
    <2>2. ASSUME NEW u \in Threads, NEW i, ~(u = t /\ i = n + 1)
          PROVE  /\ i \in 1 .. Len(stack'[u]) <=> i \in 1 .. Len(stack[u])
                 /\ i \in 1 .. Len(stack[u]) => stack'[u][i] = stack[u][i]
      BY <2>1, <2>2 DEF Pushed, StackInv
    <2>3. /\ stack'[t][n + 1].of = s
          /\ s = "SIGUSR1" => stack'[t][n + 1].at = "read"
      BY <2>1 DEF Pushed, Frame
    <2> HIDE DEF n
    <2>4. CASE s # "SIGUSR1"
      <3>1. overlap' = overlap
        BY <2>1, <2>4 DEF ToggleInv
      <3>2. ASSUME NEW u \in Threads, NEW i
            PROVE  /\ Toggler(u, i)' => Toggler(u, i)
                   /\ HasRead(u, i)' => HasRead(u, i) /\ stack'[u][i].resume = stack[u][i].resume
        BY <2>2, <2>3, <2>4 DEF Toggler, HasRead
      <3> QED
        BY <2>1, <3>1, <3>2, KeepToggles
    <2>5. CASE s = "SIGUSR1"
      <3>1. ASSUME ~overlap'
            PROVE  ~overlap /\ \A u \in Threads : \A i : ~Toggler(u, i)
        <4>1. \A u \in Threads : DOMAIN stack[u] = 1 .. Len(stack[u])
          BY DEF StackInv
        <4>2. \A u \in Threads : ~InHandler(u, "SIGUSR1")
          BY <2>1, <2>5, <3>1
        <4> QED
          BY <2>1, <3>1, <4>1, <4>2 DEF InHandler, Toggler
      <3>2. ASSUME ~overlap', NEW u \in Threads, NEW i, Toggler(u, i)'
            PROVE  u = t /\ i = n + 1 /\ stack'[u][i].at = "read"
        BY <2>2, <2>3, <2>5, <3>1, <3>2 DEF Toggler
      <3>3. overlap' \in BOOLEAN /\ toggles' \in Nat
        BY <2>1 DEF ToggleInv
      <3>4. ASSUME ~overlap'
            PROVE  paused' <=> toggles' % 2 = 1
        BY <2>1, <3>1, <3>4 DEF ToggleInv
      <3>5. ASSUME NEW v \in Threads, NEW u \in Threads, NEW i, NEW j,
                   ~overlap', Toggler(v, i)', Toggler(u, j)'
            PROVE  v = u /\ i = j
        BY <3>2, <3>5
      <3>6. ASSUME NEW v \in Threads, NEW i, ~overlap', HasRead(v, i)'
            PROVE  FALSE
        BY <3>2, <3>6 DEF HasRead
      <3> QED
        BY <3>3, <3>4, <3>5, <3>6, ToggleParts
    <2> QED
      BY <2>4, <2>5
  <1>4. ASSUME NEW t \in Threads, NEW from \in Labels \ {"read"}, NEW to, Moves(t, from, to),
               paused' = paused, toggles' = toggles, overlap' = overlap
        PROVE  ToggleInv'
    <2> DEFINE n == Len(stack[t])
    <2>1. /\ stack[t][n].at # "read"
          /\ Changed(t, to, stack[t][n].resume)
      BY <1>4 DEF Moves
    <2>2. ASSUME NEW u \in Threads, NEW i
          PROVE  /\ Toggler(u, i)' <=> Toggler(u, i)
                 /\ u = t /\ i = n => stack'[u][i].resume = stack[t][n].resume
                 /\ ~(u = t /\ i = n) /\ Toggler(u, i) => stack'[u][i] = stack[u][i]
      BY <2>1, ChangedToggles
    <2> HIDE DEF n
    <2>3. ASSUME NEW u \in Threads, NEW i
          PROVE  /\ Toggler(u, i)' => Toggler(u, i)
                 /\ HasRead(u, i)' => HasRead(u, i) /\ stack'[u][i].resume = stack[u][i].resume
      <3>1. CASE u = t /\ i = n
        BY <2>1, <2>2, <3>1 DEF HasRead
      <3>2. CASE ~(u = t /\ i = n)
        BY <2>2, <3>2 DEF HasRead
      <3> QED
        BY <3>1, <3>2
    <2> QED
      BY <1>4, <2>3, KeepToggles
  <1>5. ASSUME NEW t \in Threads,
               StartLog(t) \/ StartRecord(t) \/ LockDb(t) \/ EndStatements(t) \/ LockStatus(t)
                 \/ EndEntry(t) \/ EndRecord(t) \/ LockLogger(t) \/ EndWrite(t)
        PROVE  ToggleInv'
    <2>1. paused' = paused /\ toggles' = toggles /\ overlap' = overlap
      BY <1>5, Zenon DEF StartLog, StartRecord, LockDb, EndStatements, LockStatus, EndEntry,
                         EndRecord, LockLogger, EndWrite, flags, history
    <2>2. \E from \in Labels \ {"read"} : \E to : Moves(t, from, to)
      BY <1>5, StatementMoves DEF Labels
    <2> QED
      BY <1>4, <2>1, <2>2
  <1>6. ASSUME NEW t \in Threads, ReadPaused(t)
        PROVE  ToggleInv'
    <2> DEFINE n == Len(stack[t])
    <2>1. /\ stack[t][n].at = "read" /\ Changed(t, "log", paused)
          /\ paused' = paused /\ toggles' = toggles /\ overlap' = overlap
      BY <1>6, ReadChanges DEF ReadPaused, flags, history
    <2>2. ASSUME NEW u \in Threads, NEW i
          PROVE  /\ Toggler(u, i)' <=> Toggler(u, i)
                 /\ u = t /\ i = n => stack'[u][i].resume = paused
                 /\ ~(u = t /\ i = n) /\ Toggler(u, i) => stack'[u][i] = stack[u][i]
      BY <2>1, ChangedToggles
    <2> HIDE DEF n
    <2>3. ASSUME NEW v \in Threads, NEW u \in Threads, NEW i, NEW j,
                 ~overlap', Toggler(v, i)', Toggler(u, j)'
          PROVE  v = u /\ i = j
      <3>1. Toggler(v, i) /\ Toggler(u, j)
        BY <2>2, <2>3
      <3> QED
        BY <2>1, <2>3, <3>1 DEF ToggleInv, Toggler
    <2>4. ASSUME NEW u \in Threads, NEW i, ~overlap', HasRead(u, i)'
          PROVE  stack'[u][i].resume = paused'
      <3>1. CASE u = t /\ i = n
        BY <2>1, <2>2, <3>1
      <3>2. CASE ~(u = t /\ i = n)
        <4>1. Toggler(u, i) /\ stack'[u][i] = stack[u][i]
          BY <2>2, <2>4, <3>2 DEF HasRead
        <4> QED
          BY <2>1, <2>4, <4>1 DEF ToggleInv, Toggler, HasRead
      <3> QED
        BY <3>1, <3>2
    <2>5. /\ overlap' \in BOOLEAN /\ toggles' \in Nat
          /\ ~overlap' => (paused' <=> toggles' % 2 = 1)
      BY <2>1 DEF ToggleInv
    <2> QED
      BY <2>3, <2>4, <2>5, ToggleParts
  <1>7. ASSUME NEW t \in Threads, SetFlag(t)
        PROVE  ToggleInv'
    <2> DEFINE n == Len(stack[t])
    <2>1. /\ Popped(t) /\ overlap' = overlap
          /\ stack[t][n].at = "set"
          /\ paused' = IF stack[t][n].of = "SIGUSR1" THEN ~stack[t][n].resume ELSE paused
          /\ toggles' = IF stack[t][n].of = "SIGUSR1" THEN toggles + 1 ELSE toggles
      BY <1>7, PopTop DEF SetFlag, At, Top, Last
    <2>2. ASSUME NEW u \in Threads, NEW i \in 1 .. Len(stack'[u])
          PROVE  /\ i \in 1 .. Len(stack[u]) /\ stack'[u][i] = stack[u][i]
                 /\ ~(u = t /\ i = n)
      BY <2>1 DEF Popped, StackInv
    <2>3. n \in 1 .. Len(stack[t])
      BY DEF StackInv
    <2> HIDE DEF n
    <2>4. CASE stack[t][n].of # "SIGUSR1"
      <3>1. paused' = paused /\ toggles' = toggles
        BY <2>1, <2>4, Zenon
      <3>2. ASSUME NEW u \in Threads, NEW i
            PROVE  /\ Toggler(u, i)' => Toggler(u, i)
                   /\ HasRead(u, i)' => HasRead(u, i) /\ stack'[u][i].resume = stack[u][i].resume
        BY <2>2 DEF Toggler, HasRead
      <3> QED
        BY <2>1, <3>1, <3>2, KeepToggles
    <2>5. CASE stack[t][n].of = "SIGUSR1"
      <3>1. ASSUME ~overlap', NEW u \in Threads, NEW i \in 1 .. Len(stack'[u])
            PROVE  stack'[u][i].of # "SIGUSR1"
        BY <2>1, <2>2, <2>3, <2>5, <3>1 DEF ToggleInv
      <3>2. /\ overlap' \in BOOLEAN
            /\ toggles \in Nat /\ toggles' = toggles + 1
        BY <2>1, <2>5 DEF ToggleInv
      <3>3. toggles' \in Nat /\ (toggles' % 2 = 1 <=> ~(toggles % 2 = 1))
        BY ONLY <3>2
      <3>4. paused' = ~stack[t][n].resume
        BY <2>1, <2>5, Zenon
      <3>5. ASSUME ~overlap'
            PROVE  stack[t][n].resume = paused /\ (paused <=> toggles % 2 = 1)
        BY <2>1, <2>3, <2>5, <3>5 DEF ToggleInv
      <3>6. ASSUME ~overlap'
            PROVE  paused' <=> toggles' % 2 = 1
        BY <3>3, <3>4, <3>5, <3>6, Zenon
      <3> QED
        BY <3>1, <3>2, <3>3, <3>6, Zenon DEF ToggleInv
    <2> QED
      BY <2>4, <2>5
  <1> QED
    BY <1>1, <1>2, <1>3, <1>5, <1>6, <1>7 DEF Next, Continue

----------------------------------------------------------------------------
SignalInv == LockInv /\ ToggleInv

(* The threads begin with free mutexes and without handlers. *)
LEMMA InitInv ==
  ASSUME NoThread \notin Threads, Init
  PROVE  SignalInv
PROOF
  <1>1. ASSUME NEW t \in Threads
        PROVE  /\ stack[t] = <<Frame("code", "run")>> /\ Len(stack[t]) = 1
               /\ stack[t][1].of = "code" /\ stack[t][1].at = "run"
    BY DEF Init, Frame
  <1>2. Frame("code", "run") \in Frames
    BY DEF Frame, Frames, Labels
  <1>3. stack \in [Threads -> Seq(Frames)]
    BY <1>2 DEF Init
  <1>4. StackInv
    <2>1. paused \in BOOLEAN
      BY DEF Init
    <2>2. ASSUME NEW t \in Threads, NEW i \in 1 .. Len(stack[t])
          PROVE  i = 1 /\ stack[t][i].of = "code" /\ stack[t][i].at \in CodeLabels
      <3>1. i \in 1 .. 1
        BY <1>1
      <3>2. i = 1
        BY <3>1
      <3> QED
        BY <1>1, <3>2 DEF CodeLabels
    <2> QED
      BY <1>1, <1>3, <2>1, <2>2 DEF StackInv
  <1>5. CodeLockInv
    BY <1>1 DEF CodeLockInv, Init, Mutexes, UnderDb
  <1>6. LoggerInv
    BY <1>1 DEF LoggerInv, Init, Mutexes
  <1>7. ToggleInv
    <2>1. \A u \in Threads : \A i \in 1 .. Len(stack[u]) : stack[u][i].of # "SIGUSR1"
      BY <1>1
    <2>2. overlap = FALSE /\ paused = FALSE /\ toggles = 0
      BY DEF Init
    <2>3. toggles \in Nat /\ ~(toggles % 2 = 1)
      BY <2>2
    <2> QED
      BY <2>1, <2>2, <2>3, Zenon DEF ToggleInv
  <1> QED
    BY <1>4, <1>5, <1>6, <1>7 DEF SignalInv, LockInv

(* Every step preserves the invariant. *)
LEMMA StepInv ==
  ASSUME NoThread \notin Threads, SignalInv, [Next]_vars
  PROVE  SignalInv'
  BY StackStep, CodeLockStep, LoggerStep, ToggleStep DEF SignalInv, LockInv

(* The invariant of the stacks, the mutexes and the flag. *)
THEOREM Invariance == Spec => []SignalInv
PROOF
  <1>1. NoThread \notin Threads
    BY SignalAssumption
  <1>2. Init => SignalInv
    BY <1>1, InitInv
  <1>3. SignalInv /\ [Next]_vars => SignalInv'
    BY <1>1, StepInv
  <1> QED
    BY <1>2, <1>3, PTL DEF Spec

(* A handler waits for the logger's mutex only, and code without handlers  *)
(* on top of it has no frame inside Logger::write.                         *)
LEMMA OrderFollows ==
  ASSUME LockInv
  PROVE  LocksAreOrdered
PROOF
  <1> SUFFICES ASSUME NEW t \in Threads, NEW m \in Mutexes, WaitsFor(t, m), ~SelfLocked(t)
               PROVE  \A n \in Mutexes : owner[n] = t => Rank[n] < Rank[m]
    BY DEF LocksAreOrdered
  <1> DEFINE n == Len(stack[t])
  <1>1. stack[t][n].at = IF m = "logger" THEN "log" ELSE m
    BY DEF WaitsFor, At, Top, Last
  <1>2. CASE m = "logger"
    <2>1. owner["logger"] # t
      BY <1>1, <1>2 DEF SelfLocked, WaitsFor
    <2> QED
      BY <1>2, <2>1 DEF Mutexes, Rank
  <1>3. CASE m # "logger"
    <2>1. n = 1 /\ stack[t][1].at = m
      <3>1. m \notin HandlerLabels
        BY <1>3 DEF Mutexes, HandlerLabels
      <3>2. Len(stack[t]) = 1
        BY <1>1, <1>3, <3>1, TopFacts, Zenon DEF LockInv
      <3> QED
        BY <1>1, <1>3, <3>2
    <2>2. owner["logger"] # t
      BY <2>1, <1>3 DEF LockInv, LoggerInv, Mutexes
    <2>3. owner["status"] # t /\ (m = "db" => owner["db"] # t)
      BY <2>1, <1>3 DEF LockInv, CodeLockInv, Mutexes, UnderDb
    <2> QED
      BY <1>3, <2>2, <2>3 DEF Mutexes, Rank
  <1> QED
    BY <1>2, <1>3

(* The mutexes of different threads never form a circle, with handlers on  *)
(* top of every statement: a thread waits in the order of Rank, or for     *)
(* itself, stopped by a signal inside Logger::write.                       *)
THEOREM LocksStayOrdered == Spec => []LocksAreOrdered
PROOF
  <1>1. SignalInv => LocksAreOrdered
    BY OrderFollows DEF SignalInv
  <1> QED
    BY <1>1, Invariance, PTL

(* Handlers of SIGUSR1 that the kernel does not run on two threads at once *)
(* toggle paused, each of them.                                            *)
THEOREM TogglesKeepParity == Spec => []PauseParity
PROOF
  <1>1. SignalInv => PauseParity
    BY DEF SignalInv, StackInv, LockInv, ToggleInv, PauseParity
  <1> QED
    BY <1>1, Invariance, PTL

----------------------------------------------------------------------------
(* The types: how many frames there are, and how many handlers return.     *)

(* A thread has at most one frame of a signal. *)
FramesInv ==
  \A t \in Threads : \A i, j \in 1 .. Len(stack[t]) :
    stack[t][i].of = stack[t][j].of => i = j

Toggling == {t \in Threads : \E i : Toggler(t, i)}

Coming == IF "SIGUSR1" \in pending THEN 1 ELSE 0

(* A SIGUSR1 that was sent is pending, in a handler, has toggled paused or *)
(* was merged into one that was pending.                                   *)
CountInv ==
  /\ logs \in [Threads -> 0 .. MaxLogs]
  /\ pending \in SUBSET Signals
  /\ sent \in [Signals -> Nat] /\ \A s \in Signals : sent[s] <= MaxSent[s]
  /\ exiting \in BOOLEAN /\ reloadConfig \in BOOLEAN
  /\ toggles \in Nat
  /\ IsFiniteSet(Toggling)
  /\ toggles + Cardinality(Toggling) + Coming <= sent["SIGUSR1"]

(* A statement leaves the handlers as they are. *)
LEMMA ChangedFrames ==
  ASSUME StackInv, FramesInv, NEW t \in Threads, NEW at, NEW resume, Changed(t, at, resume)
  PROVE  FramesInv' /\ Toggling' = Toggling
PROOF
  <1>1. ASSUME NEW u \in Threads, NEW i \in 1 .. Len(stack[u])
        PROVE  stack'[u][i].of = stack[u][i].of
    <2>1. stack'[u][i] = IF u = t /\ i = Len(stack[t])
                         THEN [of |-> stack[t][i].of, at |-> at, resume |-> resume]
                         ELSE stack[u][i]
      BY DEF Changed
    <2>2. CASE u = t /\ i = Len(stack[t])
      <3>1. stack'[u][i] = [of |-> stack[u][i].of, at |-> at, resume |-> resume]
        BY <2>1, <2>2
      <3> QED
        BY <3>1
    <2> QED
      BY <2>1, <2>2
  <1>2. \A u \in Threads : Len(stack'[u]) = Len(stack[u])
    BY DEF Changed
  <1>3. FramesInv'
    BY <1>1, <1>2 DEF FramesInv
  <1>4. Toggling' = Toggling
    BY ChangedToggles DEF Toggling
  <1> QED
    BY <1>3, <1>4

(* The handlers of SIGUSR1 there are when one begins. *)
LEMMA PushedFrames ==
  ASSUME StackInv, FramesInv, NEW t \in Threads, NEW s \in Signals, Pushed(t, s),
         ~InHandler(t, s)
  PROVE  /\ FramesInv'
         /\ s = "SIGUSR1" => t \notin Toggling /\ Toggling' = Toggling \cup {t}
         /\ s # "SIGUSR1" => Toggling' = Toggling
PROOF
  <1> DEFINE n == Len(stack[t])
  <1>1. n \in Nat /\ stack[t] \in Seq(Frames) /\ \A u \in Threads : Len(stack[u]) \in Nat
    BY DEF StackInv
  <1>2. ASSUME NEW u \in Threads, NEW i, ~(u = t /\ i = n + 1)
        PROVE  /\ i \in 1 .. Len(stack'[u]) <=> i \in 1 .. Len(stack[u])
               /\ i \in 1 .. Len(stack[u]) => stack'[u][i] = stack[u][i]
    BY <1>1, <1>2 DEF Pushed
  <1>3. stack'[t][n + 1].of = s /\ n + 1 \in 1 .. Len(stack'[t]) /\ n + 1 \notin 1 .. Len(stack[t])
    BY <1>1 DEF Pushed, Frame
  <1>4. \A i \in 1 .. Len(stack[t]) : stack[t][i].of # s
    BY <1>1 DEF InHandler
  <1> HIDE DEF n
  <1>5. FramesInv'
    <2> SUFFICES ASSUME NEW u \in Threads, NEW i \in 1 .. Len(stack'[u]),
                        NEW j \in 1 .. Len(stack'[u]), stack'[u][i].of = stack'[u][j].of
                 PROVE  i = j
      BY DEF FramesInv
    <2>0. ASSUME NEW k \in 1 .. Len(stack'[t]), k # n + 1
          PROVE  stack'[t][k].of # s
      BY <1>2, <1>4, <2>0
    <2>1. CASE u = t /\ i = n + 1
      BY <1>3, <2>0, <2>1
    <2>2. CASE u = t /\ j = n + 1
      BY <1>3, <2>0, <2>2
    <2>3. CASE ~(u = t /\ i = n + 1) /\ ~(u = t /\ j = n + 1)
      <3>1. /\ i \in 1 .. Len(stack[u]) /\ stack'[u][i] = stack[u][i]
            /\ j \in 1 .. Len(stack[u]) /\ stack'[u][j] = stack[u][j]
        BY <1>2, <2>3, Zenon
      <3> QED
        BY <3>1 DEF FramesInv
    <2> QED
      BY <2>1, <2>2, <2>3, Zenon
  <1>6. \A u \in Threads : \A i :
          Toggler(u, i)' <=> Toggler(u, i) \/ (u = t /\ i = n + 1 /\ s = "SIGUSR1")
    <2> SUFFICES ASSUME NEW u \in Threads, NEW i
                 PROVE  Toggler(u, i)' <=> Toggler(u, i) \/ (u = t /\ i = n + 1 /\ s = "SIGUSR1")
      OBVIOUS
    <2>1. CASE u = t /\ i = n + 1
      BY <1>3, <2>1 DEF Toggler
    <2>2. CASE ~(u = t /\ i = n + 1)
      BY <1>2, <2>2, Zenon DEF Toggler
    <2> QED
      BY <2>1, <2>2
  <1>7. s = "SIGUSR1" => t \notin Toggling
    BY <1>4 DEF Toggling, Toggler
  <1> QED
    BY <1>5, <1>6, <1>7, Zenon DEF Toggling

(* And when one returns. *)
LEMMA PoppedFrames ==
  ASSUME StackInv, FramesInv, NEW t \in Threads, Popped(t)
  PROVE  /\ FramesInv'
         /\ Top(t).of = "SIGUSR1" => t \in Toggling /\ Toggling' = Toggling \ {t}
         /\ Top(t).of # "SIGUSR1" => Toggling' = Toggling
PROOF
  <1> DEFINE n == Len(stack[t])
  <1>1. n \in Nat /\ n >= 2 /\ Top(t) = stack[t][n] /\ \A u \in Threads : Len(stack[u]) \in Nat
    BY DEF StackInv, Popped, Top, Last
  <1>2. ASSUME NEW u \in Threads, NEW i
        PROVE  /\ i \in 1 .. Len(stack'[u]) <=> i \in 1 .. Len(stack[u]) /\ ~(u = t /\ i = n)
               /\ i \in 1 .. Len(stack'[u]) => stack'[u][i] = stack[u][i]
    BY <1>1, <1>2 DEF Popped
  <1>3. n \in 1 .. Len(stack[t])
    BY <1>1
  <1> HIDE DEF n
  <1>4. FramesInv'
    <2> SUFFICES ASSUME NEW u \in Threads, NEW i \in 1 .. Len(stack'[u]),
                        NEW j \in 1 .. Len(stack'[u]), stack'[u][i].of = stack'[u][j].of
                 PROVE  i = j
      BY DEF FramesInv
    <2>1. /\ i \in 1 .. Len(stack[u]) /\ stack'[u][i] = stack[u][i]
          /\ j \in 1 .. Len(stack[u]) /\ stack'[u][j] = stack[u][j]
      BY <1>2, Zenon
    <2> QED
      BY <2>1 DEF FramesInv
  <1>5. \A u \in Threads : \A i : Toggler(u, i)' <=> Toggler(u, i) /\ ~(u = t /\ i = n)
    BY <1>2, Zenon DEF Toggler
  <1>6. Top(t).of = "SIGUSR1" => Toggler(t, n) /\ \A i : Toggler(t, i) => i = n
    BY <1>1, <1>3, Zenon DEF Toggler, FramesInv
  <1>7. Top(t).of # "SIGUSR1" => ~Toggler(t, n)
    BY <1>1, Zenon DEF Toggler
  <1> QED
    BY <1>4, <1>5, <1>6, <1>7, Zenon DEF Toggling

(* CountInv and FramesInv are inductive. *)
LEMMA CountStep ==
  ASSUME StackInv, FramesInv, CountInv, [Next]_vars
  PROVE  FramesInv' /\ CountInv'
PROOF
  <1> USE DEF flags, kernel, history
  <1>0. /\ Cardinality(Toggling) \in Nat /\ Coming \in {0, 1}
        /\ toggles \in Nat /\ sent["SIGUSR1"] \in Nat
    BY FS_CardinalityType DEF CountInv, Coming, Signals
  <1>1. CASE UNCHANGED <<pending, sent, exiting, reloadConfig, toggles>>
             /\ logs' \in [Threads -> 0 .. MaxLogs] /\ FramesInv' /\ Toggling' = Toggling
    BY <1>1 DEF CountInv, Coming
  <1>2. CASE UNCHANGED vars
    <2>1. /\ UNCHANGED <<pending, sent, exiting, reloadConfig, toggles, logs, stack>>
      BY <1>2, Zenon DEF vars
    <2>2. FramesInv' /\ Toggling' = Toggling
      BY <2>1, Zenon DEF FramesInv, Toggling, Toggler
    <2> QED
      BY <1>1, <2>1, <2>2 DEF CountInv
  <1>3. ASSUME NEW s \in Signals, Send(s)
        PROVE  FramesInv' /\ CountInv'
    <2>1. /\ UNCHANGED <<stack, exiting, reloadConfig, toggles, logs>>
          /\ sent[s] < MaxSent[s] /\ sent' = [sent EXCEPT ![s] = @ + 1]
          /\ pending' = pending \cup {s}
      BY <1>3, Zenon DEF Send
    <2>2. FramesInv' /\ Toggling' = Toggling
      BY <2>1, Zenon DEF FramesInv, Toggling, Toggler
    <2>3. /\ sent' \in [Signals -> Nat] /\ \A r \in Signals : sent'[r] <= MaxSent[r]
          /\ pending' \in SUBSET Signals
      BY <2>1, SignalAssumption DEF CountInv, Signals
    <2>4. toggles' + Cardinality(Toggling') + Coming' <= sent'["SIGUSR1"]
      <3>1. CASE s = "SIGUSR1"
        <4>1. sent'["SIGUSR1"] = sent["SIGUSR1"] + 1 /\ Coming' \in {0, 1}
          BY <2>1, <3>1 DEF CountInv, Coming
        <4>2. toggles + Cardinality(Toggling) + Coming <= sent["SIGUSR1"]
          BY DEF CountInv
        <4>3. toggles' = toggles /\ Cardinality(Toggling') = Cardinality(Toggling)
          BY <2>1, <2>2
        <4> QED
          BY ONLY <1>0, <4>1, <4>2, <4>3, SMT
      <3>2. CASE s # "SIGUSR1"
        <4>1. sent'["SIGUSR1"] = sent["SIGUSR1"] /\ Coming' = Coming
          BY <2>1, <3>2 DEF CountInv, Coming, Signals
        <4> QED
          BY <2>1, <2>2, <4>1 DEF CountInv
      <3> QED
        BY <3>1, <3>2
    <2> QED
      BY <2>1, <2>2, <2>3, <2>4 DEF CountInv
  <1>4. ASSUME NEW t \in Threads, NEW s \in Signals, Take(t, s)
        PROVE  FramesInv' /\ CountInv'
    <2>1. /\ UNCHANGED <<exiting, reloadConfig, toggles, logs, sent>>
          /\ s \in pending /\ pending' = pending \ {s} /\ ~InHandler(t, s)
      BY <1>4, Zenon DEF Take
    <2>2. /\ FramesInv'
          /\ s = "SIGUSR1" => t \notin Toggling /\ Toggling' = Toggling \cup {t}
          /\ s # "SIGUSR1" => Toggling' = Toggling
      BY <1>4, <2>1, PushTop, PushedFrames DEF Take
    <2>3. CASE s = "SIGUSR1"
      <3>1. Coming = 1 /\ Coming' = 0
        BY <2>1, <2>3 DEF Coming
      <3>2. IsFiniteSet(Toggling') /\ Cardinality(Toggling') = Cardinality(Toggling) + 1
        BY <2>2, <2>3, FS_AddElement DEF CountInv
      <3>3. toggles + Cardinality(Toggling) + Coming <= sent["SIGUSR1"]
        BY DEF CountInv
      <3>4. toggles + Cardinality(Toggling') + Coming' <= sent["SIGUSR1"]
        BY ONLY <1>0, <3>1, <3>2, <3>3, SMT
      <3> QED
        BY <2>1, <2>2, <3>2, <3>4 DEF CountInv
    <2>4. CASE s # "SIGUSR1"
      <3>1. Coming' = Coming
        BY <2>1, <2>4 DEF Coming
      <3> QED
        BY <2>1, <2>2, <2>4, <3>1 DEF CountInv
    <2> QED
      BY <2>3, <2>4
  <1>5. ASSUME NEW t \in Threads,
               StartLog(t) \/ StartRecord(t) \/ LockDb(t) \/ EndStatements(t) \/ LockStatus(t)
                 \/ EndEntry(t) \/ EndRecord(t) \/ LockLogger(t) \/ EndWrite(t) \/ ReadPaused(t)
        PROVE  FramesInv' /\ CountInv'
    <2>1. /\ UNCHANGED <<pending, sent, exiting, reloadConfig, toggles>>
          /\ \/ logs' = logs
             \/ logs[t] < MaxLogs /\ logs' = [logs EXCEPT ![t] = @ + 1]
      BY <1>5, Zenon DEF StartLog, StartRecord, LockDb, EndStatements, LockStatus, EndEntry,
                         EndRecord, LockLogger, EndWrite, ReadPaused
    <2>2. logs' \in [Threads -> 0 .. MaxLogs]
      BY <2>1, SignalAssumption DEF CountInv
    <2>3. \E at, resume : Changed(t, at, resume)
      <3>1. ReadPaused(t) => Changed(t, "log", paused)
        BY ReadChanges
      <3>2. ~ReadPaused(t) => \E from, to : Moves(t, from, to)
        BY <1>5, StatementMoves, Zenon
      <3> QED
        BY <3>1, <3>2, Zenon DEF Moves
    <2>4. FramesInv' /\ Toggling' = Toggling
      BY <2>3, ChangedFrames
    <2> QED
      BY <1>1, <2>1, <2>2, <2>4
  <1>6. ASSUME NEW t \in Threads, SetFlag(t)
        PROVE  FramesInv' /\ CountInv'
    <2>1. /\ UNCHANGED <<pending, sent, logs>>
          /\ exiting' \in BOOLEAN /\ reloadConfig' \in BOOLEAN
          /\ toggles' = IF Top(t).of = "SIGUSR1" THEN toggles + 1 ELSE toggles
      BY <1>6, Zenon DEF SetFlag, CountInv
    <2>2. /\ FramesInv'
          /\ Top(t).of = "SIGUSR1" => t \in Toggling /\ Toggling' = Toggling \ {t}
          /\ Top(t).of # "SIGUSR1" => Toggling' = Toggling
      BY <1>6, PopTop, PoppedFrames DEF SetFlag
    <2>3. Coming' = Coming
      BY <2>1 DEF Coming
    <2>4. CASE Top(t).of = "SIGUSR1"
      <3>1. IsFiniteSet(Toggling') /\ Cardinality(Toggling') = Cardinality(Toggling) - 1
        BY <2>2, <2>4, FS_RemoveElement DEF CountInv
      <3>2. toggles' = toggles + 1
        BY <2>1, <2>4
      <3>3. toggles + Cardinality(Toggling) + Coming <= sent["SIGUSR1"]
        BY DEF CountInv
      <3>4. toggles' \in Nat /\ toggles' + Cardinality(Toggling') + Coming <= sent["SIGUSR1"]
        BY ONLY <1>0, <3>1, <3>2, <3>3, SMT
      <3> QED
        BY <2>1, <2>2, <2>3, <3>1, <3>4 DEF CountInv
    <2>5. CASE Top(t).of # "SIGUSR1"
      BY <2>1, <2>2, <2>3, <2>5 DEF CountInv
    <2> QED
      BY <2>4, <2>5
  <1> QED
    BY <1>2, <1>3, <1>4, <1>5, <1>6, Zenon DEF Next, Continue

LEMMA CountInit ==
  ASSUME Init
  PROVE  FramesInv /\ CountInv
PROOF
  <1>1. \A t \in Threads : Len(stack[t]) = 1 /\ stack[t][1].of = "code"
    BY DEF Init, Frame
  <1>2. FramesInv
    BY <1>1 DEF FramesInv
  <1>3. Toggling = {}
    BY <1>1 DEF Toggling, Toggler
  <1>4. CountInv
    <2>1. IsFiniteSet(Toggling) /\ Cardinality(Toggling) = 0
      BY <1>3, FS_EmptySet
    <2>2. /\ toggles = 0 /\ Coming = 0 /\ sent["SIGUSR1"] = 0
          /\ sent \in [Signals -> Nat] /\ \A s \in Signals : sent[s] <= MaxSent[s]
      BY SignalAssumption DEF Coming, Init, Signals
    <2>3. logs \in [Threads -> 0 .. MaxLogs]
      BY SignalAssumption DEF Init
    <2>4. pending \in SUBSET Signals /\ exiting \in BOOLEAN /\ reloadConfig \in BOOLEAN
      BY DEF Init
    <2>5. toggles \in Nat /\ toggles + Cardinality(Toggling) + Coming <= sent["SIGUSR1"]
      BY <2>1, <2>2
    <2> QED
      BY <2>1, <2>2, <2>3, <2>4, <2>5, Zenon DEF CountInv
  <1> QED
    BY <1>2, <1>4

(* There are four kinds of frames. *)
LEMMA StackDepth ==
  ASSUME StackInv, FramesInv, NEW t \in Threads
  PROVE  Len(stack[t]) \in 1 .. 4
PROOF
  <1>1. stack[t] \in Seq(Frames) /\ Len(stack[t]) \in Nat /\ Len(stack[t]) >= 1
    BY DEF StackInv
  <1>2. \A i \in 1 .. Len(stack[t]) :
          stack[t][i].of = "code" \/ stack[t][i].of = "SIGUSR1"
            \/ stack[t][i].of = "SIGTERM" \/ stack[t][i].of = "SIGHUP"
    <2>1. \A i \in 1 .. Len(stack[t]) : stack[t][i] \in Frames
      BY <1>1
    <2> QED
      BY <2>1 DEF Frames, Signals
  <1> DEFINE of(i) == stack[t][i].of
  <1>3. ~(Len(stack[t]) >= 5)
    <2> SUFFICES ASSUME Len(stack[t]) >= 5
                 PROVE  FALSE
      OBVIOUS
    <2>1. \A i \in 1 .. 5 :
            of(i) = "code" \/ of(i) = "SIGUSR1" \/ of(i) = "SIGTERM" \/ of(i) = "SIGHUP"
      BY <1>1, <1>2
    <2>2. \A i, j \in 1 .. 5 : of(i) = of(j) => i = j
      BY <1>1 DEF FramesInv
    <2> HIDE DEF of
    <2>3. /\ of(1) # of(2) /\ of(1) # of(3) /\ of(1) # of(4) /\ of(1) # of(5)
          /\ of(2) # of(3) /\ of(2) # of(4) /\ of(2) # of(5)
          /\ of(3) # of(4) /\ of(3) # of(5) /\ of(4) # of(5)
      BY ONLY <2>2, SMT
    <2>4. \A i \in {1, 2, 3, 4, 5} :
            of(i) = "code" \/ of(i) = "SIGUSR1" \/ of(i) = "SIGTERM" \/ of(i) = "SIGHUP"
      BY ONLY <2>1, SMT
    <2> QED
      BY ONLY <2>3, <2>4
  <1>4. \A n \in Nat : n >= 1 /\ ~(n >= 5) => n \in 1 .. 4
    OBVIOUS
  <1> QED
    BY <1>1, <1>3, <1>4, Zenon

(* Every variable has its type: a thread never has two frames of a signal, *)
(* and SIGUSR1 toggles at most as often as it is sent.                     *)
THEOREM SignalTypes == Spec => []TypeOK
PROOF
  <1>1. Init => FramesInv /\ CountInv
    BY CountInit
  <1>2. SignalInv /\ FramesInv /\ CountInv /\ [Next]_vars => FramesInv' /\ CountInv'
    BY CountStep DEF SignalInv, LockInv
  <1>3. SignalInv /\ FramesInv /\ CountInv => TypeOK
    <2> SUFFICES ASSUME SignalInv, FramesInv, CountInv
                 PROVE  TypeOK
      OBVIOUS
    <2> USE DEF SignalInv, LockInv
    <2>1. \A t \in Threads : Len(stack[t]) \in 1 .. 4
      BY StackDepth
    <2>2. \A t \in Threads : \A i, j \in DOMAIN stack[t] : i # j => stack[t][i].of # stack[t][j].of
      <3>1. \A t \in Threads : DOMAIN stack[t] = 1 .. Len(stack[t])
        BY DEF StackInv
      <3> QED
        BY <3>1, Zenon DEF FramesInv
    <2>3. toggles \in 0 .. MaxSent["SIGUSR1"]
      <3>1. Cardinality(Toggling) \in Nat /\ Coming \in Nat /\ toggles \in Nat
        BY FS_CardinalityType DEF CountInv, Coming
      <3>2. /\ sent["SIGUSR1"] \in Nat /\ MaxSent["SIGUSR1"] \in Nat
            /\ sent["SIGUSR1"] <= MaxSent["SIGUSR1"]
        BY SignalAssumption DEF CountInv, Signals
      <3>3. toggles + Cardinality(Toggling) + Coming <= sent["SIGUSR1"]
        BY DEF CountInv
      <3> QED
        BY ONLY <3>1, <3>2, <3>3, SMT
    <2>4. \A s \in Signals : sent[s] \in 0 .. MaxSent[s]
      BY SignalAssumption DEF CountInv, Signals
    <2>5. /\ stack \in [Threads -> Seq(Frames)] /\ owner \in [Mutexes -> Threads \cup {NoThread}]
          /\ {paused, exiting, reloadConfig, overlap} \subseteq BOOLEAN
      BY DEF StackInv, CodeLockInv, CountInv, ToggleInv
    <2>6. logs \in [Threads -> 0 .. MaxLogs] /\ pending \in SUBSET Signals
      BY DEF CountInv
    <2> QED
      BY <2>1, <2>2, <2>3, <2>4, <2>5, <2>6, Zenon DEF TypeOK
  <1> QED
    BY <1>1, <1>2, <1>3, Invariance, PTL DEF Spec
=============================================================================
