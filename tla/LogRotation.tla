---------------------------- MODULE LogRotation ----------------------------
(***************************************************************************)
(* One log file of scastd and the files it is rotated to: Logger::write    *)
(* and rotateIfNeeded of src/src/logger.cpp; StatusLogger.cpp has the same *)
(* loop. Files are numbered as their names are: 0 is the one written to, j *)
(* the one with suffix ".j". The mutex of the log makes its callers come   *)
(* one after another, so a line is written by the steps from CallWrite to  *)
(* PutLine; the process may end between any two of them, and an exception  *)
(* out of std::filesystem, which nobody catches, ends it too.              *)
(*                                                                         *)
(* Sizes are in bytes. A stream opened to append is at the end of its file *)
(* (glibc's fopen seeks there), and is flushed after every line.           *)
(***************************************************************************)
EXTENDS Integers, FiniteSets

CONSTANTS
  Retention,    (* log_retention                                            *)
  MaxSizes,     (* log_max_size, as tellp() is compared with it: the number *)
                (* is read as an int and cast to size_t and back, so that a *)
                (* negative one stays negative                              *)
  LineSizes,    (* the sizes that lines have, in bytes                      *)
  MaxLine,      (* the largest that a line may have                         *)
  MaxFaults     (* bound on the ends of the process and failures of streams *)

ASSUME RotationAssumption ==
  /\ Retention \in Int
  /\ MaxSizes \subseteq Int
  /\ MaxLine \in Nat
  /\ LineSizes \subseteq 1 .. MaxLine
  /\ MaxFaults \in Nat

Files == 0 .. IF Retention > 0 THEN Retention ELSE 0

VARIABLES
  maxSize,      (* the size from which a file is rotated; 0 is never        *)
  file,         (* the lines in each file                                   *)
  size,         (* its size in bytes                                        *)
  present,      (* the files that exist                                     *)
  stream,       (* the std::ofstream                                        *)
  logpc,        (* the statement of write() or rotateIfNeeded() to come     *)
  i,            (* the variable of the loop over the files                  *)
  written,      (* the number of calls of write(); a line is its number     *)
  lost,         (* history: lines that found no open stream, or were cut    *)
  interrupted,  (* history: rotations in which the process ended            *)
  ends,         (* how often the process has ended                          *)
  failures      (* how often the stream has failed                          *)

files == <<file, size, present>>
faults == <<ends, failures>>
logVars == <<maxSize, files, stream, logpc, i, written, lost, interrupted, faults>>

LogStates == {"idle", "shift", "rename", "print", "ended"}

LogInit ==
  /\ maxSize \in MaxSizes
  /\ file = [j \in Files |-> {}] /\ size = [j \in Files |-> 0]
  /\ present = {0}
  /\ stream = "open"
  /\ logpc = "idle" /\ i = 0
  /\ written = 0 /\ lost = {} /\ interrupted = 0
  /\ ends = 0 /\ failures = 0

FaultsLeft == ends + failures < MaxFaults

(* A stream that fails stays so, and the lines after it go nowhere. *)
StreamFails ==
  /\ FaultsLeft
  /\ stream' = "failed"
  /\ failures' = failures + 1

At(label) == logpc = label

(* tellp() returns -1 when the stream has failed. *)
Position == IF stream = "open" THEN size[0] ELSE -1

Rotates_Bug == maxSize # 0 /\ Retention > 0 /\ Position > maxSize

(* Tested before the new line is printed, whatever its length. *)
Rotates == maxSize # 0 /\ Retention > 0 /\ Position >= maxSize

CallWrite ==
  /\ At("idle")
  /\ written' = written + 1
  /\ \/ /\ Rotates
        /\ stream' = "closed" /\ i' = Retention /\ logpc' = "shift"
     \/ /\ ~Rotates
        /\ logpc' = "print"
        /\ UNCHANGED <<stream, i>>
  /\ UNCHANGED <<maxSize, files, lost, interrupted, faults>>

(* exists(from) is false. *)
SkipFile ==
  /\ At("shift") /\ i >= 1
  /\ i - 1 \notin present
  /\ i' = i - 1
  /\ UNCHANGED <<maxSize, files, stream, logpc, written, lost, interrupted, faults>>

RemoveOldest ==
  /\ At("shift") /\ i >= 1
  /\ i - 1 \in present
  /\ i = Retention
  /\ file' = [file EXCEPT ![i] = {}] /\ size' = [size EXCEPT ![i] = 0]
  /\ present' = present \ {i}
  /\ logpc' = "rename"
  /\ UNCHANGED <<maxSize, stream, i, written, lost, interrupted, faults>>

Move ==
  /\ file' = [file EXCEPT ![i] = file[i - 1], ![i - 1] = {}]
  /\ size' = [size EXCEPT ![i] = size[i - 1], ![i - 1] = 0]
  /\ present' = (present \ {i - 1}) \cup {i}
  /\ logpc' = "shift"

Rename_Last_Bug == \* the loop stops one file too early, before path itself
  /\ \/ At("rename")
     \/ At("shift") /\ i >= 1 /\ i < Retention
  /\ i - 1 \in present
  /\ Move
  /\ i' = IF i = 2 THEN 0 ELSE i - 1
  /\ UNCHANGED <<maxSize, stream, written, lost, interrupted, faults>>

(* rename() replaces its target. *)
Rename ==
  /\ \/ At("rename")
     \/ At("shift") /\ i >= 1 /\ i < Retention
  /\ i - 1 \in present
  /\ Move
  /\ i' = i - 1
  /\ UNCHANGED <<maxSize, stream, written, lost, interrupted, faults>>

(* Nothing looks whether open() succeeded. *)
Open ==
  /\ \/ stream' = "open" /\ present' = present \cup {0} /\ UNCHANGED failures
     \/ StreamFails /\ UNCHANGED present
  /\ UNCHANGED ends

Truncate ==
  /\ file' = IF stream' = "open" THEN [file EXCEPT ![0] = {}] ELSE file
  /\ size' = IF stream' = "open" THEN [size EXCEPT ![0] = 0] ELSE size

(* open(path, std::ios::trunc) *)
OpenEmpty ==
  /\ At("shift") /\ i = 0
  /\ Open /\ Truncate
  /\ logpc' = "print"
  /\ UNCHANGED <<maxSize, i, written, lost, interrupted>>

(* A stream that fails while it prints may leave a part of the line. *)
PutLine ==
  /\ At("print")
  /\ logpc' = "idle"
  /\ \/ /\ stream = "open"
        /\ file' = [file EXCEPT ![0] = @ \cup {written}]
        /\ \E bytes \in LineSizes : size' = [size EXCEPT ![0] = @ + bytes]
        /\ UNCHANGED <<stream, lost, failures>>
     \/ /\ \/ /\ stream = "failed"
              /\ UNCHANGED <<size, stream, failures>>
           \/ /\ stream = "open" /\ StreamFails
              /\ \E bytes \in LineSizes : \E part \in 0 .. bytes - 1 :
                   size' = [size EXCEPT ![0] = @ + part]
        /\ lost' = lost \cup {written}
        /\ UNCHANGED file
  /\ UNCHANGED <<maxSize, present, i, written, interrupted, ends>>

(* setLogFiles() opens every stream again when one path has changed. *)
OpenStreams ==
  /\ At("idle")
  /\ Open
  /\ UNCHANGED <<maxSize, file, size, logpc, i, written, lost, interrupted>>

(* The process ends: by itself, killed, or by an exception. *)
EndLog ==
  /\ ~At("ended")
  /\ FaultsLeft
  /\ ends' = ends + 1 /\ UNCHANGED failures
  /\ logpc' = "ended"
  /\ stream' = "closed"
  /\ lost' = IF At("idle") THEN lost ELSE lost \cup {written}
  /\ interrupted' = IF logpc \in {"shift", "rename"} THEN interrupted + 1 ELSE interrupted
  /\ UNCHANGED <<maxSize, files, i, written>>

RestartLog ==
  /\ At("ended")
  /\ logpc' = "idle" /\ i' = 0
  /\ Open
  /\ UNCHANGED <<maxSize, file, size, written, lost, interrupted>>

(* What a call of write() does once it owns the mutex. *)
WriteStep == SkipFile \/ RemoveOldest \/ Rename \/ OpenEmpty \/ PutLine

LogNext == CallWrite \/ WriteStep \/ OpenStreams \/ EndLog \/ RestartLog

LogSpec == LogInit /\ [][LogNext]_logVars

----------------------------------------------------------------------------
(* Properties.                                                             *)

(* Every variable has its type. *)
LogTypeOK ==
  /\ maxSize \in MaxSizes
  /\ file \in [Files -> SUBSET Nat]
  /\ size \in [Files -> Nat]
  /\ present \in SUBSET Files
  /\ stream \in {"open", "closed", "failed"}
  /\ logpc \in LogStates
  /\ i \in Files
  /\ written \in Nat
  /\ lost \in SUBSET Nat
  /\ interrupted \in Nat
  /\ ends \in 0 .. MaxFaults /\ failures \in 0 .. MaxFaults

Kept == UNION {file[j] : j \in Files}

(* The files that are full and whose lines are all newer than n. *)
FullFilesAfter(n) ==
  {j \in present : size[j] >= maxSize /\ \A m \in file[j] : m > n}

Writing == logpc \in {"shift", "rename", "print"}

(* The lines that a rotation has removed. *)
Dropped ==
  (1 .. written) \ (Kept \cup lost \cup IF Writing THEN {written} ELSE {})

(* A file is older than every file with a smaller number, at any moment of *)
(* a rotation and after a rotation that was interrupted.                   *)
FilesInOrder ==
  \A j, k \in Files : j < k => \A a \in file[j], b \in file[k] : b < a

(* The chain of files is a log that keeps its lines in order and gives up  *)
(* the oldest first, through failures, crashes and restarts.               *)
Abstract == INSTANCE AppendLog WITH given <- written, kept <- Kept

ImplementsAppendLog == Abstract!Spec

----------------------------------------------------------------------------
(* The inductive invariant, part by part.                                  *)

(* A file that does not exist holds nothing, what a file holds has been    *)
(* written, and the last line given is somewhere once its call is over.    *)
ContentsInv ==
  /\ \A j \in Files : j \notin present => file[j] = {} /\ size[j] = 0
  /\ \A j \in Files : \A n \in file[j] : 1 <= n /\ n <= written
  /\ lost \subseteq 1 .. written
  /\ Writing => written >= 1 /\ written \notin Kept \cup lost
  /\ ~Writing => written = 0 \/ written \in Kept \cup lost

(* The file a step renames to has been moved away or removed, and the file *)
(* the stream writes to stays where it is.                                 *)
TargetInv ==
  /\ At("rename") => i = Retention /\ i >= 1 /\ i \notin present /\ i - 1 \in present
  /\ At("shift") => Retention >= 1
  /\ At("shift") /\ i # Retention => i \notin present
  /\ stream = "open" => ~At("shift") /\ ~At("rename") /\ 0 \in present

(* The most a file may hold when a line is printed to it. *)
Room == IF maxSize > 0 THEN maxSize - 1 ELSE 0

(* No file exceeds log_max_size by a whole line, whatever was interrupted  *)
(* before; if the size is negative, no file exceeds one line.              *)
SizeInv ==
  maxSize # 0 /\ Retention > 0 =>
    /\ \A j \in Files : size[j] <= Room + MaxLine
    /\ At("print") /\ stream = "open" => size[0] <= Room

(* The files are in order, hold what was written and are as large as they  *)
(* may be, and no rename replaces a file.                                  *)
FilesInv ==
  /\ LogTypeOK
  /\ ContentsInv
  /\ TargetInv
  /\ SizeInv
  /\ FilesInOrder

(* What rotations have removed is older than all that is left.             *)
OldestInv == \A a \in Dropped, b \in Kept : a < b

Rotating == logpc \in {"shift", "rename"}

(* The file of number j has been rotated, or will be by the rotation under *)
(* way, only when it was full.                                             *)
FullInv ==
  /\ \A j \in present : j >= 1 => size[j] >= maxSize
  /\ Rotating /\ i >= 1 /\ 0 \in present => size[0] >= maxSize

(* Where a file need not be: the place to which the rotation moves the     *)
(* next one, and otherwise 0, unless the size is negative.                 *)
Hole == IF Rotating THEN {i} ELSE IF maxSize < 0 THEN {} ELSE {0}

Missing(k) == (0 .. k) \ (present \cup Hole)

(* What may leave a gap in the chain of files: a rotation that was         *)
(* interrupted and, when the size is negative, a stream that failed (for   *)
(* then a log that has no file is rotated, too).                           *)
Gaps == interrupted + IF maxSize < 0 THEN failures ELSE 0

(* Behind a file are all that belong there, but for the gaps; and what has *)
(* been removed has been removed for log_retention files.                  *)
RetainedInv ==
  /\ FullInv
  /\ \A k \in present : Cardinality(Missing(k)) <= Gaps
  /\ Dropped # {} => Cardinality(Missing(Retention)) <= Gaps

(* The inductive invariant of LogRotationProofs. *)
LogInv == FilesInv /\ OldestInv /\ RetainedInv
=============================================================================
