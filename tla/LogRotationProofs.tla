------------------------- MODULE LogRotationProofs -------------------------
(***************************************************************************)
(* Proofs about LogRotation, for every retention, size, length of lines    *)
(* and number of faults: the chain of files keeps its order, no rename     *)
(* replaces a file that holds lines, no file exceeds its size by a line,   *)
(* what is given up is the oldest and has been replaced by log_retention   *)
(* full files of newer lines, and the chain is an AppendLog.               *)
(***************************************************************************)
EXTENDS LogRotation, FiniteSetTheorems, TLAPS

(* The numbers of the files. *)
LEMMA FilesFacts ==
  /\ Files \subseteq Nat /\ 0 \in Files
  /\ Retention >= 1 => Retention \in Files
  /\ \A j \in Files : j >= 1 => j - 1 \in Files /\ Retention >= 1 /\ j <= Retention
  BY RotationAssumption DEF Files

(* A call leaves the files alone until it owns the rotation or prints. *)
LEMMA CallWriteInv ==
  ASSUME FilesInv, CallWrite
  PROVE  FilesInv'
PROOF
  <1> USE FilesFacts DEF FilesInv, CallWrite, At, Writing, Rotates, files, faults
  <1>1. LogTypeOK'
    BY RotationAssumption DEF LogTypeOK, LogStates
  <1>2. Kept' = Kept
    BY DEF Kept
  <1>3. ContentsInv'
    BY <1>2 DEF ContentsInv, LogTypeOK, Kept
  <1>4. TargetInv'
    BY RotationAssumption DEF TargetInv
  <1>5. SizeInv'
    <2>1. size[0] \in Nat /\ maxSize \in Int
      BY RotationAssumption DEF LogTypeOK
    <2>2. CASE maxSize # 0 /\ Retention > 0 /\ logpc' = "print" /\ stream' = "open"
      <3>1. size[0] < maxSize
        BY <2>1, <2>2, RotationAssumption DEF Position
      <3>2. size'[0] <= Room'
        BY <2>1, <3>1 DEF Room
      <3> QED
        BY <2>1, <3>2, RotationAssumption DEF SizeInv, Room
    <2>3. CASE ~(maxSize # 0 /\ Retention > 0 /\ logpc' = "print" /\ stream' = "open")
      BY <2>3 DEF SizeInv, Room
    <2> QED
      BY <2>2, <2>3
  <1>6. FilesInOrder'
    BY DEF FilesInOrder
  <1> QED
    BY <1>1, <1>3, <1>4, <1>5, <1>6

(* Nor does a file that is not there move. *)
LEMMA SkipFileInv ==
  ASSUME FilesInv, SkipFile
  PROVE  FilesInv'
PROOF
  <1> USE FilesFacts DEF FilesInv, SkipFile, At, Writing, files, faults
  <1>1. LogTypeOK'
    BY DEF LogTypeOK, LogStates
  <1>2. Kept' = Kept
    BY DEF Kept
  <1>3. ContentsInv'
    BY <1>2 DEF ContentsInv
  <1>4. TargetInv'
    BY DEF TargetInv, LogTypeOK
  <1>5. SizeInv'
    BY DEF SizeInv, Room, LogTypeOK
  <1>6. FilesInOrder'
    BY DEF FilesInOrder
  <1> QED
    BY <1>1, <1>3, <1>4, <1>5, <1>6

(* The oldest file goes, and the others stay. *)
LEMMA RemoveOldestInv ==
  ASSUME FilesInv, RemoveOldest
  PROVE  FilesInv'
PROOF
  <1> USE FilesFacts DEF FilesInv, RemoveOldest, At, Writing, faults
  <1>0. /\ file \in [Files -> SUBSET Nat] /\ size \in [Files -> Nat]
        /\ i \in Files /\ maxSize \in Int
    BY RotationAssumption DEF LogTypeOK
  <1>1. LogTypeOK'
    BY DEF LogTypeOK, LogStates
  <1>2. \A j \in Files : /\ file'[j] = IF j = i THEN {} ELSE file[j]
                        /\ size'[j] = IF j = i THEN 0 ELSE size[j]
    BY <1>0
  <1>3. Kept' \subseteq Kept
    BY <1>2 DEF Kept
  <1>4. ContentsInv'
    BY <1>2, <1>3 DEF ContentsInv, LogTypeOK
  <1>5. TargetInv'
    BY <1>0 DEF TargetInv, LogTypeOK
  <1>6. SizeInv'
    BY <1>0, <1>2, RotationAssumption DEF SizeInv, Room
  <1>7. FilesInOrder'
    <2>1. \A j \in Files : file'[j] \subseteq file[j]
      BY <1>2
    <2> QED
      BY <2>1, Zenon DEF FilesInOrder
  <1> QED
    BY <1>1, <1>4, <1>5, <1>6, <1>7

(* A rename shifts a file to a place that is empty. *)
LEMMA RenameInv ==
  ASSUME FilesInv, Rename
  PROVE  FilesInv' /\ Kept' = Kept
PROOF
  <1> USE FilesFacts DEF FilesInv, Rename, Move, At, Writing, faults
  <1>0. /\ file \in [Files -> SUBSET Nat] /\ size \in [Files -> Nat] /\ maxSize \in Int
        /\ i \in Files /\ i - 1 \in Files /\ i \in Nat
        /\ i \notin present /\ i >= 1
    BY RotationAssumption DEF LogTypeOK, TargetInv
  <1>1. LogTypeOK'
    BY <1>0 DEF LogTypeOK, LogStates
  <1>2. \A j \in Files :
          /\ file'[j] = IF j = i - 1 THEN {} ELSE IF j = i THEN file[i - 1] ELSE file[j]
          /\ size'[j] = IF j = i - 1 THEN 0 ELSE IF j = i THEN size[i - 1] ELSE size[j]
    BY <1>0
  <1>3. Kept' = Kept
    <2>1. file[i] = {}
      BY <1>0 DEF ContentsInv
    <2>2. Kept \subseteq Kept'
      BY <1>0, <1>2, <2>1 DEF Kept
    <2>3. Kept' \subseteq Kept
      BY <1>0, <1>2 DEF Kept
    <2> QED
      BY <2>2, <2>3
  <1>4. ContentsInv'
    BY <1>0, <1>2, <1>3 DEF ContentsInv, LogTypeOK
  <1>5. TargetInv'
    BY <1>0 DEF TargetInv, LogTypeOK
  <1>6. SizeInv'
    BY <1>0, <1>2, RotationAssumption DEF SizeInv, Room
  <1>7. FilesInOrder'
    <2> SUFFICES ASSUME NEW j \in Files, NEW k \in Files, j < k,
                        NEW a \in file'[j], NEW b \in file'[k]
                 PROVE  b < a
      BY DEF FilesInOrder
    <2>1. file'[j] # {} /\ file'[k] # {}
      OBVIOUS
    <2>2. j # i - 1 /\ k # i - 1
      BY <1>2, <2>1
    <2>3. CASE j = i
      BY <1>0, <1>2, <2>2, <2>3 DEF FilesInOrder
    <2>4. CASE k = i
      BY <1>0, <1>2, <2>2, <2>4 DEF FilesInOrder
    <2>5. CASE j # i /\ k # i
      BY <1>2, <2>2, <2>5 DEF FilesInOrder
    <2> QED
      BY <2>3, <2>4, <2>5
  <1> QED
    BY <1>1, <1>3, <1>4, <1>5, <1>6, <1>7

(* Where there is a file of that name, it holds nothing. *)
LEMMA OpenEmptyInv ==
  ASSUME FilesInv, OpenEmpty
  PROVE  FilesInv' /\ Kept' = Kept
PROOF
  <1> USE FilesFacts DEF FilesInv, OpenEmpty, Open, Truncate, StreamFails, FaultsLeft, At, Writing, files
  <1>0. /\ file \in [Files -> SUBSET Nat] /\ size \in [Files -> Nat]
        /\ file[0] = {} /\ size[0] = 0 /\ Retention >= 1 /\ maxSize \in Int
    BY RotationAssumption DEF LogTypeOK, TargetInv, ContentsInv
  <1>1. LogTypeOK'
    <2>1. ends' \in 0 .. MaxFaults /\ failures' \in 0 .. MaxFaults
      BY RotationAssumption DEF LogTypeOK
    <2> QED
      BY <2>1 DEF LogTypeOK, LogStates
  <1>2. file' = file /\ size' = size /\ present \subseteq present'
    BY <1>0
  <1>3. Kept' = Kept
    BY <1>2 DEF Kept
  <1>4. ContentsInv'
    BY <1>2, <1>3 DEF ContentsInv
  <1>5. TargetInv'
    BY DEF TargetInv
  <1>6. SizeInv'
    BY <1>0, <1>2, RotationAssumption DEF SizeInv, Room
  <1>7. FilesInOrder'
    BY <1>2 DEF FilesInOrder
  <1> QED
    BY <1>1, <1>3, <1>4, <1>5, <1>6, <1>7

(* The file that a line or a part of it goes to had room. *)
LEMMA PutLineSize ==
  ASSUME FilesInv, PutLine
  PROVE  /\ size' \in [Files -> Nat]
         /\ \A j \in Files : j # 0 => size'[j] = size[j]
         /\ 0 \notin present => size'[0] = size[0]
         /\ SizeInv'
PROOF
  <1>0. /\ size \in [Files -> Nat] /\ maxSize \in Int /\ maxSize' = maxSize /\ 0 \in Files
        /\ logpc = "print" /\ logpc' = "idle" /\ SizeInv
        /\ stream = "open" => 0 \in present
    BY FilesFacts, RotationAssumption DEF FilesInv, LogTypeOK, TargetInv, PutLine, At
  <1>1. CASE stream = "open"
    <2>1. PICK bytes \in 0 .. MaxLine : size' = [size EXCEPT ![0] = @ + bytes]
      <3>1. \A n \in LineSizes : n \in 0 .. MaxLine /\ \A m \in 0 .. n - 1 : m \in 0 .. MaxLine
        BY RotationAssumption
      <3> QED
        BY <1>1, <3>1 DEF PutLine
    <2>2. \A j \in Files : size'[j] = IF j = 0 THEN size[0] + bytes ELSE size[j]
      BY <1>0, <2>1
    <2>3. SizeInv'
      BY <1>0, <1>1, <2>2, RotationAssumption DEF SizeInv, Room, At
    <2> QED
      BY <1>0, <1>1, <2>1, <2>2, <2>3, RotationAssumption
  <1>2. CASE stream # "open"
    <2>1. UNCHANGED size
      BY <1>2 DEF PutLine
    <2> QED
      BY <1>0, <2>1 DEF SizeInv, Room, At
  <1> QED
    BY <1>1, <1>2

(* A line is younger than all that is kept. *)
LEMMA PutLineInv ==
  ASSUME FilesInv, PutLine
  PROVE  /\ FilesInv'
         /\ \/ Kept' = Kept \cup {written} /\ lost' = lost
            \/ Kept' = Kept /\ lost' = lost \cup {written}
PROOF
  <1> USE FilesFacts DEF FilesInv, At, Writing
  <1>0. /\ file \in [Files -> SUBSET Nat] /\ size \in [Files -> Nat]
        /\ written \in Nat /\ written >= 1
        /\ stream = "open" => 0 \in present
    BY DEF LogTypeOK, ContentsInv, TargetInv, PutLine
  <1>a. /\ logpc = "print" /\ logpc' = "idle"
        /\ UNCHANGED <<maxSize, present, i, written, interrupted, ends>>
    BY DEF PutLine
  <1>b. \A j \in Files : j \notin present => size'[j] = 0
    BY PutLineSize DEF ContentsInv
  <1>1. CASE /\ file' = [file EXCEPT ![0] = @ \cup {written}] /\ stream = "open"
             /\ UNCHANGED <<stream, lost, failures>>
    <2>1. \A j \in Files : file'[j] = IF j = 0 THEN file[0] \cup {written} ELSE file[j]
      BY <1>0, <1>1
    <2>2. Kept' = Kept \cup {written}
      BY <2>1, Zenon DEF Kept
    <2>3. ContentsInv'
      <3>1. \A j \in Files : j \notin present => file'[j] = {}
        BY <1>0, <1>1, <2>1 DEF ContentsInv
      <3>2. \A j \in Files : \A n \in file'[j] : 1 <= n /\ n <= written
        BY <1>0, <2>1 DEF ContentsInv
      <3> QED
        BY <1>1, <1>a, <1>b, <2>2, <3>1, <3>2 DEF ContentsInv
    <2>4. TargetInv' /\ LogTypeOK'
      BY <1>0, <1>1, <1>a, PutLineSize DEF TargetInv, LogTypeOK, LogStates
    <2>5. FilesInOrder'
      <3> SUFFICES ASSUME NEW j \in Files, NEW k \in Files, j < k,
                          NEW a \in file'[j], NEW b \in file'[k]
                   PROVE  b < a
        BY DEF FilesInOrder
      <3>1. k # 0 /\ b \in file[k]
        BY <2>1
      <3>2. CASE a = written
        BY <1>0, <1>a, <3>1, <3>2 DEF ContentsInv, Kept
      <3>3. CASE a \in file[j]
        BY <3>1, <3>3 DEF FilesInOrder
      <3> QED
        BY <2>1, <3>2, <3>3
    <2> QED
      BY <1>1, <2>2, <2>3, <2>4, <2>5, PutLineSize
  <1>2. CASE UNCHANGED file /\ lost' = lost \cup {written} /\ stream' = "failed"
    <2>1. Kept' = Kept
      BY <1>2 DEF Kept
    <2>2. ContentsInv'
      BY <1>0, <1>2, <1>a, <1>b, <2>1 DEF ContentsInv
    <2>3. failures' \in 0 .. MaxFaults
      BY RotationAssumption DEF LogTypeOK, PutLine, StreamFails, FaultsLeft
    <2>4. TargetInv' /\ LogTypeOK' /\ FilesInOrder'
      BY <1>0, <1>2, <1>a, <2>3, PutLineSize DEF TargetInv, LogTypeOK, LogStates, FilesInOrder
    <2> QED
      BY <1>2, <2>1, <2>2, <2>4, PutLineSize
  <1> QED
    <2>1. \/ /\ stream = "open"
             /\ file' = [file EXCEPT ![0] = @ \cup {written}]
             /\ UNCHANGED <<stream, lost, failures>>
          \/ /\ lost' = lost \cup {written} /\ UNCHANGED file
             /\ stream' = "failed"
      BY DEF PutLine, StreamFails
    <2> QED
      BY <1>1, <1>2, <2>1

(* Opening a stream again, ending and starting leave the files alone; what *)
(* was being written is lost when the process ends.                        *)
LEMMA OpenStreamsInv ==
  ASSUME FilesInv, OpenStreams
  PROVE  FilesInv' /\ Kept' = Kept
PROOF
  <1> USE FilesFacts DEF FilesInv, OpenStreams, Open, StreamFails, FaultsLeft, At, Writing, files
  <1>1. LogTypeOK'
    <2>1. ends' \in 0 .. MaxFaults /\ failures' \in 0 .. MaxFaults
      BY RotationAssumption DEF LogTypeOK
    <2> QED
      BY <2>1 DEF LogTypeOK, LogStates
  <1>2. file' = file /\ size' = size /\ present \subseteq present'
    OBVIOUS
  <1>3. Kept' = Kept
    BY <1>2 DEF Kept
  <1>4. ContentsInv'
    BY <1>2, <1>3 DEF ContentsInv
  <1>5. TargetInv' /\ SizeInv' /\ FilesInOrder'
    BY <1>2 DEF TargetInv, SizeInv, Room, FilesInOrder
  <1> QED
    BY <1>1, <1>3, <1>4, <1>5

LEMMA EndLogInv ==
  ASSUME FilesInv, EndLog
  PROVE  /\ FilesInv'
         /\ Kept' = Kept
         /\ lost' = IF At("idle") THEN lost ELSE lost \cup {written}
PROOF
  <1> USE FilesFacts DEF FilesInv, EndLog, FaultsLeft, At, Writing, files
  <1>1. LogTypeOK'
    <2>1. ends' \in 0 .. MaxFaults /\ failures' \in 0 .. MaxFaults
      BY RotationAssumption DEF LogTypeOK
    <2> QED
      BY <2>1 DEF LogTypeOK, LogStates
  <1>2. Kept' = Kept
    BY DEF Kept
  <1>3. lost' \subseteq 1 .. written' /\ (written' = 0 \/ written' \in Kept' \cup lost')
    BY <1>2 DEF ContentsInv, LogTypeOK, LogStates
  <1>4. ContentsInv'
    BY <1>2, <1>3 DEF ContentsInv
  <1>5. TargetInv' /\ SizeInv' /\ FilesInOrder'
    BY DEF TargetInv, SizeInv, Room, FilesInOrder
  <1> QED
    BY <1>1, <1>2, <1>4, <1>5

LEMMA RestartLogInv ==
  ASSUME FilesInv, RestartLog
  PROVE  FilesInv' /\ Kept' = Kept
PROOF
  <1> USE FilesFacts DEF FilesInv, RestartLog, Open, StreamFails, FaultsLeft, At, Writing, files
  <1>1. LogTypeOK'
    <2>1. ends' \in 0 .. MaxFaults /\ failures' \in 0 .. MaxFaults
      BY RotationAssumption DEF LogTypeOK
    <2> QED
      BY <2>1 DEF LogTypeOK, LogStates
  <1>2. file' = file /\ size' = size /\ present \subseteq present'
    OBVIOUS
  <1>3. Kept' = Kept
    BY <1>2 DEF Kept
  <1>4. ContentsInv'
    BY <1>2, <1>3 DEF ContentsInv
  <1>5. TargetInv' /\ SizeInv' /\ FilesInOrder'
    BY <1>2 DEF TargetInv, SizeInv, Room, FilesInOrder
  <1> QED
    BY <1>1, <1>3, <1>4, <1>5

(* The empty log of the first start. *)
LEMMA LogInitInv ==
  ASSUME LogInit
  PROVE  FilesInv /\ Kept = {}
PROOF
  <1> USE FilesFacts DEF LogInit, At, Writing
  <1>1. LogTypeOK
    BY RotationAssumption DEF LogTypeOK, LogStates
  <1>2. \A j \in Files : file[j] = {} /\ size[j] = 0
    OBVIOUS
  <1>3. Kept = {}
    BY <1>2 DEF Kept
  <1>4. ContentsInv /\ TargetInv /\ FilesInOrder
    BY <1>2, <1>3 DEF ContentsInv, TargetInv, FilesInOrder
  <1>5. SizeInv
    BY <1>2, RotationAssumption DEF SizeInv, Room
  <1> QED
    BY <1>1, <1>3, <1>4, <1>5 DEF FilesInv

(* Every step preserves the invariant. *)
LEMMA LogNextInv ==
  ASSUME FilesInv, [LogNext]_logVars
  PROVE  FilesInv'
PROOF
  <1>1. CASE UNCHANGED logVars
    BY <1>1, Zenon DEF logVars, files, faults, FilesInv, LogTypeOK, ContentsInv, TargetInv, SizeInv,
       Room, FilesInOrder, At, Writing, Kept
  <1> QED
    BY <1>1, CallWriteInv, SkipFileInv, RemoveOldestInv, RenameInv, OpenEmptyInv, PutLineInv,
       OpenStreamsInv, EndLogInv, RestartLogInv DEF LogNext, WriteStep

(* What a rotation gives up is older than all it keeps. *)
LEMMA OldestIsDropped ==
  ASSUME FilesInv, RemoveOldest
  PROVE  /\ Kept' \in SUBSET Kept
         /\ \A a \in Kept \ Kept', b \in Kept' : a < b
PROOF
  <1> USE FilesFacts DEF FilesInv, RemoveOldest
  <1>1. file \in [Files -> SUBSET Nat] /\ i \in Files /\ i = Retention
    BY DEF LogTypeOK
  <1>2. \A j \in Files : file'[j] = IF j = i THEN {} ELSE file[j]
    BY <1>1
  <1>3. Kept' \subseteq Kept
    BY <1>2 DEF Kept
  <1>4. ASSUME NEW a \in Kept \ Kept', NEW b \in Kept'
        PROVE  a < b
    <2>1. a \in file[i]
      BY <1>1, <1>2 DEF Kept
    <2>2. PICK k \in Files : b \in file'[k]
      BY DEF Kept
    <2>3. k # i /\ b \in file[k]
      BY <1>2, <2>2
    <2>4. k < i
      BY <1>1, <2>3
    <2> QED
      BY <1>1, <2>1, <2>3, <2>4 DEF FilesInOrder
  <1> QED
    BY <1>3, <1>4

(* A step of the chain of files is a step of the log, or none. *)
LEMMA LogStepRefines ==
  ASSUME FilesInv, [LogNext]_logVars
  PROVE  [Abstract!Next]_(Abstract!vars)
PROOF
  <1> USE DEF Abstract!Next, Abstract!vars
  <1>1. CASE CallWrite
    <2>1. Kept' = Kept
      BY <1>1 DEF CallWrite, files, Kept
    <2>2. ~Abstract!InFlight
      BY <1>1 DEF CallWrite, FilesInv, ContentsInv, Abstract!InFlight, At, Writing
    <2> QED
      BY <1>1, <2>1, <2>2 DEF CallWrite, Abstract!Give
  <1>2. CASE SkipFile
    BY <1>2 DEF SkipFile, files, Kept
  <1>3. CASE RemoveOldest
    BY <1>3, OldestIsDropped DEF RemoveOldest, Abstract!DropOldest
  <1>4. CASE Rename
    BY <1>4, RenameInv DEF Rename
  <1>5. CASE OpenEmpty
    BY <1>5, OpenEmptyInv DEF OpenEmpty
  <1>6. CASE PutLine
    <2>1. Abstract!InFlight
      BY <1>6 DEF PutLine, FilesInv, ContentsInv, LogTypeOK, Abstract!InFlight, At, Writing
    <2> QED
      BY <1>6, <2>1, PutLineInv DEF PutLine, Abstract!Keep, Abstract!Lose
  <1>7. CASE OpenStreams
    BY <1>7, OpenStreamsInv DEF OpenStreams
  <1>8. CASE EndLog
    <2>1. CASE Writing
      <3>1. Abstract!InFlight
        BY <2>1 DEF FilesInv, ContentsInv, LogTypeOK, Abstract!InFlight
      <3>2. lost' = lost \cup {written} /\ Kept' = Kept
        BY <1>8, <2>1, EndLogInv DEF Writing, At
      <3> QED
        BY <1>8, <3>1, <3>2 DEF EndLog, Abstract!Lose
    <2>2. CASE ~Writing
      BY <1>8, <2>2, EndLogInv DEF EndLog, Writing, At, FilesInv, LogTypeOK, LogStates
    <2> QED
      BY <2>1, <2>2
  <1>9. CASE RestartLog
    BY <1>9, RestartLogInv DEF RestartLog
  <1>10. CASE UNCHANGED logVars
    BY <1>10 DEF logVars, files, Kept
  <1> QED
    BY <1>1, <1>2, <1>3, <1>4, <1>5, <1>6, <1>7, <1>8, <1>9, <1>10 DEF LogNext, WriteStep

----------------------------------------------------------------------------
(* What rotations give up is the oldest.                                   *)

(* The line that is being written is not missing yet. *)
LEMMA DroppedLines ==
  ASSUME FilesInv
  PROVE  /\ Dropped = (1 .. written) \ (Kept \cup lost \cup {written})
         /\ written \in Nat
  BY DEF FilesInv, LogTypeOK, ContentsInv, Dropped

(* Only the removal of the oldest file takes lines away. *)
LEMMA KeptStays ==
  ASSUME FilesInv, [LogNext]_logVars, ~RemoveOldest
  PROVE  Kept \subseteq Kept'
PROOF
  <1>1. CASE CallWrite \/ SkipFile \/ UNCHANGED logVars
    <2>1. UNCHANGED file
      BY <1>1, Zenon DEF CallWrite, SkipFile, logVars, files
    <2> QED
      BY <2>1 DEF Kept
  <1> QED
    BY <1>1, RenameInv, OpenEmptyInv, PutLineInv, OpenStreamsInv, EndLogInv, RestartLogInv
    DEF LogNext, WriteStep

LEMMA DroppedStays ==
  ASSUME FilesInv, FilesInv', [LogNext]_logVars, ~RemoveOldest
  PROVE  Dropped' \subseteq Dropped
PROOF
  <1>1. /\ Dropped = (1 .. written) \ (Kept \cup lost \cup {written})
        /\ Dropped' = (1 .. written') \ (Kept' \cup lost' \cup {written'})
        /\ written \in Nat
    <2>1. FilesInv => Dropped = (1 .. written) \ (Kept \cup lost \cup {written})
      BY DroppedLines
    <2>2. FilesInv' => Dropped' = (1 .. written') \ (Kept' \cup lost' \cup {written'})
      BY DEF FilesInv, LogTypeOK, ContentsInv, Dropped
    <2> QED
      BY <2>1, <2>2, DroppedLines
  <1>2. Kept \subseteq Kept'
    BY KeptStays
  <1>3. CASE Abstract!Give
    BY <1>1, <1>3 DEF Abstract!Give, Abstract!InFlight
  <1>4. CASE written' = written /\ lost \subseteq lost'
    BY <1>1, <1>2, <1>4
  <1> QED
    BY <1>3, <1>4, LogStepRefines DEF Abstract!Next, Abstract!vars, Abstract!Keep,
       Abstract!Lose, Abstract!DropOldest

(* What is missing stays older than what is kept. *)
LEMMA OldestNext ==
  ASSUME FilesInv, FilesInv', OldestInv, [LogNext]_logVars
  PROVE  OldestInv'
PROOF
  <1> SUFFICES ASSUME NEW a \in Dropped', NEW b \in Kept'
               PROVE  a < b
    BY DEF OldestInv
  <1>1. CASE RemoveOldest
    <2>1. /\ Kept' \subseteq Kept /\ \A x \in Kept \ Kept', y \in Kept' : x < y
          /\ lost' = lost /\ written' = written /\ Writing' /\ Writing
      BY <1>1, OldestIsDropped DEF RemoveOldest, Writing, At
    <2>2. a \in Dropped \/ a \in Kept \ Kept'
      BY <2>1 DEF Dropped
    <2> QED
      BY <2>1, <2>2 DEF OldestInv
  <1>2. CASE ~RemoveOldest
    <2>1. a \in Dropped
      BY <1>2, DroppedStays
    <2>2. b \in Kept \/ b = written
      BY LogStepRefines DEF Abstract!Next, Abstract!vars, Abstract!Give, Abstract!Keep,
         Abstract!Lose, Abstract!DropOldest
    <2>3. a < written
      BY <2>1, DroppedLines
    <2> QED
      BY <2>1, <2>2, <2>3 DEF OldestInv
  <1> QED
    BY <1>1, <1>2

----------------------------------------------------------------------------
(* What rotations give up has been replaced by that many full files.       *)

(* Facts about the size of finite sets. *)
LEMMA SmallerSet ==
  ASSUME NEW T, IsFiniteSet(T), NEW S, S \subseteq T
  PROVE  /\ IsFiniteSet(S)
         /\ Cardinality(S) \in Nat /\ Cardinality(T) \in Nat
         /\ Cardinality(S) <= Cardinality(T)
  BY FS_Subset, FS_CardinalityType

LEMMA OneMore ==
  ASSUME NEW T, IsFiniteSet(T), NEW S, NEW x, S \subseteq T \cup {x}
  PROVE  Cardinality(S) <= Cardinality(T) + 1
PROOF
  <1>1. /\ IsFiniteSet(T \cup {x}) /\ Cardinality(T) \in Nat
        /\ Cardinality(T \cup {x}) <= Cardinality(T) + 1
    BY FS_AddElement, FS_CardinalityType
  <1>2. Cardinality(S) <= Cardinality(T \cup {x}) /\ Cardinality(S) \in Nat
        /\ Cardinality(T \cup {x}) \in Nat
    BY <1>1, SmallerSet
  <1> QED
    BY <1>1, <1>2

LEMMA OneForOne ==
  ASSUME NEW T, IsFiniteSet(T), NEW S, NEW x \in T, NEW y, S \subseteq (T \ {x}) \cup {y}
  PROVE  Cardinality(S) <= Cardinality(T)
PROOF
  <1>1. /\ IsFiniteSet(T \ {x}) /\ Cardinality(T \ {x}) = Cardinality(T) - 1
        /\ Cardinality(T) \in Nat
    BY FS_RemoveElement, FS_CardinalityType
  <1>2. Cardinality(S) <= Cardinality(T \ {x}) + 1
    BY <1>1, OneMore
  <1>3. IsFiniteSet((T \ {x}) \cup {y})
    BY <1>1, FS_AddElement
  <1>4. Cardinality(S) \in Nat
    BY <1>3, SmallerSet
  <1> QED
    BY <1>1, <1>2, <1>4

LEMMA MissingFacts ==
  ASSUME FilesInv, NEW k \in Int
  PROVE  /\ IsFiniteSet(Missing(k)) /\ Cardinality(Missing(k)) \in Nat
         /\ Gaps \in Nat
PROOF
  <1>1. IsFiniteSet(0 .. k) /\ Missing(k) \subseteq 0 .. k
    BY FS_Interval DEF Missing
  <1>2. interrupted \in Nat /\ failures \in Nat
    BY RotationAssumption DEF FilesInv, LogTypeOK
  <1> QED
    BY <1>1, <1>2, SmallerSet DEF Gaps

(* Fewer files are missing, and the gaps are as many or more. *)
LEMMA MissingLess ==
  ASSUME FilesInv, FilesInv', Gaps <= Gaps',
         NEW k \in Int, Cardinality(Missing(k)) <= Gaps, Missing(k)' \subseteq Missing(k)
  PROVE  Cardinality(Missing(k))' <= Gaps'
PROOF
  <1>1. IsFiniteSet(Missing(k)) /\ Cardinality(Missing(k)) \in Nat /\ Gaps \in Nat
    BY MissingFacts
  <1>2. Cardinality(Missing(k)') <= Cardinality(Missing(k)) /\ Cardinality(Missing(k)') \in Nat
    BY <1>1, SmallerSet
  <1>3. Gaps' \in Int
    <2>1. interrupted' \in Nat /\ failures' \in Nat /\ maxSize' \in Int
      BY RotationAssumption DEF FilesInv, LogTypeOK
    <2>2. Gaps' = IF maxSize' < 0 THEN interrupted' + failures' ELSE interrupted' + 0
      BY DEF Gaps
    <2> QED
      BY <2>1, <2>2
  <1> QED
    BY <1>1, <1>2, <1>3

(* One file more is missing, and there is one gap more. *)
LEMMA MissingMore ==
  ASSUME FilesInv, Gaps' = Gaps + 1,
         NEW k \in Int, Cardinality(Missing(k)) <= Gaps,
         NEW x, Missing(k)' \subseteq Missing(k) \cup {x}
  PROVE  Cardinality(Missing(k))' <= Gaps'
PROOF
  <1>1. IsFiniteSet(Missing(k)) /\ Cardinality(Missing(k)) \in Nat /\ Gaps \in Nat
    BY MissingFacts
  <1>2. Cardinality(Missing(k)') <= Cardinality(Missing(k)) + 1
    BY <1>1, OneMore
  <1>3. Cardinality(Missing(k)') \in Nat
    <2>1. IsFiniteSet(Missing(k) \cup {x})
      BY <1>1, FS_AddElement
    <2> QED
      BY <2>1, SmallerSet
  <1> QED
    BY <1>1, <1>2, <1>3

(* Types that the steps below need. *)
LEMMA ChainFacts ==
  ASSUME FilesInv
  PROVE  /\ present \subseteq Files /\ Files \subseteq Nat /\ Files \subseteq Int
         /\ 0 \in Files /\ i \in Files /\ i \in Nat
         /\ size \in [Files -> Nat] /\ maxSize \in Int /\ Retention \in Int
         /\ interrupted \in Nat /\ failures \in Nat
  BY FilesFacts, RotationAssumption DEF FilesInv, LogTypeOK

(* No rotation: files are added at 0, and the others stay as they are. *)
LEMMA RetainedOutside ==
  ASSUME FilesInv, FilesInv', RetainedInv, Dropped' \subseteq Dropped,
         ~Rotating, ~Rotating', interrupted' = interrupted, failures' >= failures,
         maxSize' = maxSize, \A j \in Files : j >= 1 => size'[j] = size[j],
         present \subseteq present', present' \subseteq present \cup {0}
  PROVE  RetainedInv'
PROOF
  <1>0. failures' \in Nat
    BY RotationAssumption DEF FilesInv, LogTypeOK
  <1>1. Gaps <= Gaps'
    BY <1>0, ChainFacts DEF Gaps
  <1>2. Hole' = Hole
    BY DEF Hole
  <1>3. \A k \in Int : Missing(k)' \subseteq Missing(k)
    BY <1>2 DEF Missing
  <1>4. FullInv'
    BY ChainFacts DEF FullInv, RetainedInv
  <1>5. ASSUME NEW k \in present'
        PROVE  Cardinality(Missing(k))' <= Gaps'
    <2>1. CASE k \in present
      BY <1>1, <1>3, <2>1, ChainFacts, MissingLess DEF RetainedInv
    <2>2. CASE k = 0 /\ k \notin present
      <3>1. Missing(k)' = {}
        BY <1>5, <2>2 DEF Missing
      <3>2. Gaps' \in Nat
        BY <1>0, ChainFacts DEF Gaps
      <3> QED
        BY <3>1, <3>2, FS_EmptySet
    <2> QED
      BY <1>5, <2>1, <2>2
  <1>6. Dropped' # {} => Cardinality(Missing(Retention))' <= Gaps'
    BY <1>1, <1>3, ChainFacts, MissingLess DEF RetainedInv
  <1> QED
    BY <1>4, <1>5, <1>6 DEF RetainedInv

(* The file that is to be rotated is full. *)
LEMMA RetainedCall ==
  ASSUME FilesInv, FilesInv', RetainedInv, Dropped' \subseteq Dropped, CallWrite
  PROVE  RetainedInv'
PROOF
  <1>1. UNCHANGED <<maxSize, size, present, interrupted, failures>> /\ ~Rotating
    BY DEF CallWrite, files, faults, At, Rotating
  <1>2. CASE Rotates /\ i' = Retention /\ logpc' = "shift"
    <2>1. Rotating' /\ Gaps' = Gaps
      BY <1>1, <1>2 DEF Rotating, Gaps
    <2>2. /\ 0 \in present => size[0] >= maxSize
          /\ maxSize >= 0 => 0 \in present
      BY <1>2, ChainFacts DEF Rotates, Position, FilesInv, TargetInv
    <2>3. FullInv'
      BY <1>1, <2>2 DEF FullInv, RetainedInv
    <2>4. \A k \in Int : Missing(k)' \subseteq Missing(k)
      BY <1>1, <2>1, <2>2, ChainFacts DEF Missing, Hole
    <2>5. Gaps <= Gaps'
      BY <2>1, ChainFacts, MissingFacts
    <2> QED
      BY <1>1, <2>3, <2>4, <2>5, ChainFacts, MissingLess DEF RetainedInv
  <1>3. CASE logpc' = "print"
    <2>1. ~Rotating' /\ failures' >= failures
      BY <1>1, <1>3, ChainFacts DEF Rotating
    <2> QED
      BY <1>1, <2>1, RetainedOutside
  <1> QED
    BY <1>2, <1>3 DEF CallWrite

(* The place of a file that is not there takes over from the one before. *)
LEMMA RetainedSkip ==
  ASSUME FilesInv, FilesInv', RetainedInv, Dropped' \subseteq Dropped, SkipFile
  PROVE  RetainedInv'
PROOF
  <1>1. /\ UNCHANGED <<maxSize, size, present, interrupted, failures>>
        /\ Rotating /\ Rotating' /\ i >= 1 /\ i - 1 \notin present /\ i' = i - 1
    BY DEF SkipFile, files, faults, At, Rotating
  <1>2. Gaps' = Gaps /\ Hole = {i} /\ Hole' = {i - 1} /\ Gaps <= Gaps'
    BY <1>1, ChainFacts, MissingFacts DEF Gaps, Hole
  <1>3. FullInv'
    BY <1>1, ChainFacts DEF FullInv, RetainedInv
  <1>4. ASSUME NEW k \in Int, k # i - 1, Cardinality(Missing(k)) <= Gaps
        PROVE  Cardinality(Missing(k))' <= Gaps'
    <2>1. CASE k < i - 1
      <3>1. Missing(k)' \subseteq Missing(k)
        BY <1>1, <1>2, <2>1, ChainFacts DEF Missing
      <3> QED
        BY <1>2, <1>4, <3>1, MissingLess
    <2>2. CASE k >= i
      <3>1. i - 1 \in Missing(k)
        BY <1>1, <1>2, <2>2, ChainFacts DEF Missing
      <3>2. Missing(k)' \subseteq (Missing(k) \ {i - 1}) \cup {i}
        BY <1>1, <1>2 DEF Missing
      <3>3. Cardinality(Missing(k)') <= Cardinality(Missing(k))
        BY <3>1, <3>2, MissingFacts, OneForOne
      <3>4. Cardinality(Missing(k)') \in Nat
        <4>1. IsFiniteSet(Missing(k)')
          <5>1. IsFiniteSet(Missing(k) \cup {i})
            BY MissingFacts, FS_AddElement
          <5> QED
            BY <3>2, <5>1, SmallerSet
        <4> QED
          BY <4>1, FS_CardinalityType
      <3> QED
        BY <1>2, <1>4, <3>3, <3>4, MissingFacts
    <2> QED
      BY <1>4, <2>1, <2>2, ChainFacts
  <1>5. Retention >= i
    BY <1>1, FilesFacts, ChainFacts
  <1> QED
    BY <1>1, <1>3, <1>4, <1>5, ChainFacts DEF RetainedInv

(* The last file before the oldest stands for all that is needed. *)
LEMMA RetainedRemove ==
  ASSUME FilesInv, FilesInv', RetainedInv, RemoveOldest
  PROVE  RetainedInv'
PROOF
  <1>1. /\ UNCHANGED <<maxSize, i, interrupted, failures>> /\ Rotating /\ Rotating'
        /\ i >= 1 /\ i = Retention /\ i - 1 \in present /\ present' = present \ {i}
        /\ size' = [size EXCEPT ![i] = 0]
    BY DEF RemoveOldest, faults, At, Rotating
  <1>2. Gaps' = Gaps /\ Hole = {i} /\ Hole' = {i} /\ Gaps <= Gaps'
    BY <1>1, ChainFacts, MissingFacts DEF Gaps, Hole
  <1>3. \A k \in Int : Missing(k)' \subseteq Missing(k)
    BY <1>1, <1>2 DEF Missing
  <1>4. FullInv'
    BY <1>1, ChainFacts DEF FullInv, RetainedInv
  <1>5. \A k \in present' : Cardinality(Missing(k))' <= Gaps'
    BY <1>1, <1>2, <1>3, ChainFacts, MissingLess DEF RetainedInv
  <1>6. Cardinality(Missing(Retention))' <= Gaps'
    <2>1. Missing(Retention) = Missing(Retention - 1)
      BY <1>1, <1>2, ChainFacts DEF Missing
    <2>2. Cardinality(Missing(Retention)) <= Gaps
      BY <1>1, <2>1 DEF RetainedInv
    <2> QED
      BY <1>2, <1>3, <2>2, ChainFacts, MissingLess
  <1> QED
    BY <1>4, <1>5, <1>6 DEF RetainedInv

(* A file and the place for the next one change places. *)
LEMMA RetainedRename ==
  ASSUME FilesInv, FilesInv', RetainedInv, Dropped' \subseteq Dropped, Rename
  PROVE  RetainedInv'
PROOF
  <1>1. /\ UNCHANGED <<maxSize, interrupted, failures>> /\ Rotating /\ Rotating'
        /\ i >= 1 /\ i - 1 \in present /\ i' = i - 1
        /\ present' = (present \ {i - 1}) \cup {i}
        /\ size' = [size EXCEPT ![i] = size[i - 1], ![i - 1] = 0]
    BY FilesFacts DEF Rename, Move, faults, At, Rotating, FilesInv, TargetInv
  <1>2. Gaps' = Gaps /\ Hole = {i} /\ Hole' = {i - 1} /\ Gaps <= Gaps'
    BY <1>1, ChainFacts, MissingFacts DEF Gaps, Hole
  <1>3. \A k \in Int : Missing(k)' = Missing(k)
    BY <1>1, <1>2 DEF Missing
  <1>4. FullInv'
    <2>1. FullInv /\ i \in Files /\ i - 1 \in Files
      BY <1>1, ChainFacts DEF RetainedInv
    <2>2. \A j \in Files :
            size'[j] = IF j = i - 1 THEN 0 ELSE IF j = i THEN size[i - 1] ELSE size[j]
      BY <1>1, <2>1, ChainFacts
    <2>3. size[i - 1] >= maxSize
      BY <1>1, <2>1, ChainFacts DEF FullInv
    <2>4. \A j \in present' : j >= 1 => size'[j] >= maxSize'
      BY <1>1, <2>1, <2>2, <2>3, ChainFacts DEF FullInv
    <2>5. i' >= 1 /\ 0 \in present' => size'[0] >= maxSize'
      BY <1>1, <2>1, <2>2, ChainFacts DEF FullInv
    <2> QED
      BY <2>4, <2>5 DEF FullInv
  <1>5. ASSUME NEW k \in present'
        PROVE  Cardinality(Missing(k))' <= Gaps'
    <2>1. CASE k = i
      <3>1. Missing(i) = Missing(i - 1)
        BY <1>1, <1>2, ChainFacts DEF Missing
      <3> QED
        BY <1>1, <1>2, <1>3, <2>1, <3>1, ChainFacts, MissingLess DEF RetainedInv
    <2>2. CASE k # i
      BY <1>1, <1>2, <1>3, <1>5, <2>2, ChainFacts, MissingLess DEF RetainedInv
    <2> QED
      BY <2>1, <2>2
  <1>6. Dropped' # {} => Cardinality(Missing(Retention))' <= Gaps'
    BY <1>2, <1>3, ChainFacts, MissingLess DEF RetainedInv
  <1> QED
    BY <1>4, <1>5, <1>6 DEF RetainedInv

(* The new file takes the place that is left. *)
LEMMA RetainedOpen ==
  ASSUME FilesInv, FilesInv', RetainedInv, Dropped' \subseteq Dropped, OpenEmpty
  PROVE  RetainedInv'
PROOF
  <1>1. /\ UNCHANGED <<maxSize, interrupted>> /\ Rotating /\ ~Rotating' /\ i = 0
        /\ \/ present' = present \cup {0} /\ UNCHANGED failures
           \/ present' = present /\ failures' = failures + 1
        /\ \A j \in Files : j >= 1 => size'[j] = size[j]
    BY ChainFacts DEF OpenEmpty, Open, Truncate, StreamFails, At, Rotating
  <1>2. Hole = {0}
    BY <1>1 DEF Hole
  <1>3. FullInv'
    BY <1>1, ChainFacts DEF FullInv, RetainedInv
  <1>4. CASE present' = present /\ maxSize < 0
    <2>1. Gaps' = Gaps + 1
      BY <1>1, <1>4, ChainFacts DEF Gaps, FilesInv, OpenEmpty, Open, StreamFails, TargetInv,
         At
    <2>2. \A k \in Int : Missing(k)' \subseteq Missing(k) \cup {0}
      BY <1>2, <1>4 DEF Missing
    <2> QED
      BY <1>3, <1>4, <2>1, <2>2, ChainFacts, MissingMore DEF RetainedInv
  <1>5. CASE ~(present' = present /\ maxSize < 0)
    <2>1. Gaps <= Gaps'
      BY <1>1, <1>5, ChainFacts DEF Gaps
    <2>2. \A k \in Int : Missing(k)' \subseteq Missing(k)
      BY <1>1, <1>2, <1>5, ChainFacts DEF Missing, Hole
    <2>3. ASSUME NEW k \in present'
          PROVE  Cardinality(Missing(k))' <= Gaps'
      <3>1. CASE k \in present
        BY <2>1, <2>2, <3>1, ChainFacts, MissingLess DEF RetainedInv
      <3>2. CASE k = 0
        <4>1. Missing(0) = {}
          BY <1>2 DEF Missing
        <4>2. Cardinality(Missing(0)) <= Gaps
          BY <4>1, FS_EmptySet, MissingFacts
        <4> QED
          BY <2>1, <2>2, <3>2, <4>2, MissingLess
      <3> QED
        BY <1>1, <2>3, <3>1, <3>2
    <2>4. Dropped' # {} => Cardinality(Missing(Retention))' <= Gaps'
      BY <2>1, <2>2, ChainFacts, MissingLess DEF RetainedInv
    <2> QED
      BY <1>3, <2>3, <2>4 DEF RetainedInv
  <1> QED
    BY <1>4, <1>5

(* A rotation that ends early leaves one gap. *)
LEMMA RetainedEnd ==
  ASSUME FilesInv, FilesInv', RetainedInv, Dropped' \subseteq Dropped, EndLog
  PROVE  RetainedInv'
PROOF
  <1>1. UNCHANGED <<maxSize, size, present, failures>> /\ ~Rotating'
    BY DEF EndLog, files, Rotating
  <1>2. CASE Rotating
    <2>1. Gaps' = Gaps + 1
      BY <1>1, <1>2, ChainFacts DEF EndLog, Rotating, Gaps
    <2>2. \A k \in Int : Missing(k)' \subseteq Missing(k) \cup {i}
      BY <1>1, <1>2 DEF Missing, Hole
    <2>3. FullInv'
      BY <1>1 DEF FullInv, RetainedInv
    <2> QED
      BY <1>1, <2>1, <2>2, <2>3, ChainFacts, MissingMore DEF RetainedInv
  <1>3. CASE ~Rotating
    <2>1. interrupted' = interrupted /\ failures' >= failures
      BY <1>1, <1>3, ChainFacts DEF EndLog, Rotating
    <2> QED
      BY <1>1, <1>3, <2>1, RetainedOutside
  <1> QED
    BY <1>2, <1>3

(* Every step keeps what is retained. *)
LEMMA RetainedNext ==
  ASSUME FilesInv, FilesInv', RetainedInv, [LogNext]_logVars
  PROVE  RetainedInv'
PROOF
  <1>1. CASE RemoveOldest
    BY <1>1, RetainedRemove
  <1>2. CASE ~RemoveOldest
    <2>1. Dropped' \subseteq Dropped
      BY <1>2, DroppedStays
    <2>2. CASE PutLine
      <3>1. \A j \in Files : j >= 1 => size'[j] = size[j]
        BY <2>2, PutLineSize
      <3>2. /\ ~Rotating /\ ~Rotating' /\ interrupted' = interrupted
            /\ maxSize' = maxSize /\ present' = present
        BY <2>2, Zenon DEF PutLine, At, Rotating
      <3>3. failures' >= failures
        BY <2>2, ChainFacts DEF PutLine, StreamFails
      <3> QED
        BY <2>1, <3>1, <3>2, <3>3, RetainedOutside
    <2>3. CASE OpenStreams \/ RestartLog
      <3>1. UNCHANGED <<maxSize, size>>
        BY <2>3 DEF OpenStreams, RestartLog
      <3>2. present \subseteq present' /\ present' \subseteq present \cup {0}
        BY <2>3 DEF OpenStreams, RestartLog, Open
      <3>3. ~Rotating /\ ~Rotating' /\ interrupted' = interrupted
        BY <2>3 DEF OpenStreams, RestartLog, At, Rotating
      <3>4. failures' >= failures
        BY <2>3, ChainFacts DEF OpenStreams, RestartLog, Open, StreamFails
      <3> QED
        BY <2>1, <3>1, <3>2, <3>3, <3>4, RetainedOutside
    <2>4. CASE UNCHANGED logVars
      <3>1. UNCHANGED <<maxSize, file, size, present, logpc, i, written, lost, interrupted,
                        failures>>
        BY <2>4, Zenon DEF logVars, files, faults
      <3> QED
        BY <3>1, Zenon DEF RetainedInv, FullInv, Missing, Hole, Gaps, Rotating, Dropped, Kept,
           Writing
    <2> QED
      BY <1>2, <2>1, <2>2, <2>3, <2>4, RetainedCall, RetainedSkip, RetainedRename, RetainedOpen,
         RetainedEnd DEF LogNext, WriteStep
  <1> QED
    BY <1>1, <1>2

(* Nothing has been written yet. *)
LEMMA LogInitAll ==
  ASSUME LogInit
  PROVE  LogInv
PROOF
  <1>1. FilesInv /\ Kept = {}
    BY LogInitInv
  <1>2. /\ Dropped = {} /\ ~Rotating /\ present = {0} /\ interrupted = 0 /\ failures = 0
    BY <1>1, DroppedLines DEF LogInit, Rotating
  <1>3. Missing(0) = {} /\ Gaps \in Nat
    BY <1>2 DEF Missing, Gaps
  <1>4. Cardinality(Missing(0)) <= Gaps
    BY <1>3, FS_EmptySet
  <1>5. OldestInv /\ RetainedInv
    BY <1>2, <1>4 DEF OldestInv, RetainedInv, FullInv
  <1> QED
    BY <1>1, <1>5 DEF LogInv

(* Through failures, crashes and restarts the files are in order and none  *)
(* exceeds log_max_size by a whole line, no rename replaces lines, and     *)
(* what rotations have given up is older than all that is left, which is   *)
(* log_retention full files but for the gaps.                              *)
THEOREM LogInvariance ==
  LogSpec => []LogInv
PROOF
  <1>1. LogInit => LogInv
    BY LogInitAll
  <1>2. LogInv /\ [LogNext]_logVars => LogInv'
    BY LogNextInv, OldestNext, RetainedNext DEF LogInv
  <1> QED
    BY <1>1, <1>2, PTL DEF LogSpec

(* What has been given up is older than log_retention full files, less one *)
(* for each gap.                                                           *)
LEMMA RetainedLines ==
  ASSUME LogInv, NEW n \in Dropped
  PROVE  Cardinality(FullFilesAfter(n)) >= Retention - Gaps
PROOF
  <1> DEFINE Full == FullFilesAfter(n)
  <1> USE DEF LogInv
  <1>0. FullInv
    BY DEF RetainedInv
  <1>1. \A j \in present : \A m \in file[j] : m > n
    <2>1. n \in Nat
      BY DroppedLines
    <2>2. \A j \in present : \A m \in file[j] : m \in Nat /\ n < m
      BY ChainFacts DEF OldestInv, Kept, FilesInv, LogTypeOK
    <2> QED
      BY <2>1, <2>2
  <1>2. IsFiniteSet(Full) /\ Cardinality(Full) \in Nat
    <2>1. \A j \in Files : j \in 0 .. Retention \/ j = 0
      BY RotationAssumption DEF Files
    <2>2. Full \subseteq (0 .. Retention) \cup {0}
      BY <2>1, ChainFacts DEF FullFilesAfter
    <2>3. IsFiniteSet((0 .. Retention) \cup {0})
      BY FS_Interval, FS_AddElement, ChainFacts
    <2> QED
      BY <2>2, <2>3, SmallerSet
  <1>3. CASE Retention > 0
    <2>1. Cardinality(Missing(Retention)) <= Gaps /\ IsFiniteSet(Missing(Retention))
          /\ Cardinality(Missing(Retention)) \in Nat /\ Gaps \in Nat
      BY ChainFacts, MissingFacts DEF RetainedInv
    <2>2. PICK x : Hole \subseteq {x}
      BY DEF Hole
    <2>3. 0 .. Retention \subseteq (Missing(Retention) \cup Full) \cup {x}
      <3> SUFFICES ASSUME NEW j \in 0 .. Retention, j \notin Hole, j \in present
                   PROVE  j \in Full
        BY <2>2 DEF Missing
      <3>1. size[j] >= maxSize
        BY <1>0, ChainFacts DEF FullInv, Hole
      <3> QED
        BY <1>1, <3>1 DEF FullFilesAfter
    <2>4. /\ IsFiniteSet(Missing(Retention) \cup Full)
          /\ Cardinality(Missing(Retention) \cup Full) <=
               Cardinality(Missing(Retention)) + Cardinality(Full)
          /\ Cardinality(Missing(Retention) \cup Full) \in Nat
      <3>1. Cardinality(Missing(Retention) \cap Full) \in Nat
        BY <2>1, SmallerSet
      <3>2. /\ IsFiniteSet(Missing(Retention) \cup Full)
            /\ Cardinality(Missing(Retention) \cup Full) =
                 Cardinality(Missing(Retention)) + Cardinality(Full)
                 - Cardinality(Missing(Retention) \cap Full)
        BY <1>2, <2>1, FS_Union
      <3>3. Cardinality(Missing(Retention) \cup Full) \in Nat
        BY <3>2, FS_CardinalityType
      <3>4. \A a, b, c \in Nat : a + b - c <= a + b
        OBVIOUS
      <3>5. Cardinality(Full) \in Nat
        BY <1>2
      <3> HIDE DEF Full
      <3> QED
        BY <2>1, <3>1, <3>2, <3>3, <3>4, <3>5
    <2>5. Cardinality(0 .. Retention) <= Cardinality(Missing(Retention) \cup Full) + 1
      BY <2>3, <2>4, OneMore
    <2>6. Cardinality(0 .. Retention) = Retention + 1
      BY <1>3, ChainFacts, FS_Interval
    <2> QED
      BY <1>2, <2>1, <2>4, <2>5, <2>6, ChainFacts
  <1>4. CASE ~(Retention > 0)
    BY <1>2, <1>4, ChainFacts, MissingFacts
  <1> QED
    BY <1>3, <1>4

(* The rotated files are an append-only log that gives up its oldest lines *)
(* only, whatever fails and whenever the process ends.                     *)
THEOREM FilesAreALog ==
  LogSpec => ImplementsAppendLog
PROOF
  <1>1. LogInit => Abstract!Init
    BY LogInitInv DEF LogInit, Abstract!Init
  <1>2. LogInv /\ [LogNext]_logVars => [Abstract!Next]_(Abstract!vars)
    BY LogStepRefines DEF LogInv
  <1> QED
    BY <1>1, <1>2, LogInvariance, PTL DEF LogSpec, ImplementsAppendLog, Abstract!Spec
=============================================================================
