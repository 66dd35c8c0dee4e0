----------------------------- MODULE AppendLog -----------------------------
(***************************************************************************)
(* What a log promises to those who write to it (Logger::write of          *)
(* src/src/logger.cpp, StatusLogger::log of src/src/StatusLogger.cpp): the *)
(* lines are kept in the order in which they were given, each at most      *)
(* once, and what is given up is the oldest of what is kept.  A line is    *)
(* its number; the last one given is being written until it is kept or     *)
(* lost.                                                                   *)
(***************************************************************************)
EXTENDS Integers

VARIABLES
  given,        (* the number of lines given to the log                     *)
  kept,         (* the lines that can be read                               *)
  lost          (* the lines that could not be written                      *)

vars == <<given, kept, lost>>

Init == given = 0 /\ kept = {} /\ lost = {}

InFlight == given > 0 /\ given \notin kept \cup lost

Give ==
  /\ ~InFlight
  /\ given' = given + 1
  /\ UNCHANGED <<kept, lost>>

Keep ==
  /\ InFlight
  /\ kept' = kept \cup {given}
  /\ UNCHANGED <<given, lost>>

Lose ==
  /\ InFlight
  /\ lost' = lost \cup {given}
  /\ UNCHANGED <<given, kept>>

DropOldest ==
  /\ kept' \in SUBSET kept
  /\ \A a \in kept \ kept', b \in kept' : a < b
  /\ UNCHANGED <<given, lost>>

Next == Give \/ Keep \/ Lose \/ DropOldest

Spec == Init /\ [][Next]_vars
=============================================================================
