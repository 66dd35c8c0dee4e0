--------------------------- MODULE StatsCollector ---------------------------
(***************************************************************************)
(* What the polling half of scastd promises, without threads, locks or     *)
(* database handles.                                                       *)
(*                                                                         *)
(* The daemon works in cycles.  A cycle starts with the set of servers the *)
(* database says are to be gathered, ends when every one of them has been  *)
(* reported, and reports none of them twice.  The database settings change *)
(* only between cycles, and the daemon stops only between cycles.          *)
(*                                                                         *)
(* PollLoop, the model of the code, implements this specification.         *)
(***************************************************************************)
EXTENDS Integers

CONSTANTS
  Servers,      (* the servers the database may list                       *)
  Versions      (* the versions of the database settings                   *)

VARIABLES
  phase,        (* "idle", "collecting" or "stopped"                       *)
  todo,         (* servers of this cycle that have not been reported       *)
  settings      (* version of the settings the daemon records under        *)

vars == <<phase, todo, settings>>

Init ==
  /\ phase = "idle"
  /\ todo = {}
  /\ settings \in Versions

(* A cycle starts with the servers to be gathered, possibly none. *)
Begin ==
  /\ phase = "idle"
  /\ phase' = "collecting"
  /\ todo' \in SUBSET Servers
  /\ UNCHANGED settings

(* One server of the cycle is reported, as polled or as failed. *)
Report(s) ==
  /\ phase = "collecting"
  /\ s \in todo
  /\ todo' = todo \ {s}
  /\ UNCHANGED <<phase, settings>>

End ==
  /\ phase = "collecting"
  /\ todo = {}
  /\ phase' = "idle"
  /\ UNCHANGED <<todo, settings>>

(* New settings are never older than the ones they replace. *)
Reconfigure ==
  /\ phase = "idle"
  /\ settings' \in {v \in Versions : v >= settings}
  /\ UNCHANGED <<phase, todo>>

Stop ==
  /\ phase = "idle"
  /\ phase' = "stopped"
  /\ UNCHANGED <<todo, settings>>

Next ==
  \/ Begin
  \/ \E s \in Servers : Report(s)
  \/ End
  \/ Reconfigure
  \/ Stop

Spec == Init /\ [][Next]_vars

(* A cycle that was begun is carried to its end. *)
FairSpec == Spec /\ WF_vars((\E s \in Servers : Report(s)) \/ End)
=============================================================================
