----------------------------- MODULE MCPollLoop -----------------------------
(* PollLoop for TLC: two database classes, that the versions of the        *)
(* configuration file ask for in turn or not at all, and the symmetry of   *)
(* the servers, which only runs without liveness use.                      *)
EXTENDS PollLoop, TLC

Alternating == [v \in Versions |-> IF v % 2 = 0 THEN "mysql" ELSE "sqlite"]

AlwaysMySQL == [v \in Versions |-> "mysql"]

ServerSymmetry == Permutations(Servers)
=============================================================================
