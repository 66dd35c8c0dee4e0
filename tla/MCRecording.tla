---------------------------- MODULE MCRecording ----------------------------
(* Recording with the bodies a server may really answer. A server that     *)
(* knows the first URL answers it; one that does not answers markup,       *)
(* nothing or text, and then the second URL.                               *)
EXTENDS Recording, TLC

AllBodies == Bodies

(* An unloaded page, a redirect without a body, an HTML page or the login  *)
(* page: the first answers of servers that know only the second URL.       *)
NotFound == {"empty", "text", "html"}
StatsOnly == {"stats"}

ServerSymmetry == Permutations(Servers) \cup Permutations(Titles)
=============================================================================
