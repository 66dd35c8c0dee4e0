--------------------------- MODULE MCHttpServer ---------------------------
(* Instances of HttpServer for TLC. *)
EXTENDS HttpServer

CONSTANTS t1, t2

(* A line of two bytes fills a file of two, exceeds one of one, and a      *)
(* negative size rotates at each write. The default of 0 does not rotate.  *)
MCMaxSizes == {2, 1, -1}

MCThreads == {t1, t2}

Get(user, page) == [get |-> TRUE, user |-> user, page |-> page]

(* A request that is answered and not logged, and one that is logged: a    *)
(* refused user. A refused method, and a page that is found or not, take   *)
(* the same steps.                                                         *)
MCInputs == {Get(TRUE, "uptime"), Get(FALSE, "uptime")}
=============================================================================
