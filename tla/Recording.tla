----------------------------- MODULE Recording -----------------------------
(***************************************************************************)
(* What a poll puts into the database (processServer, src/src/scastd.cpp,  *)
(* with CurlClient::fetchUrl and the classes of src/src/db).               *)
(*                                                                         *)
(* PollLoop has the threads and the lock.  Since the recording part of     *)
(* processServer holds dbMutex from its first statement to its last, the   *)
(* workers' effects on the tables are those of one worker after another:   *)
(* here the servers of a cycle are polled in turn.                         *)
(*                                                                         *)
(* A body is a member of Bodies and a response the sequence of the bodies  *)
(* that were appended to it.  The tables hold what the two INSERTs give    *)
(* them: a title per song row, and one figure row per poll.  Both name     *)
(* NULL as the time, which overrides the column's default, so that all the *)
(* rows of a server are equal to "order by time desc".                     *)
(***************************************************************************)
EXTENDS Integers, Sequences, SequencesExt

CONSTANTS
  Servers,      (* scastd_memberinfo rows with gather_flag 1                *)
  Titles,       (* what the servers may be playing                          *)
  Backend,      (* "mysql" (or mariadb), "postgres" or "sqlite"             *)
  LinkMayFail,  (* may the connection to the database be lost?              *)
  StatementsMayFail, (* may the database refuse a statement?                *)
  V1Bodies,     (* the bodies a server may answer to the first URL          *)
  V2Bodies,     (* ... and to the second                                    *)
  MaxPolls      (* bound on the polls of a behaviour                        *)

(* "text" has no markup, "html" is markup but no XML document, "login" is  *)
(* the page titled SHOUTcast Administrator, "cut" the part of a document   *)
(* that arrived before the transfer failed; "stats" and "other" are XML    *)
(* documents with and without CURRENTLISTENERS, and "untitled" is a        *)
(* "stats" whose SONGTITLE element is empty.                               *)
Bodies == {"empty", "text", "html", "login", "cut", "stats", "other", "untitled"}

ASSUME RecordingAssumption ==
  /\ "none" \notin Servers
  /\ "no title" \notin Titles
  /\ Backend \in {"mysql", "postgres", "sqlite"}
  /\ {LinkMayFail, StatementsMayFail} \subseteq BOOLEAN
  /\ V1Bodies \cup V2Bodies \subseteq Bodies
  /\ MaxPolls \in Nat

VARIABLES
  pc,           (* the statement that is executed next                      *)
  polls,        (* polls so far                                             *)
  todo,         (* servers of this cycle still to be polled                 *)
  cur,          (* the server being polled                                  *)
  onAir,        (* the title each server plays                              *)
  response,     (* the bodies appended to response                          *)
  complete,     (* history: the last body was "stats" and came in full      *)
  title,        (* sData.songTitle; "no title" when the document has no SONGTITLE   *)
  connected,    (* is db connected?                                         *)
  stmt,         (* the statement or result the database object holds        *)
  songs,        (* scastd_songinfo: each server's titles, as inserted       *)
  figures,      (* scastd_serverinfo: the number of rows of each server     *)
  status,       (* the last entry of the status log for each server         *)
  before,       (* history: songs[cur] and figures[cur] when the poll began *)
  failed        (* history: the statements of this poll for which query()   *)
                (* returned false                                           *)

polling == <<todo, cur, response, complete, title>>
database == <<connected, stmt, songs, figures>>
past == <<before, failed>>
vars == <<pc, polls, polling, onAir, database, status, past>>

Ops == {"select", "song", "info"}
Stmts == [op : Ops \cup {"none"},
          server : Servers \cup {"none"}, title : Titles \cup {"no title"}]
NoStmt == [op |-> "none", server |-> "none", title |-> "no title"]
States == {"list", "next", "v1", "v2", "judge", "select", "row", "song",
           "info", "log", "crashed"}

Init ==
  /\ pc = "list"
  /\ polls = 0
  /\ todo = {} /\ cur = "none"
  /\ onAir \in [Servers -> Titles]
  /\ response = <<>> /\ complete = FALSE /\ title = "no title"
  /\ connected = TRUE /\ stmt = NoStmt
  /\ songs = [s \in Servers |-> <<>>]
  /\ figures = [s \in Servers |-> 0]
  /\ status = [s \in Servers |-> "none"]
  /\ before = [songs |-> <<>>, figures |-> 0]
  /\ failed = {}

----------------------------------------------------------------------------
(* The world.                                                              *)

ChangeTitle(s) ==
  /\ onAir' \in {[onAir EXCEPT ![s] = t] : t \in Titles \ {onAir[s]}}
  /\ UNCHANGED <<pc, polls, polling, database, status, past>>

(* The connection is lost; it stays lost until a SIGHUP. *)
LoseLink ==
  /\ LinkMayFail
  /\ connected
  /\ connected' = FALSE
  /\ UNCHANGED <<pc, polls, polling, onAir, stmt, songs, figures, status, past>>

Reconnect ==
  /\ pc = "list"
  /\ ~connected
  /\ connected' = TRUE
  /\ stmt' = NoStmt
  /\ UNCHANGED <<pc, polls, polling, onAir, songs, figures, status, past>>

----------------------------------------------------------------------------
(* The database classes.                                                   *)

(* The effect of an executed statement on the tables. *)
Execute(q) ==
  /\ songs' = IF q.op = "song" THEN [songs EXCEPT ![q.server] = Append(@, q.title)]
              ELSE songs
  /\ figures' = IF q.op = "info" THEN [figures EXCEPT ![q.server] = @ + 1]
                ELSE figures

(* MySQL and Postgres execute a statement and keep its result.  SQLite's   *)
(* query() drops the statement it holds, prepares a single new one and     *)
(* leaves it to fetch() to execute it.                                     *)
Succeed(q) ==
  /\ connected
  /\ stmt' = q
  /\ IF Backend = "sqlite" THEN UNCHANGED <<songs, figures>> ELSE Execute(q)
  /\ UNCHANGED <<connected, failed>>

(* query() returns false: there is no connection, the database refuses the *)
(* statement (a title with an apostrophe ends its literal), or the         *)
(* connection is lost when the statement has been executed and before its  *)
(* answer is here.  No caller looks at what query() returns.               *)
Refuse(q) ==
  /\ \/ /\ ~connected \/ StatementsMayFail
        /\ UNCHANGED <<connected, songs, figures>>
     \/ /\ connected /\ LinkMayFail /\ Backend # "sqlite"
        /\ connected' = FALSE
        /\ Execute(q)
  /\ stmt' = NoStmt
  /\ failed' = failed \cup {q.op}

Query(q) == Succeed(q) \/ Refuse(q)

(* The titles fetch() may return for the SELECT of a server: "limit 1"     *)
(* takes any row, because the times they are ordered by are all NULL.      *)
FirstRows == IF stmt.op = "select" THEN ToSet(songs[stmt.server]) ELSE {}

(* gather_flag is TEXT in postgres.sql, and PostgreSQL has no comparison   *)
(* of a TEXT with the number 1; the other databases convert one of them.   *)
Listed == IF Backend = "postgres" THEN {} ELSE Servers

----------------------------------------------------------------------------
(* One cycle.                                                              *)

(* The list is read through db2, a connection of its own: when that one is *)
(* down the list is empty, whatever db is.                                 *)
ListServers ==
  /\ pc = "list"
  /\ \/ todo' = Listed
     \/ LinkMayFail /\ todo' = {}
  /\ pc' = "next"
  /\ UNCHANGED <<polls, cur, onAir, response, complete, title, database, status, past>>

EndCycle ==
  /\ pc = "next"
  /\ todo = {}
  /\ pc' = "list"
  /\ cur' = "none"
  /\ UNCHANGED <<polls, todo, onAir, response, complete, title, database, status, past>>

StartPoll_Bug(s) == \* response outlives the poll
  /\ pc = "next"
  /\ s \in todo
  /\ polls < MaxPolls
  /\ polls' = polls + 1
  /\ todo' = todo \ {s}
  /\ cur' = s
  /\ complete' = FALSE /\ title' = "no title"
  /\ before' = [songs |-> songs[s], figures |-> figures[s]]
  /\ failed' = {}
  /\ pc' = "v1"
  /\ UNCHANGED <<onAir, response, database, status>>

StartPoll(s) ==
  /\ pc = "next"
  /\ s \in todo
  /\ polls < MaxPolls
  /\ polls' = polls + 1
  /\ todo' = todo \ {s}
  /\ cur' = s
  /\ response' = <<>> /\ complete' = FALSE /\ title' = "no title"
  /\ before' = [songs |-> songs[s], figures |-> figures[s]]
  /\ failed' = {}
  /\ pc' = "v1"
  /\ UNCHANGED <<onAir, database, status>>

Marked(r) == ToSet(r) \cap {"stats", "untitled"} # {}

(* WriteCallback appends: what an earlier fetch left stays in response. *)
Fetch(body) ==
  /\ response' = Append(response, body)
  /\ complete' = (body = "stats")
  /\ title' = onAir[cur]

Fail ==
  /\ pc' = "next"
  /\ status' = [status EXCEPT ![cur] = "error"]

FetchV1_Bug == \* the second URL is tried only when the first fetch failed
  /\ pc = "v1"
  /\ \/ \E b \in V1Bodies : Fetch(b) /\ pc' = "judge"
     \/ \E b \in {"empty", "cut"} : Fetch(b) /\ pc' = "v2"
  /\ UNCHANGED <<polls, todo, cur, onAir, database, status, past>>

FetchV1 ==
  /\ pc = "v1"
  /\ \/ \E b \in V1Bodies :
          Fetch(b) /\ pc' = IF Marked(response') THEN "judge" ELSE "v2"
     \/ \E b \in {"empty", "cut"} : Fetch(b) /\ pc' = "v2"
  /\ UNCHANGED <<polls, todo, cur, onAir, database, status, past>>

FetchV2 ==
  /\ pc = "v2"
  /\ \/ /\ \E b \in V2Bodies : Fetch(b)
        /\ pc' = "judge"
        /\ UNCHANGED status
     \/ /\ \E b \in {"empty", "cut"} : Fetch(b)
        /\ Fail
  /\ UNCHANGED <<polls, todo, cur, onAir, database, past>>

(* What xmlParseMemory is given starts at the first '<' of the response:   *)
(* it is the document d only if nothing but an empty body follows that.    *)
IsDocument(r, d) ==
  \E i \in 1 .. Len(r) :
    /\ r[i] = d
    /\ \A j \in 1 .. i - 1 : r[j] \in {"empty", "text"}
    /\ \A j \in i + 1 .. Len(r) : r[j] = "empty"

Parsed(r) == \E d \in {"stats", "other", "untitled"} : IsDocument(r, d)

(* A bad password, a bad parse, or the fields of the document: an element  *)
(* without text hands a null pointer to strcpy, which ends the process.    *)
Judge ==
  /\ pc = "judge"
  /\ \/ /\ "login" \in ToSet(response) \/ ~Parsed(response)
        /\ Fail
        /\ UNCHANGED title
     \/ /\ "login" \notin ToSet(response) /\ Parsed(response)
        /\ pc' = IF IsDocument(response, "untitled") THEN "crashed" ELSE "select"
        /\ title' = IF IsDocument(response, "stats") THEN title ELSE "no title"
        /\ UNCHANGED status
  /\ UNCHANGED <<polls, todo, cur, onAir, response, complete, database, past>>

SelectSong ==
  /\ pc = "select"
  /\ Query([op |-> "select", server |-> cur, title |-> "no title"])
  /\ pc' = "row"
  /\ UNCHANGED <<polls, polling, onAir, status, before>>

CompareSong_Bug == \* the SELECT has no condition on the server
  /\ pc = "row"
  /\ LET rows == UNION {ToSet(songs[s]) : s \in Servers}
     IN  \/ title \in rows /\ pc' = "info"
         \/ rows # {title} /\ pc' = "song"
  /\ UNCHANGED <<polls, polling, onAir, database, status, past>>

CompareSong ==
  /\ pc = "row"
  /\ \/ title \in FirstRows /\ pc' = "info"
     \/ FirstRows # {title} /\ pc' = "song"
  /\ UNCHANGED <<polls, polling, onAir, database, status, past>>

InsertSong ==
  /\ pc = "song"
  /\ Query([op |-> "song", server |-> cur, title |-> title])
  /\ pc' = "info"
  /\ UNCHANGED <<polls, polling, onAir, status, before>>

InsertInfo_Bug == \* both inserts depend on insert_flag
  /\ pc = "info"
  /\ IF stmt.op = "song" THEN Query([op |-> "info", server |-> cur, title |-> title])
     ELSE UNCHANGED <<database, failed>>
  /\ pc' = "log"
  /\ UNCHANGED <<polls, polling, onAir, status, before>>

InsertInfo ==
  /\ pc = "info"
  /\ Query([op |-> "info", server |-> cur, title |-> title])
  /\ pc' = "log"
  /\ UNCHANGED <<polls, polling, onAir, status, before>>

LogOk_Bug == \* the entry tells the outcome of the last statement only
  /\ pc = "log"
  /\ status' = [status EXCEPT ![cur] = IF stmt = NoStmt THEN "error" ELSE "ok"]
  /\ pc' = "next"
  /\ UNCHANGED <<polls, polling, onAir, database, past>>

LogOk ==
  /\ pc = "log"
  /\ status' = [status EXCEPT ![cur] = "ok"]
  /\ pc' = "next"
  /\ UNCHANGED <<polls, polling, onAir, database, past>>

Next ==
  \/ \E s \in Servers : ChangeTitle(s) \/ StartPoll(s)
  \/ LoseLink \/ Reconnect
  \/ ListServers \/ EndCycle
  \/ FetchV1 \/ FetchV2 \/ Judge
  \/ SelectSong \/ CompareSong \/ InsertSong \/ InsertInfo \/ LogOk

Spec == Init /\ [][Next]_vars

----------------------------------------------------------------------------
(* Properties.                                                             *)

Rows == Seq(Titles \cup {"no title"})

(* Every variable has its type; in particular a poll appends at most two   *)
(* bodies to its response.                                                 *)
TypeOK ==
  /\ pc \in States
  /\ polls \in 0 .. MaxPolls
  /\ todo \in SUBSET Servers
  /\ cur \in Servers \cup {"none"}
  /\ onAir \in [Servers -> Titles]
  /\ response \in Seq(Bodies) /\ Len(response) <= 2
  /\ complete \in BOOLEAN
  /\ title \in Titles \cup {"no title"}
  /\ connected \in BOOLEAN
  /\ stmt \in Stmts
  /\ songs \in [Servers -> Rows]
  /\ figures \in [Servers -> Nat]
  /\ status \in [Servers -> {"none", "ok", "error"}]
  /\ before \in [songs : Rows, figures : Nat]
  /\ failed \in SUBSET Ops

AfterPoll == pc = "next" /\ cur \in Servers

(* README.md lists four database backends and docs/Logging.md says the     *)
(* result of an entry is its outcome: a poll whose entry says ok has its   *)
(* figures in the database, one row more than before it.                   *)
OkMeansRecorded ==
  AfterPoll /\ status[cur] = "ok" => figures[cur] = before.figures + 1

(* What the statements of a poll leave behind, any of which may fail: the  *)
(* song is recorded at most once and the figures at most once, a title     *)
(* whose insert was skipped or did not fail is a row of its server, and    *)
(* figures whose insert did not fail are there.                            *)
Recorded ==
  /\ songs[cur] \in {before.songs, Append(before.songs, title)}
  /\ "song" \notin failed => title \in ToSet(songs[cur])
  /\ figures[cur] \in {before.figures, before.figures + 1}
  /\ "info" \notin failed => figures[cur] = before.figures + 1

(* With a backend that executes what query() is given, a poll whose entry  *)
(* says ok has recorded its answer save for the statements that failed: a  *)
(* failed SELECT costs neither insert, a failed insert not the other one.  *)
OkRecordedUnlessFailed ==
  AfterPoll /\ status[cur] = "ok" /\ Backend # "sqlite" => Recorded

(* A poll whose entry says error has recorded nothing of its answer, and   *)
(* the database is as it was when the poll began.                          *)
ErrorRecordsNothing ==
  AfterPoll /\ status[cur] = "error" => before = [songs |-> songs[cur], figures |-> figures[cur]]

(* The second URL makes up for a first body without markup: it is tried,   *)
(* the complete answer it brings is not taken for an error, and with a     *)
(* backend that executes statements it is recorded, save for the           *)
(* statements that failed.                                                 *)
FallbackWorksOnBareV1 ==
  AfterPoll /\ response[1] \in {"empty", "text"} =>
    /\ Len(response) = 2
    /\ response[2] = "stats" =>
         /\ status[cur] = "ok"
         /\ Backend # "sqlite" => Recorded

(* CurlClient.h: fetchUrl "stores the response body in `response`": a poll *)
(* whose last fetch brought the complete document is not an error.         *)
CompleteAnswerIsUsed ==
  AfterPoll /\ complete => status[cur] = "ok"

(* README.md lists PostgreSQL among the backends: while no connection      *)
(* fails, a cycle polls the servers whose gather_flag is set.              *)
FlaggedServersListed ==
  [][pc = "list" /\ pc' = "next" /\ ~LinkMayFail => todo' = Servers]_vars

----------------------------------------------------------------------------
(* The invariant the proofs of RecordingProofs use.                        *)

Unrecorded == before = [songs |-> songs[cur], figures |-> figures[cur]]

(* A server is being polled exactly from StartPoll to the end of the       *)
(* cycle, and the bodies appended so far are those of the fetches done.    *)
PollInv ==
  /\ pc = "list" => cur = "none"
  /\ pc \notin {"list", "next"} => cur \in Servers
  /\ pc = "v1" => Len(response) = 0
  /\ pc = "v2" => Len(response) = 1

(* How far the poll has come with the tables: nothing is recorded before   *)
(* the song's insert, the figures are not before theirs, and the result    *)
(* the comparison reads is that of this server's SELECT.                   *)
TablesInv ==
  /\ pc \in {"v1", "v2", "judge", "select", "row", "song"} => Unrecorded
  /\ pc = "row" /\ stmt.op = "select" => stmt.server = cur
  /\ pc = "info" =>
       /\ figures[cur] = before.figures
       /\ songs[cur] \in {before.songs, Append(before.songs, title)}
       /\ "song" \notin failed /\ Backend # "sqlite" => title \in ToSet(songs[cur])
  /\ pc = "log" /\ Backend # "sqlite" => Recorded

(* The inductive invariant: the progress of a poll and of its records,     *)
(* and what holds after it.                                                *)
Inv ==
  /\ TypeOK
  /\ PollInv
  /\ TablesInv
  /\ ErrorRecordsNothing
  /\ OkRecordedUnlessFailed
=============================================================================
