-------------------------- MODULE RecordingProofs --------------------------
(***************************************************************************)
(* Proofs that what the status log says of a poll agrees with the tables,  *)
(* for every set of servers and titles, every backend, every choice of     *)
(* answers and with a connection that may be lost at any moment.           *)
(***************************************************************************)
EXTENDS Recording, SequenceTheorems, TLAPS

(* Appending a row to a table adds its title to the table's titles. *)
LEMMA AppendRow ==
  ASSUME NEW S, NEW r \in Seq(S), NEW x \in S
  PROVE  /\ Append(r, x) \in Seq(S)
         /\ Len(Append(r, x)) = Len(r) + 1
         /\ x \in ToSet(Append(r, x))
<1>1. /\ Append(r, x) \in Seq(S)
      /\ Len(Append(r, x)) = Len(r) + 1
      /\ Append(r, x)[Len(r) + 1] = x
  OBVIOUS
<1>2. Len(r) + 1 \in DOMAIN Append(r, x)
  BY <1>1
<1> QED
  BY <1>1, <1>2 DEF ToSet

(* The bound on the polls is a number. *)
LEMMA MaxPollsType == MaxPolls \in Nat
BY RecordingAssumption

(* A fetch appends one body of the server's. *)
LEMMA FetchType ==
  ASSUME TypeOK, NEW b \in Bodies, cur \in Servers, Len(response) <= 1, Fetch(b)
  PROVE  /\ response' \in Seq(Bodies)
         /\ Len(response') = Len(response) + 1
         /\ Len(response') <= 2
         /\ complete' \in BOOLEAN
         /\ title' \in Titles \cup {"no title"}
<1>1. /\ response' \in Seq(Bodies)
      /\ Len(response') = Len(response) + 1
  BY AppendRow DEF TypeOK, Fetch
<1>2. Len(response) \in Nat
  <2>1. response \in Seq(Bodies)
    BY DEF TypeOK
  <2> QED
    BY <2>1
<1>3. complete' \in BOOLEAN /\ title' \in Titles \cup {"no title"}
  <2>1. onAir[cur] \in Titles
    BY DEF TypeOK
  <2> QED
    BY <2>1 DEF Fetch
<1>4. Len(response') <= 2
  BY <1>1, <1>2
<1> QED
  BY <1>1, <1>3, <1>4

(* A statement leaves tables of the right type, whatever the backend and   *)
(* whether it succeeds or not.                                             *)
LEMMA QueryType ==
  ASSUME TypeOK, NEW q \in Stmts, q.server \in Servers, q.op \in Ops, Query(q)
  PROVE  /\ stmt' \in Stmts
         /\ songs' \in [Servers -> Rows]
         /\ figures' \in [Servers -> Nat]
         /\ connected' \in BOOLEAN
         /\ failed' \in SUBSET Ops
<1>1. NoStmt \in Stmts
  BY DEF NoStmt, Stmts
<1>2. Append(songs[q.server], q.title) \in Rows
  BY AppendRow DEF TypeOK, Rows, Stmts
<1>3. figures[q.server] + 1 \in Nat
  <2>1. figures \in [Servers -> Nat]
    BY DEF TypeOK
  <2> QED
    BY <2>1
<1>4. CASE Succeed(q)
  BY <1>2, <1>3, <1>4 DEF TypeOK, Succeed, Execute
<1>5. CASE Refuse(q)
  BY <1>1, <1>2, <1>3, <1>5 DEF TypeOK, Refuse, Execute
<1> QED
  BY <1>4, <1>5 DEF Query

(* A statement succeeds, or it is among those that failed; either way it   *)
(* has been executed once or not at all.                                   *)
LEMMA QueryEffect ==
  ASSUME NEW q, Query(q)
  PROVE  /\ Execute(q) \/ UNCHANGED <<songs, figures>>
         /\ failed \subseteq failed'
         /\ failed' \subseteq failed \cup {q.op}
         /\ stmt' \in {NoStmt, q}
         /\ q.op \notin failed' /\ Backend # "sqlite" => Execute(q)
BY DEF Query, Succeed, Refuse

----------------------------------------------------------------------------
(* The invariant holds of the first state.                                 *)

(* The first state has no server polled and nothing recorded. *)
LEMMA InitInv == Init => Inv
<1> SUFFICES ASSUME Init PROVE Inv
  OBVIOUS
<1>1. TypeOK
  <2>1. stmt \in Stmts /\ pc \in States
    BY DEF Init, NoStmt, Stmts, States, Ops
  <2>2. response \in Seq(Bodies) /\ Len(response) <= 2
    <3>1. response = <<>>
      BY DEF Init
    <3> QED
      BY <3>1
  <2>3. polls \in 0 .. MaxPolls
    <3>1. polls = 0
      BY DEF Init
    <3> QED
      BY <3>1, MaxPollsType
  <2>4. songs \in [Servers -> Rows] /\ before \in [songs : Rows, figures : Nat]
    <3>1. /\ songs = [s \in Servers |-> <<>>]
          /\ before = [songs |-> <<>>, figures |-> 0]
      BY DEF Init
    <3> QED
      BY <3>1 DEF Rows
  <2>5. figures \in [Servers -> Nat] /\ status \in [Servers -> {"none", "ok", "error"}]
    BY DEF Init
  <2> QED
    <3>1. /\ todo \in SUBSET Servers
          /\ cur \in Servers \cup {"none"}
          /\ onAir \in [Servers -> Titles]
          /\ title \in Titles \cup {"no title"}
          /\ complete \in BOOLEAN
          /\ connected \in BOOLEAN
          /\ failed \in SUBSET Ops
      BY DEF Init
    <3> QED
      BY <2>1, <2>2, <2>3, <2>4, <2>5, <3>1 DEF TypeOK
<1>2. PollInv /\ TablesInv
  BY DEF Init, PollInv, TablesInv
<1>3. ~AfterPoll
  BY DEF Init, AfterPoll
<1> QED
  BY <1>1, <1>2, <1>3 DEF Inv, ErrorRecordsNothing, OkRecordedUnlessFailed

(* What Inv says of the state after a poll depends on these variables. *)
LEMMA AfterPollStep ==
  ASSUME Inv, pc' # "next" \/ cur' \notin Servers
  PROVE  (ErrorRecordsNothing /\ OkRecordedUnlessFailed)'
BY DEF AfterPoll, ErrorRecordsNothing, OkRecordedUnlessFailed

----------------------------------------------------------------------------
(* Every step preserves it.                                                *)

(* A server changes its song: the daemon knows nothing of it. *)
LEMMA ChangeTitleInv == ASSUME Inv, NEW s \in Servers, ChangeTitle(s) PROVE Inv'
<1>1. TypeOK'
  BY DEF Inv, TypeOK, ChangeTitle, polling, database, past, Rows
<1> QED
  BY <1>1 DEF Inv, PollInv, TablesInv, ErrorRecordsNothing, OkRecordedUnlessFailed,
      AfterPoll, Unrecorded, Recorded, past, ChangeTitle, polling, database

(* The connection is lost. *)
LEMMA LoseLinkInv == Inv /\ LoseLink => Inv'
<1> SUFFICES ASSUME Inv, LoseLink PROVE Inv'
  OBVIOUS
<1>1. TypeOK'
  BY DEF Inv, TypeOK, LoseLink, polling, past, Rows
<1> QED
  BY <1>1 DEF Inv, PollInv, TablesInv, ErrorRecordsNothing, OkRecordedUnlessFailed,
      AfterPoll, Unrecorded, Recorded, past, LoseLink, polling

(* A reload restores the connection while no server is being polled. *)
LEMMA ReconnectInv == Inv /\ Reconnect => Inv'
<1> SUFFICES ASSUME Inv, Reconnect PROVE Inv'
  OBVIOUS
<1>1. TypeOK'
  BY DEF Inv, TypeOK, Reconnect, polling, Rows, Stmts, NoStmt, Ops, past
<1>2. pc' = "list" /\ cur' = "none"
  BY DEF Inv, PollInv, Reconnect, polling
<1>3. PollInv' /\ TablesInv'
  BY <1>2 DEF PollInv, TablesInv
<1> QED
  BY <1>1, <1>2, <1>3, AfterPollStep DEF Inv

(* The list of a cycle, and the end of one. *)
LEMMA CycleInv == Inv /\ (ListServers \/ EndCycle) => Inv'
<1> SUFFICES ASSUME Inv, ListServers \/ EndCycle PROVE Inv'
  OBVIOUS
<1>1. TypeOK'
  BY DEF Inv, TypeOK, ListServers, EndCycle, Listed, States, database, past, Rows
<1>2. pc' \in {"list", "next"} /\ cur' = "none"
  BY DEF Inv, PollInv, ListServers, EndCycle
<1>3. PollInv' /\ TablesInv'
  BY <1>2 DEF PollInv, TablesInv
<1> QED
  BY <1>1, <1>2, <1>3, AfterPollStep, RecordingAssumption DEF Inv

(* A poll starts with an empty response and remembers the tables. *)
LEMMA StartPollInv == ASSUME Inv, NEW s \in Servers, StartPoll(s) PROVE Inv'
<1>1. TypeOK'
  <2>1. polls + 1 \in 0 .. MaxPolls
    <3>1. polls \in 0 .. MaxPolls /\ polls < MaxPolls
      BY DEF Inv, TypeOK, StartPoll
    <3> QED
      BY <3>1, MaxPollsType
  <2>2. <<>> \in Seq(Bodies) /\ Len(<<>>) <= 2
    OBVIOUS
  <2> QED
    <3>1. /\ response' \in Seq(Bodies) /\ Len(response') <= 2
          /\ polls' \in 0 .. MaxPolls
      BY <2>1, <2>2 DEF StartPoll
    <3>2. /\ pc' \in States
          /\ todo' \in SUBSET Servers
          /\ cur' \in Servers \cup {"none"}
          /\ complete' \in BOOLEAN
          /\ title' \in Titles \cup {"no title"}
      BY DEF Inv, TypeOK, StartPoll, States
    <3>3. before' \in [songs : Rows, figures : Nat]
      <4>1. songs[s] \in Rows /\ figures[s] \in Nat
        BY DEF Inv, TypeOK
      <4> QED
        BY <4>1 DEF StartPoll
    <3>4. /\ onAir' = onAir /\ connected' = connected /\ stmt' = stmt
          /\ songs' = songs /\ figures' = figures /\ status' = status
          /\ failed' = {}
      BY DEF StartPoll, database
    <3> QED
      BY <3>1, <3>2, <3>3, <3>4 DEF Inv, TypeOK, Rows
<1>2. PollInv' /\ TablesInv'
  BY DEF PollInv, TablesInv, Unrecorded, StartPoll, database
<1> QED
  BY <1>1, <1>2, AfterPollStep DEF Inv, StartPoll

(* The first fetch appends the first body, and the database is untouched. *)
LEMMA FetchV1Inv == Inv /\ FetchV1 => Inv'
<1> SUFFICES ASSUME Inv, FetchV1 PROVE Inv'
  OBVIOUS
<1>1. PICK b \in Bodies : Fetch(b) /\ pc' \in {"judge", "v2"}
  BY RecordingAssumption DEF FetchV1, Bodies
<1>2. cur \in Servers /\ Len(response) = 0 /\ Unrecorded
  BY DEF Inv, PollInv, TablesInv, FetchV1
<1>3. TypeOK' /\ Len(response') = 1
  <2>1. /\ response' \in Seq(Bodies) /\ Len(response') <= 2 /\ Len(response') = 1
        /\ complete' \in BOOLEAN
        /\ title' \in Titles \cup {"no title"}
    <3>1. Len(response) <= 1 /\ TypeOK /\ Fetch(b)
      BY <1>1, <1>2 DEF Inv
    <3>2. /\ response' \in Seq(Bodies) /\ Len(response') <= 2
          /\ Len(response') = Len(response) + 1
          /\ complete' \in BOOLEAN
          /\ title' \in Titles \cup {"no title"}
      BY <1>2, <3>1, FetchType
    <3>3. Len(response') = 1
      <4>1. Len(response) = 0 /\ Len(response') = Len(response) + 1
        BY <1>2, <3>2
      <4> QED
        BY ONLY <4>1
    <3> QED
      BY <3>2, <3>3
  <2>2. pc' \in States
    BY <1>1 DEF States
  <2>3. UNCHANGED <<polls, todo, cur, onAir, database, status, before, failed>>
    BY DEF FetchV1, past
  <2> QED
    BY <2>1, <2>2, <2>3 DEF Inv, TypeOK, database, Rows
<1>4. PollInv' /\ TablesInv'
  BY <1>1, <1>2, <1>3 DEF PollInv, TablesInv, Unrecorded, FetchV1, database, past
<1> QED
  BY <1>1, <1>3, <1>4, AfterPollStep DEF Inv

(* A poll that fails says so and leaves the tables as they were. *)
LEMMA FailInv ==
  ASSUME Inv, cur \in Servers, Unrecorded, Fail, TypeOK',
         UNCHANGED <<cur, database, before>>
  PROVE  Inv'
<1>1. pc' = "next" /\ status'[cur'] = "error" /\ Unrecorded'
  BY DEF Fail, Inv, TypeOK, Unrecorded, database
<1>2. PollInv' /\ TablesInv'
  BY <1>1 DEF PollInv, TablesInv
<1>3. ErrorRecordsNothing' /\ OkRecordedUnlessFailed'
  BY <1>1 DEF ErrorRecordsNothing, OkRecordedUnlessFailed, Unrecorded
<1> QED
  BY <1>2, <1>3 DEF Inv

(* The second fetch appends the second body; its failure ends the poll. *)
LEMMA FetchV2Inv == Inv /\ FetchV2 => Inv'
<1> SUFFICES ASSUME Inv, FetchV2 PROVE Inv'
  OBVIOUS
<1>1. PICK b \in Bodies : Fetch(b) /\ ((pc' = "judge" /\ UNCHANGED status) \/ Fail)
  BY RecordingAssumption DEF FetchV2, Bodies
<1>2. cur \in Servers /\ Len(response) = 1 /\ Unrecorded
  BY DEF Inv, PollInv, TablesInv, FetchV2
<1>3. TypeOK'
  <2>1. /\ response' \in Seq(Bodies) /\ Len(response') <= 2
        /\ complete' \in BOOLEAN
        /\ title' \in Titles \cup {"no title"}
    <3>1. Len(response) <= 1 /\ TypeOK /\ Fetch(b)
      BY <1>1, <1>2 DEF Inv
    <3> QED
      BY <1>2, <3>1, FetchType
  <2>2. pc' \in States /\ status' \in [Servers -> {"none", "ok", "error"}]
    BY <1>1 DEF Inv, TypeOK, Fail, States
  <2>3. UNCHANGED <<polls, todo, cur, onAir, database, before, failed>>
    BY DEF FetchV2, past
  <2> QED
    BY <2>1, <2>2, <2>3 DEF Inv, TypeOK, database, Rows
<1>4. CASE Fail
  BY <1>2, <1>3, <1>4, FailInv DEF FetchV2, past
<1>5. CASE pc' = "judge"
  <2>1. PollInv' /\ TablesInv'
    BY <1>2, <1>5 DEF PollInv, TablesInv, Unrecorded, FetchV2, database, past
  <2> QED
    BY <1>3, <1>5, <2>1, AfterPollStep DEF Inv
<1> QED
  BY <1>1, <1>4, <1>5

(* The answer is judged before the database is touched. *)
LEMMA JudgeInv == Inv /\ Judge => Inv'
<1> SUFFICES ASSUME Inv, Judge PROVE Inv'
  OBVIOUS
<1>1. cur \in Servers /\ Unrecorded
  BY DEF Inv, PollInv, TablesInv, Judge
<1>2. Fail \/ (pc' \in {"crashed", "select"} /\ UNCHANGED status)
  BY DEF Judge
<1>3. TypeOK'
  <2>1. title' \in Titles \cup {"no title"}
    BY DEF Inv, TypeOK, Judge
  <2> QED
    BY <1>2, <2>1 DEF Inv, TypeOK, Judge, Fail, States, database, past, Rows
<1>4. CASE Fail
  BY <1>1, <1>3, <1>4, FailInv DEF Judge, past
<1>5. CASE pc' \in {"crashed", "select"}
  <2>1. PollInv' /\ TablesInv'
    BY <1>1, <1>5 DEF PollInv, TablesInv, Unrecorded, Judge, database, past
  <2> QED
    BY <1>3, <1>5, <2>1, AfterPollStep DEF Inv
<1> QED
  BY <1>2, <1>4, <1>5

(* The SELECT leaves a result of this server, or none. *)
LEMMA SelectSongInv == Inv /\ SelectSong => Inv'
<1> SUFFICES ASSUME Inv, SelectSong PROVE Inv'
  OBVIOUS
<1> DEFINE q == [op |-> "select", server |-> cur, title |-> "no title"]
<1>1. cur \in Servers /\ Unrecorded
  BY DEF Inv, PollInv, TablesInv, SelectSong
<1>2. q \in Stmts /\ q.server \in Servers /\ q.op \in Ops
  BY <1>1 DEF Stmts, Ops
<1>3. TypeOK'
  BY <1>2, QueryType DEF Inv, TypeOK, SelectSong, States, polling
<1>4. UNCHANGED <<songs, figures>> /\ (stmt'.op = "select" => stmt'.server = cur)
  <2>1. Query(q)
    BY DEF SelectSong
  <2>2. stmt' \in {NoStmt, q} /\ (Execute(q) \/ UNCHANGED <<songs, figures>>)
    BY <2>1, QueryEffect
  <2>3. NoStmt.op # "select" /\ q.server = cur
    BY DEF NoStmt
  <2> QED
    BY <2>2, <2>3 DEF Execute
<1>5. PollInv' /\ TablesInv'
  BY <1>1, <1>4 DEF PollInv, TablesInv, Unrecorded, SelectSong, polling
<1> QED
  BY <1>3, <1>5, AfterPollStep DEF Inv, SelectSong

(* The insert is skipped only when the title is a row of the server. *)
LEMMA CompareSongInv == Inv /\ CompareSong => Inv'
<1> SUFFICES ASSUME Inv, CompareSong PROVE Inv'
  OBVIOUS
<1>1. cur \in Servers /\ Unrecorded /\ figures[cur] = before.figures
  BY DEF Inv, PollInv, TablesInv, CompareSong, Unrecorded
<1>2. /\ songs[cur] = before.songs
      /\ pc' = "info" => title \in ToSet(songs[cur])
  BY DEF Inv, TablesInv, CompareSong, FirstRows, Unrecorded
<1>3. pc' \in {"info", "song"}
  BY DEF CompareSong
<1>4. TypeOK'
  BY <1>3 DEF Inv, TypeOK, CompareSong, States, polling, database, past, Rows
<1>5. PollInv' /\ TablesInv'
  BY <1>1, <1>2, <1>3 DEF PollInv, TablesInv, Unrecorded, CompareSong, polling, database, past
<1> QED
  BY <1>3, <1>4, <1>5, AfterPollStep DEF Inv

(* The song's insert adds the title once or not at all. *)
LEMMA InsertSongInv == Inv /\ InsertSong => Inv'
<1> SUFFICES ASSUME Inv, InsertSong PROVE Inv'
  OBVIOUS
<1> DEFINE q == [op |-> "song", server |-> cur, title |-> title]
<1>1. cur \in Servers /\ figures[cur] = before.figures /\ songs[cur] = before.songs
  BY DEF Inv, PollInv, TablesInv, InsertSong, Unrecorded
<1>2. q \in Stmts /\ q.server \in Servers /\ q.op \in Ops /\ Query(q)
  BY <1>1 DEF Stmts, Ops, Inv, TypeOK, InsertSong
<1>3. TypeOK'
  BY <1>2, QueryType DEF Inv, TypeOK, InsertSong, States, polling
<1>4. Execute(q) => UNCHANGED figures /\ songs'[cur] = Append(songs[cur], title)
  BY <1>1 DEF Execute, Inv, TypeOK
<1>5. /\ UNCHANGED figures
      /\ songs'[cur] \in {songs[cur], Append(songs[cur], title)}
  BY <1>2, <1>4, QueryEffect
<1>6. "song" \notin failed' /\ Backend # "sqlite" => title \in ToSet(songs'[cur])
  <2>1. title \in ToSet(Append(songs[cur], title))
    BY <1>1, AppendRow DEF Inv, TypeOK, Rows
  <2>2. "song" \notin failed' /\ Backend # "sqlite" => Execute(q)
    BY <1>2, QueryEffect
  <2> QED
    BY <1>4, <2>1, <2>2
<1>7. PollInv' /\ TablesInv'
  BY <1>1, <1>5, <1>6 DEF PollInv, TablesInv, InsertSong, polling
<1> QED
  BY <1>3, <1>7, AfterPollStep DEF Inv, InsertSong

(* The insert of the figures adds a row once or not at all. *)
LEMMA InsertInfoInv == Inv /\ InsertInfo => Inv'
<1> SUFFICES ASSUME Inv, InsertInfo PROVE Inv'
  OBVIOUS
<1> DEFINE q == [op |-> "info", server |-> cur, title |-> title]
<1>1. /\ cur \in Servers /\ figures[cur] = before.figures
      /\ songs[cur] \in {before.songs, Append(before.songs, title)}
      /\ "song" \notin failed /\ Backend # "sqlite" => title \in ToSet(songs[cur])
  BY DEF Inv, PollInv, TablesInv, InsertInfo
<1>2. q \in Stmts /\ q.server \in Servers /\ q.op \in Ops /\ Query(q)
  BY <1>1 DEF Stmts, Ops, Inv, TypeOK, InsertInfo
<1>3. TypeOK'
  BY <1>2, QueryType DEF Inv, TypeOK, InsertInfo, States, polling
<1>4. Execute(q) => UNCHANGED songs /\ figures'[cur] = figures[cur] + 1
  BY <1>1 DEF Execute, Inv, TypeOK
<1>5. /\ UNCHANGED songs
      /\ figures'[cur] \in {figures[cur], figures[cur] + 1}
      /\ failed \subseteq failed'
      /\ "info" \notin failed' /\ Backend # "sqlite" => figures'[cur] = figures[cur] + 1
  BY <1>2, <1>4, QueryEffect
<1>6. PollInv' /\ TablesInv'
  BY <1>1, <1>5 DEF PollInv, TablesInv, Recorded, InsertInfo, polling
<1> QED
  BY <1>3, <1>6, AfterPollStep DEF Inv, InsertInfo

(* The entry says ok when the statements have been given to the database. *)
LEMMA LogOkInv == Inv /\ LogOk => Inv'
<1> SUFFICES ASSUME Inv, LogOk PROVE Inv'
  OBVIOUS
<1>1. cur \in Servers /\ cur' = cur
  BY DEF Inv, PollInv, LogOk, polling
<1>2. TypeOK'
  BY <1>1 DEF Inv, TypeOK, LogOk, States, polling, database, past, Rows
<1>3. pc' = "next" /\ status'[cur'] = "ok"
  BY <1>1 DEF Inv, TypeOK, LogOk
<1>4. PollInv' /\ TablesInv'
  BY <1>3 DEF PollInv, TablesInv
<1>5. OkRecordedUnlessFailed' /\ ErrorRecordsNothing'
  BY <1>1, <1>3 DEF Inv, TablesInv, Recorded, OkRecordedUnlessFailed,
      ErrorRecordsNothing, LogOk, polling, database, past
<1> QED
  BY <1>2, <1>4, <1>5 DEF Inv

----------------------------------------------------------------------------
(* The theorems.                                                           *)

(* Inv is inductive. *)
LEMMA NextInv == Inv /\ [Next]_vars => Inv'
<1> SUFFICES ASSUME Inv, [Next]_vars PROVE Inv'
  OBVIOUS
<1>1. CASE \E s \in Servers : ChangeTitle(s) \/ StartPoll(s)
  BY <1>1, ChangeTitleInv, StartPollInv
<1>2. CASE LoseLink \/ Reconnect \/ ListServers \/ EndCycle
  BY <1>2, LoseLinkInv, ReconnectInv, CycleInv
<1>3. CASE FetchV1 \/ FetchV2 \/ Judge
  BY <1>3, FetchV1Inv, FetchV2Inv, JudgeInv
<1>4. CASE SelectSong \/ CompareSong \/ InsertSong \/ InsertInfo \/ LogOk
  BY <1>4, SelectSongInv, CompareSongInv, InsertSongInv, InsertInfoInv, LogOkInv
<1>5. CASE UNCHANGED vars
  <2>1. TypeOK'
    BY <1>5 DEF Inv, TypeOK, Rows, vars, polling, database, past
  <2>2. PollInv' /\ TablesInv'
    BY <1>5 DEF Inv, PollInv, TablesInv, Unrecorded, Recorded, vars, polling, database, past
  <2>3. ErrorRecordsNothing' /\ OkRecordedUnlessFailed'
    BY <1>5 DEF Inv, ErrorRecordsNothing, OkRecordedUnlessFailed, AfterPoll,
        Recorded, vars, polling, database, past
  <2> QED
    BY <2>1, <2>2, <2>3 DEF Inv
<1> QED
  BY <1>1, <1>2, <1>3, <1>4, <1>5 DEF Next

(* Inv holds of every state a poll can reach. *)
THEOREM Invariance == Spec => []Inv
<1> QED
  BY InitInv, NextInv, PTL DEF Spec

(* Every variable keeps its type. *)
THEOREM TypeCorrect == Spec => []TypeOK
<1>1. Inv => TypeOK
  BY DEF Inv
<1> QED
  BY <1>1, Invariance, PTL

(* A poll whose entry in the status log says error has changed neither     *)
(* table: processServer reports every error before it takes dbMutex.       *)
THEOREM ErrorMeansNothingRecorded == Spec => []ErrorRecordsNothing
<1>1. Inv => ErrorRecordsNothing
  BY DEF Inv
<1> QED
  BY <1>1, Invariance, PTL

(* With a backend that executes what query() is given, a poll whose entry  *)
(* says ok has recorded its answer, once, save for the statements that     *)
(* failed.                                                                 *)
THEOREM OkMeansRecordedUnlessFailed == Spec => []OkRecordedUnlessFailed
<1>1. Inv => OkRecordedUnlessFailed
  BY DEF Inv
<1> QED
  BY <1>1, Invariance, PTL

----------------------------------------------------------------------------
(* The second URL.                                                         *)

(* An answer that began without markup is judged when the second URL has   *)
(* been tried, and that answer is then taken for a document.               *)
FallbackInv ==
  /\ pc \in {"judge", "select", "row", "song", "info", "log"} /\ response[1] \in {"empty", "text"}
       => Len(response) = 2
  /\ AfterPoll /\ response[1] \in {"empty", "text"} =>
       /\ Len(response) = 2
       /\ response[2] = "stats" => status[cur] = "ok"

(* A document after a body without markup is parsed. *)
LEMMA SecondBodyIsParsed ==
  ASSUME NEW r \in Seq(Bodies), Len(r) = 2, r[1] \in {"empty", "text"}, r[2] = "stats"
  PROVE  "login" \notin ToSet(r) /\ Parsed(r)
<1>1. "login" \notin ToSet(r)
  <2>1. ToSet(r) = {r[1], r[2]}
    BY DEF ToSet
  <2> QED
    BY <2>1
<1>2. IsDocument(r, "stats")
  <2>1. 2 \in 1 .. Len(r) /\ (\A j \in 1 .. 2 - 1 : j = 1) /\ 2 + 1 .. Len(r) = {}
    OBVIOUS
  <2> QED
    BY <2>1 DEF IsDocument
<1> QED
  BY <1>1, <1>2 DEF Parsed

(* A first body without markup sends the poll to the second URL. *)
LEMMA FetchV1Fallback == ASSUME Inv, Inv', FetchV1 PROVE FallbackInv'
<1>1. PICK b \in Bodies : Fetch(b) /\ pc' = IF Marked(response') THEN "judge" ELSE "v2"
  <2>1. CASE \E b \in V1Bodies : Fetch(b) /\ pc' = IF Marked(response') THEN "judge" ELSE "v2"
    BY <2>1, RecordingAssumption
  <2>2. ASSUME NEW b \in {"empty", "cut"}, Fetch(b), pc' = "v2" PROVE ~Marked(response')
    <3>1. response \in Seq(Bodies) /\ Len(response) = 0
      BY DEF Inv, TypeOK, PollInv, FetchV1
    <3>2. response' = <<b>>
      BY <2>2, <3>1 DEF Fetch
    <3> QED
      BY <3>2 DEF Marked, ToSet
  <2> QED
    BY <2>1, <2>2 DEF FetchV1, Bodies
<1>2. response \in Seq(Bodies) /\ Len(response) = 0
  BY DEF Inv, TypeOK, PollInv, FetchV1
<1>3. response' = <<b>>
  BY <1>1, <1>2 DEF Fetch
<1>4. response'[1] \in {"empty", "text"} => pc' = "v2"
  BY <1>1, <1>3 DEF Marked, ToSet
<1> QED
  BY <1>1, <1>4 DEF FallbackInv, AfterPoll

(* The second answer ends the poll only if it came in part or not at all. *)
LEMMA FetchV2Fallback == ASSUME Inv, Inv', FetchV2 PROVE FallbackInv'
<1>1. PICK b \in Bodies : Fetch(b) /\ (pc' = "judge" \/ (b # "stats" /\ pc' = "next"))
  <2>1. V2Bodies \subseteq Bodies /\ {"empty", "cut"} \subseteq Bodies
    BY RecordingAssumption DEF Bodies
  <2>2. \/ \E b \in V2Bodies : Fetch(b) /\ pc' = "judge"
        \/ \E b \in {"empty", "cut"} : Fetch(b) /\ pc' = "next"
    BY Zenon DEF FetchV2, Fail
  <2> QED
    BY <2>1, <2>2
<1>2. response \in Seq(Bodies) /\ Len(response) = 1
  BY DEF Inv, TypeOK, PollInv, FetchV2
<1>3. Len(response') = 2 /\ response'[2] = b
  <2>1. response' = Append(response, b)
    BY <1>1 DEF Fetch
  <2>2. /\ Len(Append(response, b)) = Len(response) + 1
        /\ Append(response, b)[Len(response) + 1] = b
    BY <1>2, AppendProperties
  <2>3. Len(response) + 1 = 2
    BY <1>2
  <2> QED
    BY ONLY <2>1, <2>2, <2>3
<1> QED
  BY <1>1, <1>3 DEF FallbackInv, AfterPoll

(* The judge finds no error in a document that a bare first body precedes. *)
LEMMA JudgeFallback == ASSUME Inv, FallbackInv, Judge PROVE FallbackInv'
<1>1. response' = response /\ response \in Seq(Bodies)
  BY DEF Inv, TypeOK, Judge
<1>2. response[1] \in {"empty", "text"} => Len(response) = 2
  BY DEF FallbackInv, Judge
<1>3. CASE "login" \in ToSet(response) \/ ~Parsed(response)
  <2>1. response[1] \in {"empty", "text"} => response[2] # "stats"
    BY <1>1, <1>2, <1>3, SecondBodyIsParsed
  <2> QED
    BY <1>1, <1>2, <1>3, <2>1 DEF Judge, Fail, FallbackInv, AfterPoll
<1>4. CASE ~("login" \in ToSet(response) \/ ~Parsed(response))
  <2>1. pc' \in {"crashed", "select"}
    BY <1>4 DEF Judge
  <2> QED
    BY <1>1, <1>2, <2>1 DEF FallbackInv, AfterPoll
<1> QED
  BY <1>3, <1>4

(* No other step changes the answer of a poll that is under way. *)
LEMMA OtherFallback ==
  ASSUME Inv, FallbackInv, [Next]_vars, ~FetchV1, ~FetchV2, ~Judge
  PROVE  FallbackInv'
<1>1. ASSUME NEW s \in Servers, StartPoll(s) PROVE FallbackInv'
  BY <1>1 DEF StartPoll, FallbackInv, AfterPoll
<1>2. CASE ListServers \/ EndCycle
  <2>1. pc' \in {"list", "next"} /\ cur' = "none"
    BY <1>2 DEF Inv, PollInv, ListServers, EndCycle
  <2> QED
    BY <2>1, RecordingAssumption DEF FallbackInv, AfterPoll
<1>3. CASE LogOk
  BY <1>3 DEF Inv, TypeOK, PollInv, LogOk, polling, FallbackInv, AfterPoll
<1>4. CASE SelectSong \/ CompareSong \/ InsertSong \/ InsertInfo
  BY <1>4 DEF SelectSong, CompareSong, InsertSong, InsertInfo, polling, FallbackInv,
      AfterPoll
<1>5. CASE (\E s \in Servers : ChangeTitle(s)) \/ LoseLink \/ Reconnect \/ UNCHANGED vars
  BY <1>5 DEF ChangeTitle, LoseLink, Reconnect, vars, polling, FallbackInv,
      AfterPoll
<1> QED
  BY <1>1, <1>2, <1>3, <1>4, <1>5 DEF Next

(* A first answer without markup never costs the second: the second URL is *)
(* tried, and the complete document it brings is recorded, save for the    *)
(* statements that fail, if the backend executes statements at all.        *)
THEOREM FallbackWorks == Spec => []FallbackWorksOnBareV1
<1>1. Init => FallbackInv
  BY DEF Init, FallbackInv, AfterPoll
<1>2. Inv /\ Inv' /\ FallbackInv /\ [Next]_vars => FallbackInv'
  BY FetchV1Fallback, FetchV2Fallback, JudgeFallback, OtherFallback
<1>3. Inv /\ FallbackInv => FallbackWorksOnBareV1
  BY DEF Inv, FallbackInv, FallbackWorksOnBareV1, OkRecordedUnlessFailed
<1> QED
  BY <1>1, <1>2, <1>3, Invariance, PTL DEF Spec
=============================================================================
