---------------------------- MODULE SchemaSetup ----------------------------
(***************************************************************************)
(* The file of the SQLite database and how its tables come to be in it:    *)
(* the test for its existence (src/src/scastd.cpp 537-546, and 638-643 in  *)
(* a reload), the two connections, of which the first that succeeds creates*)
(* it, and the script, which is given to the first one.  For SQLite        *)
(* setupDatabase hands the whole script to SQLiteDatabase::query, which    *)
(* prepares its first statement, finds more text behind it, and gives all  *)
(* of it to sqlite3_exec; that executes one statement after the other up   *)
(* to the first that fails, each in a transaction of its own.  For table t *)
(* the script has DROP TABLE IF EXISTS, statement 2t - 1, and CREATE       *)
(* TABLE, statement 2t; the rows it inserts belong to their table.         *)
(***************************************************************************)
EXTENDS Integers

CONSTANTS
  Tables,       (* the number of tables of the script                       *)
  MaxFaults     (* bound on the calls that fail                             *)

ASSUME SchemaAssumption ==
  /\ Tables \in Nat \ {0}
  /\ MaxFaults \in Nat

VARIABLES
  created,      (* the file exists                                          *)
  tables,       (* the tables in it                                         *)
  pending,      (* needInit: the script is to be run, or being run          *)
  next,         (* the statement of the script to come, or 0                *)
  connected,    (* db, the first of the two handles, has a connection       *)
  cut,          (* history: why a script did not come to its end            *)
  faults        (* the calls that have failed                               *)

schemaVars == <<created, tables, pending, next, connected, cut, faults>>

Complete == tables = 1 .. Tables

Causes == {"no script", "not connected", "statement failed", "ended", "not run"}

SchemaInit ==
  /\ created = FALSE /\ tables = {}
  /\ pending = FALSE /\ next = 0 /\ connected = FALSE
  /\ cut = {} /\ faults = 0

Fails ==
  /\ faults < MaxFaults
  /\ faults' = faults + 1

Idle == ~pending

(* A process, or a reload that has disconnected. *)
Begin ==
  /\ Idle
  /\ connected' = FALSE
  /\ UNCHANGED <<created, tables, next, cut, faults>>

LookForFile_Bug == Begin /\ pending' = TRUE   \* the script is run at each start

(* The existence of the file decides. *)
LookForFile == Begin /\ pending' = ~created

(* --setupdb does not look. *)
AskForSetup == Begin /\ pending' = TRUE

(* sqlite3_open creates the file; one that was not there is to be set up,  *)
(* if nobody has removed it since it was looked for.                       *)
Open ==
  /\ next <= 1 /\ (created \/ pending)
  /\ created' = TRUE
  /\ next' = IF pending THEN 1 ELSE 0
  /\ UNCHANGED <<tables, pending, cut, faults>>

OpenFile == next = 0 /\ Open /\ connected' = TRUE

OpenFails ==
  /\ next = 0
  /\ Fails
  /\ connected' = FALSE
  /\ UNCHANGED <<created, tables, pending, next, cut>>

(* db2 connects whatever db did, and may be the one that creates the file. *)
OpenSecond == Open /\ UNCHANGED connected

SecondFails == Fails /\ UNCHANGED <<created, tables, pending, next, connected, cut>>

(* --test-mode connects and disconnects. *)
OpenOnly ==
  /\ Idle
  /\ created' = TRUE
  /\ cut' = IF created THEN cut ELSE {"not run"}
  /\ UNCHANGED <<tables, pending, next, connected, faults>>

(* The set-up does not come to its end; run() ignores that. *)
GiveUp(cause) ==
  /\ pending' = FALSE /\ next' = 0
  /\ cut' = IF next > 0 THEN cut \cup {cause} ELSE cut
  /\ UNCHANGED <<created, tables, connected>>

(* main() gives up when --setupdb or --test-mode finds no connection. *)
SetupRefused == next = 0 /\ Fails /\ GiveUp("not connected")

(* The script is not where setupDatabase looks for it. *)
NoScript == pending /\ next <= 1 /\ GiveUp("no script") /\ UNCHANGED faults

(* Without a connection every statement fails, the first one, too. *)
NotConnected == pending /\ ~connected /\ GiveUp("not connected") /\ UNCHANGED faults

Effect(n) ==
  IF n % 2 = 1 THEN tables \ {(n + 1) \div 2} ELSE tables \cup {n \div 2}

Last == 2 * Tables

Execute_Bug == \* the last statement is prepared and never stepped
  /\ next > 0 /\ connected
  /\ tables' = IF next = Last THEN tables ELSE Effect(next)
  /\ next' = IF next = Last THEN 0 ELSE next + 1
  /\ pending' = (next # Last)
  /\ cut' = IF next = Last THEN {} ELSE cut
  /\ UNCHANGED <<created, connected, faults>>

Execute_Past_Bug == \* the end of the script is not noticed
  /\ next > 0 /\ connected
  /\ tables' = Effect(next)
  /\ next' = next + 1
  /\ pending' = (next # Last)
  /\ cut' = IF next = Last THEN {} ELSE cut
  /\ UNCHANGED <<created, connected, faults>>

Execute ==
  /\ next > 0 /\ connected
  /\ tables' = Effect(next)
  /\ next' = IF next = Last THEN 0 ELSE next + 1
  /\ pending' = (next # Last)
  /\ cut' = IF next = Last THEN {} ELSE cut
  /\ UNCHANGED <<created, connected, faults>>

(* The script ends at the first statement that fails; what the earlier     *)
(* ones did remains.                                                       *)
StatementFails == next > 0 /\ connected /\ Fails /\ GiveUp("statement failed")

(* The process ends. *)
EndSchema == GiveUp("ended") /\ UNCHANGED faults

(* The operator removes the file. *)
RemoveFile ==
  /\ Idle
  /\ created' = FALSE /\ tables' = {} /\ cut' = {}
  /\ UNCHANGED <<pending, next, connected, faults>>

SchemaNext ==
  \/ LookForFile \/ AskForSetup
  \/ OpenFile \/ OpenFails \/ OpenSecond \/ SecondFails
  \/ OpenOnly \/ SetupRefused
  \/ NoScript \/ NotConnected \/ Execute \/ StatementFails
  \/ EndSchema \/ RemoveFile

SchemaSpec == SchemaInit /\ [][SchemaNext]_schemaVars

----------------------------------------------------------------------------
(* Every variable has its type. *)
SchemaTypeOK ==
  /\ {created, pending, connected} \subseteq BOOLEAN
  /\ tables \in SUBSET (1 .. Tables)
  /\ next \in 0 .. Last
  /\ cut \in SUBSET Causes
  /\ faults \in 0 .. MaxFaults

(* A database that no script is at work on has all its tables, unless one  *)
(* for this file came to an early end or was never begun; only then does   *)
(* the next start take an incomplete file for a database.                  *)
SchemaUsable == created /\ next = 0 => Complete \/ cut # {}

(* The inductive invariant of SchemaSetupProofs: what the statements       *)
(* executed so far have left.                                              *)
SchemaInv ==
  /\ SchemaTypeOK
  /\ next > 0 => pending /\ created
  /\ \A t \in 1 .. Tables : 2 * t < next => t \in tables
  /\ ~created => tables = {} /\ cut = {}
  /\ SchemaUsable
=============================================================================
