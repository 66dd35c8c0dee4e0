------------------------- MODULE SchemaSetupProofs -------------------------
(***************************************************************************)
(* Proofs about SchemaSetup, for every number of tables and of faults: the *)
(* script leaves all its tables, whatever was in the file before, and what *)
(* is left when it did not come to its end is known to be incomplete.      *)
(***************************************************************************)
EXTENDS SchemaSetup, TLAPS

(* A statement is the DROP or the CREATE of one of the tables. *)
LEMMA EffectOnTables ==
  ASSUME SchemaTypeOK, next > 0
  PROVE  /\ Effect(next) \in SUBSET (1 .. Tables)
         /\ \A t \in 1 .. Tables : 2 * t < next + 1 => (t \in tables => t \in Effect(next))
         /\ \A t \in 1 .. Tables : 2 * t = next => t \in Effect(next)
PROOF
  <1>1. /\ Tables \in Nat /\ next \in 0 .. 2 * Tables /\ next > 0
        /\ tables \in SUBSET (1 .. Tables)
    BY SchemaAssumption DEF SchemaTypeOK, Last
  <1>2. CASE next % 2 = 1
    <2>1. PICK k \in Int : next = 2 * k + 1
      BY <1>1, <1>2, SMT
    <2>2. Effect(next) = tables \ {k + 1}
      <3>1. (next + 1) \div 2 = k + 1
        BY <1>1, <2>1, SMT
      <3> QED
        BY <1>2, <3>1 DEF Effect
    <2>3. \A t \in 1 .. Tables : 2 * t < next + 1 => t # k + 1
      BY <1>1, <2>1, SMT
    <2>4. \A t \in 1 .. Tables : 2 * t # next
      BY <1>1, <2>1, SMT
    <2>5. Effect(next) \in SUBSET (1 .. Tables)
      BY <1>1, <2>2, Zenon
    <2>6. \A t \in 1 .. Tables : 2 * t < next + 1 => (t \in tables => t \in Effect(next))
      BY <2>2, <2>3, Zenon
    <2> QED
      BY <2>4, <2>5, <2>6, Zenon
  <1>3. CASE next % 2 # 1
    <2>1. PICK k \in Int : next = 2 * k
      BY <1>1, <1>3, SMT
    <2>2. Effect(next) = tables \cup {k}
      <3>1. next \div 2 = k
        BY <1>1, <2>1, SMT
      <3> QED
        BY <1>3, <3>1 DEF Effect
    <2>3. k \in 1 .. Tables
      BY <1>1, <2>1
    <2>4. \A t \in 1 .. Tables : 2 * t = next => t = k
      BY <1>1, <2>1, SMT
    <2>5. Effect(next) \in SUBSET (1 .. Tables)
      BY <1>1, <2>2, <2>3, Zenon
    <2>6. /\ \A t \in 1 .. Tables : t \in tables => t \in Effect(next)
          /\ \A t \in 1 .. Tables : t = k => t \in Effect(next)
      BY <2>2, Zenon
    <2> QED
      BY <2>4, <2>5, <2>6, Zenon
  <1> QED
    BY <1>2, <1>3

(* What the steps need of numbers. *)
LEMMA Numbers ==
  /\ 0 \in 0 .. Last /\ 1 \in 0 .. Last /\ 0 \in 0 .. MaxFaults
  /\ ~(0 > 0) /\ 1 > 0
  /\ \A t \in 1 .. Tables : ~(2 * t < 0) /\ ~(2 * t < 1)
  /\ \A f \in 0 .. MaxFaults : f < MaxFaults => f + 1 \in 0 .. MaxFaults
  /\ \A n \in 0 .. Last : n + 1 # 0 /\ (~(n > 0) => n = 0)
  /\ \A n \in 0 .. Last : n # Last => n + 1 \in 0 .. Last
  /\ \A n \in 0 .. Last, t \in 1 .. Tables :
       2 * t < n + 1 => 2 * t < n \/ 2 * t = n
  /\ \A t \in 1 .. Tables : 2 * t < Last \/ 2 * t = Last
  BY SchemaAssumption DEF Last

(* The initial state satisfies the invariant. *)
LEMMA SchemaInitInv ==
  ASSUME SchemaInit
  PROVE  SchemaInv
PROOF
  <1>1. SchemaTypeOK
    BY Numbers, Zenon DEF SchemaInit, SchemaTypeOK
  <1> QED
    BY <1>1, Numbers, Zenon DEF SchemaInit, SchemaInv, SchemaUsable

(* A statement that is executed leaves the tables of those behind it, and  *)
(* the last one all of them.                                               *)
LEMMA ExecuteInv ==
  ASSUME SchemaInv, Execute
  PROVE  SchemaInv'
PROOF
  <1>1. /\ SchemaTypeOK /\ next > 0 /\ pending = TRUE /\ created = TRUE
        /\ next \in 0 .. Last
        /\ tables \in SUBSET (1 .. Tables)
        /\ \A t \in 1 .. Tables : 2 * t < next => t \in tables
    BY Zenon DEF SchemaInv, SchemaTypeOK, Execute
  <1>2. /\ tables' \in SUBSET (1 .. Tables)
        /\ \A t \in 1 .. Tables : 2 * t < next + 1 => t \in tables'
    BY <1>1, EffectOnTables, Numbers, Zenon DEF Execute
  <1>3. CASE next = Last
    <2>1. 1 .. Tables \subseteq tables'
      BY <1>2, <1>3, Numbers, <1>1, Zenon, SMT
    <2>2. Complete'
      BY <1>2, <2>1, Zenon DEF Complete
    <2>3. /\ next' = 0 /\ pending' = FALSE /\ cut' = {}
          /\ created' = TRUE /\ connected' = connected /\ faults' = faults
      BY <1>1, <1>3, Zenon DEF Execute
    <2>4. SchemaTypeOK'
      BY <1>1, <1>2, <2>3, Numbers, Zenon DEF SchemaTypeOK
    <2> QED
      BY <2>2, <2>3, <2>4, Numbers, Zenon DEF SchemaInv, SchemaUsable
  <1>4. CASE next # Last
    <2>1. /\ next' = next + 1 /\ pending' = TRUE /\ cut' = cut
          /\ created' = TRUE /\ connected' = connected /\ faults' = faults
      BY <1>1, <1>4, Zenon DEF Execute
    <2>2. SchemaTypeOK'
      BY <1>1, <1>2, <1>4, <2>1, Numbers, Zenon DEF SchemaTypeOK
    <2> QED
      BY <1>1, <1>2, <2>1, <2>2, Numbers, Zenon DEF SchemaInv, SchemaUsable
  <1> QED
    BY <1>3, <1>4

(* Every step preserves the invariant. *)
LEMMA SchemaNextInv ==
  ASSUME SchemaInv, [SchemaNext]_schemaVars
  PROVE  SchemaInv'
PROOF
  <1> USE Numbers DEF SchemaInv, SchemaTypeOK, SchemaUsable, Complete, Idle, Causes
  <1>1. CASE LookForFile
    BY <1>1, Zenon DEF LookForFile, Begin
  <1>2. CASE AskForSetup
    BY <1>2, Zenon DEF AskForSetup, Begin
  <1>3. CASE OpenFile
    BY <1>3, Zenon DEF OpenFile, Open
  <1>4. CASE OpenFails
    BY <1>4, Zenon DEF OpenFails, Fails
  <1>5. CASE OpenSecond
    BY <1>5, Zenon DEF OpenSecond, Open
  <1>6. CASE SecondFails
    BY <1>6, Zenon DEF SecondFails, Fails
  <1>7. CASE OpenOnly
    BY <1>7, Zenon DEF OpenOnly
  <1>8. CASE SetupRefused
    BY <1>8, Zenon DEF SetupRefused, GiveUp, Fails
  <1>9. CASE NoScript
    BY <1>9, Zenon DEF NoScript, GiveUp
  <1>10. CASE NotConnected
    BY <1>10, Zenon DEF NotConnected, GiveUp
  <1>11. CASE Execute
    BY <1>11, ExecuteInv
  <1>12. CASE StatementFails
    BY <1>12, Zenon DEF StatementFails, GiveUp, Fails
  <1>13. CASE EndSchema
    BY <1>13, Zenon DEF EndSchema, GiveUp
  <1>14. CASE RemoveFile
    BY <1>14, Zenon DEF RemoveFile
  <1>15. CASE UNCHANGED schemaVars
    BY <1>15, Zenon DEF schemaVars
  <1> QED
    BY <1>1, <1>2, <1>3, <1>4, <1>5, <1>6, <1>7, <1>8, <1>9, <1>10, <1>11,
       <1>12, <1>13, <1>14, <1>15 DEF SchemaNext

(* SchemaInv is an invariant: a script that runs has made the tables of    *)
(* the statements behind it.                                               *)
THEOREM SchemaInvariance ==
  SchemaSpec => []SchemaInv
PROOF
  <1>1. SchemaInit => SchemaInv
    BY SchemaInitInv
  <1>2. SchemaInv /\ [SchemaNext]_schemaVars => SchemaInv'
    BY SchemaNextInv
  <1> QED
    BY <1>1, <1>2, PTL DEF SchemaSpec

(* A database that nobody sets up has all its tables or is known not to    *)
(* have been set up to the end.                                            *)
THEOREM SchemaIsUsable ==
  SchemaSpec => []SchemaUsable
PROOF
  <1>1. SchemaInv => SchemaUsable
    BY DEF SchemaInv
  <1> QED
    BY <1>1, SchemaInvariance, PTL
=============================================================================
