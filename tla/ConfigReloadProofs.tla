------------------------- MODULE ConfigReloadProofs -------------------------
(***************************************************************************)
(* Proofs about ConfigReload, for all files, options, secrets and          *)
(* environments: what a reload makes of the settings, and which source of  *)
(* a value wins.                                                           *)
(***************************************************************************)
EXTENDS ConfigReload, TLAPS

DatabaseKeys == {"DatabaseType", "username", "host", "dbname", "sqlite_path"}

(* With all its keys given, the choice of the database does not depend on  *)
(* the old settings.                                                       *)
LEMMA DatabaseOfGivenKeys ==
  ASSUME NEW c, NEW db, DatabaseKeys \subseteq DOMAIN c
  PROVE  ReloadDatabase(c, db) = StartDatabase(c)
PROOF
  <1>1. \A d : /\ Get(c, "DatabaseType", d) = c["DatabaseType"]
               /\ Get(c, "username", d) = c["username"]
               /\ Get(c, "host", d) = c["host"]
               /\ Get(c, "dbname", d) = c["dbname"]
               /\ Get(c, "sqlite_path", d) = c["sqlite_path"]
    BY DEF DatabaseKeys, Get, Given
  <1> QED
    BY <1>1, Zenon DEF ReloadDatabase, StartDatabase

(* What a reload gives, if a value is given, is what a start would. *)
LEMMA ReloadedIsStarted ==
  ASSUME NEW c, NEW s
  PROVE  /\ DatabaseKeys \subseteq DOMAIN c => Reloaded(c, s).db = StartDatabase(c)
         /\ Given(c, "poll_interval") /\ Parsed(c["poll_interval"])
              => Reloaded(c, s).poll = Started(c).poll
         /\ Get(c, "log_console", "") \in {"true", "false"}
              => Reloaded(c, s).console = Started(c).console
         /\ Reloaded(c, s).debug = Started(c).debug
         /\ Reloaded(c, s).logDir = Started(c).logDir
PROOF
  <1>1. /\ Reloaded(c, s).db = ReloadDatabase(c, s.db)
        /\ Reloaded(c, s).poll = GetDuration(c, s.poll)
        /\ Reloaded(c, s).console = GetFlag(c, s.console)
        /\ Reloaded(c, s).debug = Get(c, "debug_level", 0)
        /\ Reloaded(c, s).logDir = Get(c, "log_dir", DefaultDir)
    BY DEF Reloaded
  <1>2. /\ Started(c).poll = GetDuration(c, DefaultPoll)
        /\ Started(c).console = GetFlag(c, foreground)
        /\ Started(c).debug = Get(c, "debug_level", 0)
        /\ Started(c).logDir = Get(c, "log_dir", DefaultDir)
    BY DEF Started
  <1>3. ASSUME Given(c, "poll_interval"), Parsed(c["poll_interval"])
        PROVE  GetDuration(c, s.poll) = GetDuration(c, DefaultPoll)
    BY <1>3, Zenon DEF GetDuration
  <1>4. ASSUME Get(c, "log_console", "") \in {"true", "false"}
        PROVE  GetFlag(c, s.console) = GetFlag(c, foreground)
    BY <1>4, Zenon DEF GetFlag
  <1> QED
    BY <1>1, <1>2, <1>3, <1>4, DatabaseOfGivenKeys, Zenon

(* A reload gives what a restart would, each group of settings if its keys *)
(* are given.                                                              *)
THEOREM ReloadGivesRestart ==
  Spec => []ReloadIsRestart
PROOF
  <1>1. Init => ReloadIsRestart
    <2> SUFFICES ASSUME settings = Started(cfg) PROVE ReloadIsRestart
      BY DEF Init
    <2>1. settings.db = StartDatabase(cfg)
      BY DEF Started
    <2> QED
      BY <2>1, Zenon DEF ReloadIsRestart
  <1>2. ReloadIsRestart /\ [Next]_vars => ReloadIsRestart'
    <2> SUFFICES ASSUME ReloadIsRestart, [Next]_vars PROVE ReloadIsRestart'
      OBVIOUS
    <2>1. CASE settings' = Reloaded(cfg', settings)
      <3>1. foreground' = foreground
        BY DEF Next, Reload, start, vars
      <3> QED
        BY <2>1, <3>1, ReloadedIsStarted, Zenon DEF ReloadIsRestart, DatabaseKeys, Started
    <2>2. CASE UNCHANGED vars
      BY <2>2, Zenon DEF vars, start, ReloadIsRestart, StartDatabase, Started
    <2> QED
      BY <2>1, <2>2 DEF Next, Reload
  <1> QED
    BY <1>1, <1>2, PTL DEF Spec

----------------------------------------------------------------------------
(* A database that has been chosen is chosen again.                        *)

Chosen(c, db) == Given(c, "dbname") => ReloadDatabase(c, db) = db

DatabaseOK(db) ==
  /\ db.type \in Known
  /\ IF db.type = "sqlite"
       THEN db.user = "" /\ db.host = ""
       ELSE "" \notin {db.user, db.host, db.name}

(* What Database returns is a server with all its settings, or SQLite with *)
(* none of a server's.                                                     *)
LEMMA DatabaseIsOK ==
  ASSUME NEW type, NEW user, NEW host, NEW name, NEW path,
         NEW d, d = Database(type, user, host, name, path)
  PROVE  DatabaseOK(d)
PROOF
  <1>1. CASE UsesSqlite(type, user, host, name) \/ type \notin Known
    <2>1. d = [type |-> "sqlite", user |-> "", host |-> "", name |-> path]
      BY <1>1, Zenon DEF Database
    <2>2. d.type = "sqlite" /\ d.user = "" /\ d.host = ""
      BY ONLY <2>1, Zenon
    <2> QED
      BY <2>2 DEF DatabaseOK, Known
  <1>2. CASE ~(UsesSqlite(type, user, host, name) \/ type \notin Known)
    <2>1. d = [type |-> type, user |-> user, host |-> host, name |-> name]
      BY <1>2, Zenon DEF Database
    <2>2. d.type = type /\ d.user = user /\ d.host = host /\ d.name = name
      BY ONLY <2>1, Zenon
    <2> QED
      BY <1>2, <2>2 DEF DatabaseOK, UsesSqlite
  <1> QED
    BY <1>1, <1>2

LEMMA ChosenAgain ==
  ASSUME NEW c, NEW db, db.type \in Known \cup {""}, Given(c, "dbname"),
         NEW d, d = ReloadDatabase(c, db)
  PROVE  ReloadDatabase(c, d) = d
PROOF
  <1> DEFINE type == Get(c, "DatabaseType", db.type)
             user == Get(c, "username", db.user)
             host == Get(c, "host", db.host)
             name == Get(c, "dbname", db.name)
             path == Get(c, "sqlite_path", db.name)
  <1>1. d = Database(type, user, host, name, path)
    BY Zenon DEF ReloadDatabase
  <1>2. CASE UsesSqlite(type, user, host, name) \/ type \notin Known
    <2>1. d = [type |-> "sqlite", user |-> "", host |-> "", name |-> path]
      BY <1>1, <1>2, Zenon DEF Database
    <2>2. d.type = "sqlite" /\ d.user = "" /\ d.host = "" /\ d.name = path
      BY ONLY <2>1, Zenon
    <2>3. /\ Get(c, "sqlite_path", d.name) = path
          /\ Get(c, "dbname", d.name) = name
      BY <2>2, Zenon DEF Get
    <2>4. \/ UsesSqlite(Get(c, "DatabaseType", d.type), Get(c, "username", d.user),
                        Get(c, "host", d.host), name)
          \/ Get(c, "DatabaseType", d.type) \notin Known
      <3> HIDE DEF name
      <3> QED
      BY <1>2, <2>2 DEF Get, UsesSqlite, Known
    <2> QED
      BY <2>1, <2>3, <2>4, Zenon DEF ReloadDatabase, Database
  <1>3. CASE ~(UsesSqlite(type, user, host, name) \/ type \notin Known)
    <2>1. d = [type |-> type, user |-> user, host |-> host, name |-> name]
      BY <1>1, <1>3, Zenon DEF Database
    <2>2. d.type = type /\ d.user = user /\ d.host = host /\ d.name = name
      BY ONLY <2>1, Zenon
    <2>3. /\ Get(c, "DatabaseType", d.type) = type /\ Get(c, "username", d.user) = user
          /\ Get(c, "host", d.host) = host /\ Get(c, "dbname", d.name) = name
      BY <2>2, Zenon DEF Get
    <2> QED
      BY <1>3, <2>1, <2>3, Zenon DEF ReloadDatabase, Database
  <1> QED
    BY <1>2, <1>3

----------------------------------------------------------------------------
(* The settings fit the configuration they were taken from.                *)

Settled ==
  /\ settings = [db |-> settings.db, poll |-> settings.poll, console |-> settings.console,
                 debug |-> settings.debug, logDir |-> settings.logDir,
                 statusDir |-> settings.statusDir]
  /\ settings.db.type \in Known
  /\ Chosen(cfg, settings.db)
  /\ settings.poll = GetDuration(cfg, settings.poll)
  /\ settings.console = GetFlag(cfg, settings.console)
  /\ settings.debug = Get(cfg, "debug_level", 0)
  /\ settings.logDir = Get(cfg, "log_dir", DefaultDir)

LEMMA SettledInit ==
  ASSUME settings = Started(cfg)
  PROVE  Settled
PROOF
  <1>1. /\ settings.db = StartDatabase(cfg) /\ settings.poll = GetDuration(cfg, DefaultPoll)
        /\ settings.console = GetFlag(cfg, foreground) /\ settings.debug = Get(cfg, "debug_level", 0)
        /\ settings.logDir = Get(cfg, "log_dir", DefaultDir)
        /\ settings.statusDir = Get(cfg, "log_dir", DefaultDir)
    BY Zenon DEF Started
  <1>2. settings.db.type \in Known
    BY <1>1, DatabaseIsOK, Zenon DEF StartDatabase, DatabaseOK
  <1>3. Chosen(cfg, settings.db)
    <2> SUFFICES ASSUME Given(cfg, "dbname") PROVE ReloadDatabase(cfg, settings.db) = settings.db
      BY DEF Chosen
    <2>1. PICK db : db = [type |-> "", user |-> "", host |-> "", name |-> DefaultPath]
      OBVIOUS
    <2>2. db.type = "" /\ db.user = "" /\ db.host = "" /\ db.name = DefaultPath
      BY ONLY <2>1, Zenon
    <2>3. settings.db = ReloadDatabase(cfg, db)
      BY <1>1, <2>2, Zenon DEF StartDatabase, ReloadDatabase, Get
    <2> QED
      BY <2>2, <2>3, ChosenAgain, Zenon
  <1>4. settings.poll = GetDuration(cfg, settings.poll)
    BY <1>1, Zenon DEF GetDuration
  <1>5. settings.console = GetFlag(cfg, settings.console)
    BY <1>1, Zenon DEF GetFlag
  <1>6. settings = [db |-> settings.db, poll |-> settings.poll, console |-> settings.console,
                    debug |-> settings.debug, logDir |-> settings.logDir,
                    statusDir |-> settings.statusDir]
    BY <1>1, Zenon DEF Started
  <1> QED
    BY <1>1, <1>2, <1>3, <1>4, <1>5, <1>6, Zenon DEF Settled

LEMMA SettledNext ==
  ASSUME Settled, settings' = Reloaded(cfg', settings)
  PROVE  Settled'
PROOF
  <1>1. /\ settings'.db = ReloadDatabase(cfg', settings.db)
        /\ settings'.poll = GetDuration(cfg', settings.poll)
        /\ settings'.console = GetFlag(cfg', settings.console)
        /\ settings'.debug = Get(cfg', "debug_level", 0)
        /\ settings'.logDir = Get(cfg', "log_dir", DefaultDir)
        /\ settings'.statusDir = settings.statusDir
    BY Zenon DEF Reloaded
  <1>2. settings'.db.type \in Known
    BY <1>1, DatabaseIsOK, Zenon DEF ReloadDatabase, DatabaseOK
  <1>3. Chosen(cfg', settings'.db)
    <2>1. settings.db.type \in Known \cup {""}
      BY DEF Settled
    <2>2. ASSUME NEW c, NEW d, d = ReloadDatabase(c, settings.db)
          PROVE  Chosen(c, d)
      BY <2>1, <2>2, ChosenAgain, Zenon DEF Chosen
    <2> QED
      BY <1>1, <2>2, Zenon
  <1>4. settings'.poll = GetDuration(cfg', settings'.poll)
    BY <1>1, Zenon DEF GetDuration
  <1>5. settings'.console = GetFlag(cfg', settings'.console)
    BY <1>1, Zenon DEF GetFlag
  <1>6. settings' = [db |-> settings'.db, poll |-> settings'.poll, console |-> settings'.console,
                     debug |-> settings'.debug, logDir |-> settings'.logDir,
                     statusDir |-> settings'.statusDir]
    BY <1>1, Zenon DEF Reloaded
  <1> QED
    BY <1>1, <1>2, <1>3, <1>4, <1>5, <1>6, Zenon DEF Settled

(* The settings always fit the configuration. *)
THEOREM SettingsAreSettled ==
  Spec => []Settled
PROOF
  <1>1. Init => Settled
    BY SettledInit DEF Init
  <1>2. Settled /\ [Next]_vars => Settled'
    <2> SUFFICES ASSUME Settled, [Next]_vars PROVE Settled'
      OBVIOUS
    <2>1. CASE Next
      BY <2>1, SettledNext DEF Next, Reload
    <2>2. CASE UNCHANGED vars
      BY <2>2, Zenon DEF vars, Settled, Chosen
    <2> QED
      BY <2>1, <2>2
  <1> QED
    BY <1>1, <1>2, PTL DEF Spec

(* A SIGHUP changes nothing if nothing has changed. *)
THEOREM ReloadIsIdempotentAlways ==
  Spec => ReloadIsIdempotent
PROOF
  <1>1. Settled /\ [Next]_vars
          => [cfg' = cfg /\ Given(cfg, "dbname") => settings' = settings]_vars
    <2> SUFFICES ASSUME Settled, Next, cfg' = cfg, Given(cfg, "dbname")
                 PROVE  settings' = settings
      BY DEF Settled
    <2>1. settings' = Reloaded(cfg, settings)
      BY DEF Next, Reload
    <2>2. /\ ReloadDatabase(cfg, settings.db) = settings.db
          /\ GetDuration(cfg, settings.poll) = settings.poll
          /\ GetFlag(cfg, settings.console) = settings.console
          /\ Get(cfg, "debug_level", 0) = settings.debug
          /\ Get(cfg, "log_dir", DefaultDir) = settings.logDir
      BY Zenon DEF Settled, Chosen
    <2>3. settings = [db |-> settings.db, poll |-> settings.poll, console |-> settings.console,
                      debug |-> settings.debug, logDir |-> settings.logDir,
                      statusDir |-> settings.statusDir]
      BY Zenon DEF Settled
    <2> QED
      BY <2>1, <2>2, <2>3, Zenon DEF Reloaded
  <1> QED
    BY <1>1, SettingsAreSettled, PTL DEF Spec, ReloadIsIdempotent

----------------------------------------------------------------------------
(* Which source wins.                                                      *)

(* The options are put over what was read. *)
LEMMA OverrideWins ==
  ASSUME NEW c, NEW k
  PROVE  /\ k \in DOMAIN overrides => k \in DOMAIN Override(c) /\ Override(c)[k] = overrides[k]
         /\ k \notin DOMAIN overrides => Get(Override(c), k, Unset) = Get(c, k, Unset)
  BY Zenon DEF Override, Given, Get

LEMMA PutNameGives ==
  ASSUME NEW c, NEW v, v # Unset
  PROVE  Get(PutName(c, v), "username", Unset) = v
  BY Zenon DEF Get, PutName, Put, Given

(* What the environment gives, and the user name that has to win.          *)
InEnvironment(secretEnv) == IF environ.name = Unset THEN secretEnv ELSE environ.name

Wanted(secretEnv) ==
  IF Given(overrides, "username") THEN overrides["username"] ELSE InEnvironment(secretEnv)

(* The environment is put over the file and its secrets. *)
LEMMA LoadInOrder ==
  ASSUME NEW f, NEW secret, NEW secretEnv, InEnvironment(secretEnv) # Unset
  PROVE  Get(Load(f, secret, secretEnv), "username", Unset) = InEnvironment(secretEnv)
PROOF
  <1>1. CASE environ.name = Unset
    <2>1. /\ Load(f, secret, secretEnv) = PutName(PutName(f, secret), secretEnv)
          /\ InEnvironment(secretEnv) = secretEnv
      BY <1>1, Zenon DEF Load, PutName, InEnvironment
    <2> QED
      BY <2>1, PutNameGives, Zenon
  <1>2. CASE environ.name # Unset
    <2>1. InEnvironment(secretEnv) = environ.name
      BY <1>2, Zenon DEF InEnvironment
    <2> QED
      BY <1>2, <2>1, PutNameGives, Zenon DEF Load
  <1> QED
    BY <1>1, <1>2

(* The name that a configuration gives is the one a server is given. *)
LEMMA NamedUser ==
  ASSUME NEW c, NEW name, name # Unset, Get(c, "username", Unset) = name
  PROVE  /\ StartDatabase(c).type # "sqlite" => StartDatabase(c).user = name
         /\ \A db : ReloadDatabase(c, db).type # "sqlite" => ReloadDatabase(c, db).user = name
PROOF
  <1>1. \A default : Get(c, "username", default) = name
    BY Zenon DEF Get
  <1>2. ASSUME NEW type, NEW host, NEW n, NEW path, NEW d,
               d = Database(type, name, host, n, path)
        PROVE  d.type # "sqlite" => d.user = name
    <2>1. CASE d = [type |-> "sqlite", user |-> "", host |-> "", name |-> path]
      BY ONLY <2>1, Zenon
    <2>2. CASE d = [type |-> type, user |-> name, host |-> host, name |-> n]
      BY ONLY <2>2, Zenon
    <2> QED
      BY <1>2, <2>1, <2>2, Zenon DEF Database
  <1>3. StartDatabase(c).type # "sqlite" => StartDatabase(c).user = name
    <2> DEFINE type == Get(c, "DatabaseType", "")
               host == Get(c, "host", "")
               n == Get(c, "dbname", "")
               path == Get(c, "sqlite_path", DefaultPath)
    <2>1. StartDatabase(c) = Database(type, name, host, n, path)
      BY <1>1, Zenon DEF StartDatabase
    <2> HIDE DEF type, host, n, path
    <2> QED
      BY <1>2, <2>1
  <1>4. ASSUME NEW db
        PROVE  ReloadDatabase(c, db).type # "sqlite" => ReloadDatabase(c, db).user = name
    <2> DEFINE type == Get(c, "DatabaseType", db.type)
               host == Get(c, "host", db.host)
               n == Get(c, "dbname", db.name)
               path == Get(c, "sqlite_path", db.name)
    <2>1. ReloadDatabase(c, db) = Database(type, name, host, n, path)
      BY <1>1, Zenon DEF ReloadDatabase
    <2> HIDE DEF type, host, n, path
    <2> QED
      BY <1>2, <2>1
  <1> QED
    BY <1>3, <1>4, Zenon

(* What is read puts the sources in order. *)
LEMMA ReadInOrder ==
  ASSUME NEW f, NEW secret, NEW secretEnv, Wanted(secretEnv) # Unset
  PROVE  Get(Override(Load(f, secret, secretEnv)), "username", Unset) = Wanted(secretEnv)
PROOF
  <1> DEFINE c == Override(Load(f, secret, secretEnv))
  <1>1. CASE Given(overrides, "username")
    BY <1>1, OverrideWins, Zenon DEF Wanted, Given, Get
  <1>2. CASE ~Given(overrides, "username")
    <2>1. Get(c, "username", Unset) = Get(Load(f, secret, secretEnv), "username", Unset)
      BY <1>2, OverrideWins, Zenon DEF Given
    <2>2. Wanted(secretEnv) = InEnvironment(secretEnv)
      BY <1>2, Zenon DEF Wanted
    <2> QED
      BY <2>1, <2>2, LoadInOrder, Zenon
  <1> QED
    BY <1>1, <1>2

(* After every reload, too, an option wins, and then the environment as it *)
(* is then; and the server is given that name.                             *)
THEOREM SourcesStayInOrder ==
  Spec => []SourcesInOrder
PROOF
  <1>1. ASSUME NEW c \in {cfg, cfg'}, NEW f, NEW secret, NEW secretEnv,
               c = Override(Load(f, secret, secretEnv))
        PROVE  \A k \in DOMAIN overrides : Given(c, k) /\ c[k] = overrides[k]
    BY <1>1, OverrideWins, Zenon DEF Given
  <1>2. Init => SourcesInOrder
    <2> SUFFICES ASSUME Init PROVE SourcesInOrder
      OBVIOUS
    <2>1. PICK f \in ConfigFiles, secret \in Read(TRUE) \cup Read(FALSE) :
            cfg = Override(Load(f, secret, fromEnv))
      BY Zenon DEF Init, Read
    <2>2. settings.db = StartDatabase(cfg)
      BY Zenon DEF Init, Started
    <2>3. ASSUME Wanted(fromEnv) # Unset
          PROVE  /\ Get(cfg, "username", Unset) = Wanted(fromEnv)
                 /\ settings.db.type # "sqlite" => settings.db.user = Wanted(fromEnv)
      <3>1. Get(cfg, "username", Unset) = Wanted(fromEnv)
        BY <2>1, <2>3, ReadInOrder, Zenon
      <3>2. StartDatabase(cfg).type # "sqlite" => StartDatabase(cfg).user = Wanted(fromEnv)
        BY <2>3, <3>1, NamedUser
      <3> QED
        BY <2>2, <3>1, <3>2
    <2>4. \A k \in DOMAIN overrides : Given(cfg, k) /\ cfg[k] = overrides[k]
      BY <1>1, <2>1, Zenon
    <2> QED
      BY <2>3, <2>4, Zenon DEF SourcesInOrder, Wanted, InEnvironment
  <1>3. SourcesInOrder /\ [Next]_vars => SourcesInOrder'
    <2> SUFFICES ASSUME SourcesInOrder, [Next]_vars PROVE SourcesInOrder'
      OBVIOUS
    <2>1. CASE UNCHANGED vars
      BY <2>1, Zenon DEF vars, start, SourcesInOrder
    <2>2. ASSUME NEW f, NEW secret, NEW secretEnv, Reload(f, secret, secretEnv)
          PROVE  SourcesInOrder'
      <3>1. /\ cfg' = Override(Load(f, secret, secretEnv)) /\ fromEnv' = secretEnv
            /\ overrides' = overrides /\ environ' = environ
            /\ settings'.db = ReloadDatabase(cfg', settings.db)
        BY <2>2, Zenon DEF Reload, Reloaded, start
      <3>2. ASSUME Wanted(secretEnv) # Unset
            PROVE  /\ Get(cfg', "username", Unset) = Wanted(secretEnv)
                   /\ settings'.db.type # "sqlite" => settings'.db.user = Wanted(secretEnv)
        <4>1. Get(cfg', "username", Unset) = Wanted(secretEnv)
          BY <3>1, <3>2, ReadInOrder, Zenon
        <4>2. \A db : ReloadDatabase(cfg', db).type # "sqlite"
                        => ReloadDatabase(cfg', db).user = Wanted(secretEnv)
          BY <3>2, <4>1, NamedUser
        <4> QED
          BY <3>1, <4>1, <4>2
      <3>3. \A k \in DOMAIN overrides : Given(cfg', k) /\ cfg'[k] = overrides[k]
        BY <1>1, <3>1, Zenon
      <3> QED
        BY <3>1, <3>2, <3>3, Zenon DEF SourcesInOrder, Wanted, InEnvironment, Given
    <2> QED
      BY <2>1, <2>2 DEF Next
  <1> QED
    BY <1>2, <1>3, PTL DEF Spec

----------------------------------------------------------------------------
(* Types.                                                                  *)

(* Putting a value of the key's type leaves a configuration. *)
LEMMA PutType ==
  ASSUME NEW c, NEW k \in Keys, NEW v, IsConfig(c), KeyTyped(k, v)
  PROVE  IsConfig(Put(c, k, v))
PROOF
  <1> DEFINE d == Put(c, k, v)
  <1>1. /\ DOMAIN d = DOMAIN c \cup {k}
        /\ d = [x \in DOMAIN d |-> d[x]]
        /\ \A x \in DOMAIN d : d[x] = IF x = k THEN v ELSE c[x]
    BY Zenon DEF Put
  <1>2. \A x \in DOMAIN d : KeyTyped(x, d[x])
    <2> HIDE DEF d
    <2> SUFFICES ASSUME NEW x \in DOMAIN d PROVE KeyTyped(x, d[x])
      OBVIOUS
    <2>1. CASE x = k
      BY <1>1, <2>1, Zenon
    <2>2. CASE x # k
      BY <1>1, <2>2, Zenon DEF IsConfig
    <2> QED
      BY <2>1, <2>2
  <1> HIDE DEF d
  <1>3. IsConfig(d)
    BY <1>1, <1>2, Zenon DEF IsConfig
  <1> QED
    BY <1>3 DEF d

(* The options put over a configuration leave one. *)
LEMMA OverrideType ==
  ASSUME NEW c, IsConfig(c), IsConfig(overrides)
  PROVE  IsConfig(Override(c))
PROOF
  <1> DEFINE d == Override(c)
  <1>1. /\ DOMAIN d = DOMAIN c \cup DOMAIN overrides
        /\ d = [x \in DOMAIN d |-> d[x]]
        /\ \A x \in DOMAIN d : d[x] = IF x \in DOMAIN overrides THEN overrides[x] ELSE c[x]
    BY Zenon DEF Override, Given
  <1> HIDE DEF d
  <1>2. ASSUME NEW x \in DOMAIN d PROVE KeyTyped(x, d[x])
    <2>1. CASE x \in DOMAIN overrides
      BY <1>1, <2>1, Zenon DEF IsConfig
    <2>2. CASE x \notin DOMAIN overrides
      BY <1>1, <2>2, Zenon DEF IsConfig
    <2> QED
      BY <2>1, <2>2
  <1>3. IsConfig(d)
    BY <1>1, <1>2, Zenon DEF IsConfig
  <1> QED
    BY <1>3 DEF d

(* What the sources give together is a configuration. *)
LEMMA LoadType ==
  ASSUME NEW f, IsConfig(f), NEW secret \in STRING \cup {Unset},
         NEW secretEnv \in STRING \cup {Unset}, environ.name \in STRING \cup {Unset}
  PROVE  IsConfig(Load(f, secret, secretEnv))
PROOF
  <1>1. "username" \in Keys /\ \A v \in STRING : KeyTyped("username", v)
    BY DEF Keys, KeyTyped
  <1>2. ASSUME NEW c, NEW v \in STRING \cup {Unset}, IsConfig(c)
        PROVE  IsConfig(PutName(c, v))
    BY <1>1, <1>2, PutType, Zenon DEF PutName
  <1> QED
    BY <1>2, Zenon DEF Load

(* The values of a configuration that run() computes with. *)
LEMMA ValueTypes ==
  ASSUME NEW c, IsConfig(c)
  PROVE  /\ Get(c, "debug_level", 0) \in Int
         /\ Given(c, "poll_interval") => c["poll_interval"] \in Durations
PROOF
  <1>1. \A v : /\ KeyTyped("debug_level", v) => v \in Int
               /\ KeyTyped("poll_interval", v) => v \in Durations
    BY DEF KeyTyped
  <1>2. /\ "debug_level" \in DOMAIN c => c["debug_level"] \in Int
        /\ "poll_interval" \in DOMAIN c => c["poll_interval"] \in Durations
    BY <1>1, Zenon DEF IsConfig
  <1>3. 0 \in Int
    OBVIOUS
  <1> QED
    BY <1>2, <1>3, Zenon DEF Get, Given

(* The machine's product is an int, and the product if that is one. *)
LEMMA WrapType ==
  ASSUME NEW x \in Int
  PROVE  /\ Wrap(x) \in -MaxInt - 1 .. MaxInt
         /\ x \in -MaxInt - 1 .. MaxInt => Wrap(x) = x
PROOF
  <1>1. MaxInt \in Nat
    BY ValuesAssumption
  <1> DEFINE m == 2 * (MaxInt + 1)
             y == x + MaxInt + 1
  <1>2. m \in Nat /\ m > 0 /\ y \in Int
    BY <1>1
  <1>3. y % m \in 0 .. m - 1
    <2> HIDE DEF m, y
    <2> QED
      BY <1>2
  <1>4. y \in 0 .. m - 1 => y % m = y
    <2> HIDE DEF m, y
    <2> QED
      BY <1>2
  <1>5. /\ Wrap(x) = (y % m) - (MaxInt + 1)
        /\ m = 2 * (MaxInt + 1) /\ y = x + MaxInt + 1
    BY DEF Wrap
  <1> HIDE DEF m, y
  <1> QED
    BY <1>1, <1>3, <1>4, <1>5

(* GetDuration returns an int. *)
LEMMA DurationType ==
  ASSUME NEW c, IsConfig(c), NEW default \in -MaxInt - 1 .. MaxInt
  PROVE  GetDuration(c, default) \in -MaxInt - 1 .. MaxInt
PROOF
  <1>1. ASSUME NEW d \in Durations PROVE d.n * Multiplier(d.suffix) \in Int
    <2>1. {1, Second, Minute, Hour} \subseteq Int
      BY ValuesAssumption
    <2>2. Multiplier(d.suffix) \in Int
      BY <2>1, Zenon DEF Multiplier
    <2>3. d.n \in Int
      BY DEF Durations
    <2> QED
      BY <2>2, <2>3
  <1>2. Given(c, "poll_interval")
          => Wrap(c["poll_interval"].n * Multiplier(c["poll_interval"].suffix))
               \in -MaxInt - 1 .. MaxInt
    BY <1>1, ValueTypes, WrapType, Zenon
  <1> QED
    BY <1>2, Zenon DEF GetDuration

LEMMA FlagType ==
  ASSUME NEW c, NEW default \in BOOLEAN
  PROVE  GetFlag(c, default) \in BOOLEAN
  BY Zenon DEF GetFlag

(* What is read is typed, and so are the settings that are taken from it.  *)
TypeInv ==
  /\ IsConfig(cfg) /\ IsConfig(overrides)
  /\ environ \in Environs /\ foreground \in BOOLEAN
  /\ settings.poll \in -MaxInt - 1 .. MaxInt
  /\ settings.console \in BOOLEAN
  /\ DatabaseOK(settings.db)

(* A configuration that was read is typed. *)
LEMMA ReadType ==
  ASSUME NEW f \in ConfigFiles, NEW secret \in Read(TRUE) \cup Read(FALSE),
         NEW secretEnv \in Read(TRUE) \cup Read(FALSE), environ \in Environs, IsConfig(overrides)
  PROVE  IsConfig(Override(Load(f, secret, secretEnv)))
PROOF
  <1>1. /\ secret \in STRING \cup {Unset} /\ secretEnv \in STRING \cup {Unset}
        /\ environ.name \in STRING \cup {Unset}
    BY ValuesAssumption DEF Read
  <1>2. IsConfig(f)
    BY ConfigFilesAssumption, Zenon
  <1> QED
    BY <1>1, <1>2, LoadType, OverrideType, Zenon

LEMMA TypeInit ==
  ASSUME Init
  PROVE  TypeInv
PROOF
  <1>1. environ \in Environs /\ IsConfig(overrides) /\ foreground \in BOOLEAN
    BY ConfigFilesAssumption, Zenon DEF Init
  <1>2. IsConfig(cfg)
    <2>1. PICK f \in ConfigFiles, secret \in Read(TRUE) \cup Read(FALSE) :
            cfg = Override(Load(f, secret, fromEnv))
      BY Zenon DEF Init, Read
    <2>2. fromEnv \in Read(TRUE) \cup Read(FALSE)
      BY Zenon DEF Init, Read
    <2> QED
      BY <1>1, <2>1, <2>2, ReadType, Zenon
  <1>3. /\ settings.db = StartDatabase(cfg) /\ settings.poll = GetDuration(cfg, DefaultPoll)
        /\ settings.console = GetFlag(cfg, foreground)
    BY Zenon DEF Init, Started
  <1>4. DefaultPoll \in -MaxInt - 1 .. MaxInt
    BY ValuesAssumption
  <1>5. settings.poll \in -MaxInt - 1 .. MaxInt
    BY <1>2, <1>3, <1>4, DurationType, Zenon
  <1>6. settings.console \in BOOLEAN
    BY <1>1, <1>3, FlagType, Zenon
  <1>7. DatabaseOK(settings.db)
    BY <1>3, DatabaseIsOK, Zenon DEF StartDatabase
  <1> QED
    BY <1>1, <1>2, <1>5, <1>6, <1>7, Zenon DEF TypeInv

LEMMA TypeNext ==
  ASSUME TypeInv, NEW f \in ConfigFiles, NEW secret \in Read(TRUE) \cup Read(FALSE),
         NEW secretEnv \in Read(TRUE) \cup Read(FALSE), Reload(f, secret, secretEnv)
  PROVE  TypeInv'
PROOF
  <1>1. /\ overrides' = overrides /\ environ' = environ /\ foreground' = foreground
        /\ cfg' = Override(Load(f, secret, secretEnv))
    BY Zenon DEF Reload, start
  <1>2. IsConfig(cfg')
    BY <1>1, ReadType, Zenon DEF TypeInv
  <1>3. /\ settings'.db = ReloadDatabase(cfg', settings.db)
        /\ settings'.poll = GetDuration(cfg', settings.poll)
        /\ settings'.console = GetFlag(cfg', settings.console)
    BY Zenon DEF Reload, Reloaded
  <1>4. settings'.poll \in -MaxInt - 1 .. MaxInt
    BY <1>2, <1>3, DurationType, Zenon DEF TypeInv
  <1>5. settings'.console \in BOOLEAN
    BY <1>3, FlagType, Zenon DEF TypeInv
  <1>6. DatabaseOK(settings'.db)
    BY <1>3, DatabaseIsOK, Zenon DEF ReloadDatabase
  <1> QED
    BY <1>1, <1>2, <1>4, <1>5, <1>6, Zenon DEF TypeInv

(* Whatever is read at a start or a reload has its type, and so have the   *)
(* settings taken from it.                                                 *)
THEOREM TypesKept ==
  Spec => []TypeInv
PROOF
  <1>1. Init => TypeInv
    BY TypeInit
  <1>2. TypeInv /\ [Next]_vars => TypeInv'
    <2>1. TypeInv /\ UNCHANGED vars => TypeInv'
      BY Zenon DEF TypeInv, vars, start
    <2>2. TypeInv /\ Next => TypeInv'
      <3>1. \A given : Read(given) \subseteq Read(TRUE) \cup Read(FALSE)
        BY Zenon DEF Read
      <3> QED
        BY <3>1, TypeNext, Zenon DEF Next
    <2> QED
      BY <2>1, <2>2
  <1> QED
    BY <1>1, <1>2, PTL DEF Spec

(* Every setting has its type, an interval fits in an int, and no reload   *)
(* mixes the settings of a server with SQLite.                             *)
THEOREM SettingsAreOK ==
  Spec => []SettingsOK
PROOF
  <1>1. TypeInv /\ Settled => SettingsOK
    <2> SUFFICES ASSUME TypeInv, Settled PROVE SettingsOK
      OBVIOUS
    <2>1. settings.debug \in Int
      BY ValueTypes, Zenon DEF TypeInv, Settled
    <2> QED
      BY <2>1, Zenon DEF TypeInv, DatabaseOK, SettingsOK
  <1> QED
    BY <1>1, TypesKept, SettingsAreSettled, PTL

(* An interval in one of the units of GetDuration, or in none, has the     *)
(* length it says, if an int can hold it, after every reload, too.         *)
THEOREM IntervalStaysAsWritten ==
  Spec => []IntervalAsWritten
PROOF
  <1>1. ASSUME NEW d \in Durations, NEW unit,
               \/ d.suffix \in {"", "ms"} /\ unit = 1
               \/ d.suffix = "s" /\ unit = Second
               \/ d.suffix = "m" /\ unit = Minute
               \/ d.suffix \in {"hr", "h"} /\ unit = Hour,
               d.n * unit \in 1 .. MaxInt
        PROVE  /\ Parsed(d)
               /\ Wrap(d.n * Multiplier(d.suffix)) = d.n * unit
    <2>1. d.suffix \in {"", "ms", "s", "m", "hr", "h"}
      BY <1>1
    <2>2. unit = Multiplier(d.suffix)
      BY <1>1 DEF Multiplier
    <2>3. PICK u \in 1 .. MaxInt : u = Multiplier(d.suffix)
      <3>1. {1, Second, Minute, Hour} \subseteq 1 .. MaxInt
        BY ValuesAssumption
      <3> QED
        BY <3>1, Zenon DEF Multiplier
    <2>4. d.n \in Int /\ d.n * u \in 1 .. MaxInt
      BY <1>1, <2>2, <2>3 DEF Durations
    <2>5. d.n \in 1 .. MaxInt
      <3>1. d.n <= 0 => d.n * u <= 0
        BY <2>4
      <3>2. d.n > 0 => d.n <= d.n * u
        BY <2>4
      <3>3. PICK p \in 1 .. MaxInt : p = d.n * u
        BY <2>4
      <3>4. MaxInt \in Nat
        BY ValuesAssumption
      <3> QED
        BY <2>4, <3>1, <3>2, <3>3, <3>4
    <2>6. Wrap(d.n * u) = d.n * u
      <3>1. d.n * u \in -MaxInt - 1 .. MaxInt
        BY <2>4, ValuesAssumption
      <3> QED
        BY <3>1, WrapType
    <2>7. Parsed(d)
      <3>1. d.suffix # "junk"
        BY <2>1
      <3>2. d.n \in -MaxInt - 1 .. MaxInt
        BY <2>5, ValuesAssumption
      <3> QED
        BY <3>1, <3>2, Zenon DEF Parsed
    <2> QED
      BY <2>2, <2>3, <2>6, <2>7, Zenon
  <1>2. TypeInv /\ Settled => IntervalAsWritten
    <2> SUFFICES ASSUME TypeInv, Settled, NEW unit \in {<<"", 1>>, <<"ms", 1>>, <<"s", Second>>,
                          <<"m", Minute>>, <<"hr", Hour>>, <<"h", Hour>>},
                        Given(cfg, "poll_interval"), cfg["poll_interval"].suffix = unit[1],
                        cfg["poll_interval"].n * unit[2] \in 1 .. MaxInt
                 PROVE  settings.poll = cfg["poll_interval"].n * unit[2]
      BY Zenon DEF IntervalAsWritten
    <2>1. cfg["poll_interval"] \in Durations
      BY ValueTypes, Zenon DEF TypeInv
    <2>2. settings.poll = GetDuration(cfg, settings.poll)
      BY Zenon DEF Settled
    <2>3. \/ unit[1] \in {"", "ms"} /\ unit[2] = 1
          \/ unit[1] = "s" /\ unit[2] = Second
          \/ unit[1] = "m" /\ unit[2] = Minute
          \/ unit[1] \in {"hr", "h"} /\ unit[2] = Hour
      <3>1. CASE unit = <<"", 1>>
        BY <3>1
      <3>5. CASE unit = <<"ms", 1>>
        BY <3>5
      <3>2. CASE unit = <<"s", Second>>
        BY <3>2
      <3>3. CASE unit = <<"m", Minute>>
        BY <3>3
      <3>4. CASE unit = <<"hr", Hour>>
        BY <3>4
      <3>6. CASE unit = <<"h", Hour>>
        BY <3>6
      <3> QED
        BY <3>1, <3>2, <3>3, <3>4, <3>5, <3>6, Zenon
    <2> QED
      BY <1>1, <2>1, <2>2, <2>3, Zenon DEF GetDuration
  <1> QED
    BY <1>2, TypesKept, SettingsAreSettled, PTL
=============================================================================
