---------------------------- MODULE ConfigReload ----------------------------
(***************************************************************************)
(* What scastd makes of its configuration: how Config::Load puts a file,   *)
(* secrets and the environment together (src/src/Config.cpp), how run()    *)
(* takes its settings from it when it starts and when SIGHUP asks for a    *)
(* reload (src/src/scastd.cpp 424-536 and 585-690).                        *)
(*                                                                         *)
(* A configuration is a function from the keys that are given to their     *)
(* values.  The password is read, kept and cleared like the user name; the *)
(* port and sslmode are kept and cleared with them.                        *)
(***************************************************************************)
EXTENDS Integers

CONSTANTS
  ConfigFiles,          (* the files the operator may write                 *)
  OverrideSets,         (* the options the daemon may be given              *)
  Secrets,              (* the first lines that a secret file may have      *)
  Environs,             (* the environments the daemon may be started in    *)
  Unset,                (* no such variable, or a file that gives no line   *)
  DefaultPath,          (* /etc/scastd/scastd.db                            *)
  DefaultDir,           (* /var/log/scastd                                  *)
  DefaultPoll,          (* 60000                                            *)
  Second, Minute, Hour, (* the factors of GetDuration                       *)
  MaxInt                (* the largest int                                  *)

Keys ==
  {"DatabaseType", "username", "host", "dbname", "sqlite_path", "username_file",
   "poll_interval", "log_console", "debug_level", "log_dir"}

(* An integer and the letters after it; "junk" is a value that does not    *)
(* begin with one.                                                         *)
Suffixes == {"", "ms", "s", "m", "hr", "h", "min", "mins", "junk"}
Durations == [n : Int, suffix : Suffixes]

KeyTyped(k, v) ==
  CASE k = "poll_interval" -> v \in Durations
    [] k = "debug_level" -> v \in Int
    [] OTHER -> v \in STRING

IsConfig(c) ==
  /\ c = [k \in DOMAIN c |-> c[k]]
  /\ DOMAIN c \subseteq Keys
  /\ \A k \in DOMAIN c : KeyTyped(k, c[k])

ASSUME ConfigFilesAssumption ==
  \A c \in ConfigFiles \cup OverrideSets : IsConfig(c)

ASSUME ValuesAssumption ==
  /\ Unset \notin STRING
  /\ Secrets \subseteq STRING
  /\ Environs \subseteq [file : BOOLEAN, name : STRING \cup {Unset}]
  /\ {DefaultPath, DefaultDir} \subseteq STRING
  /\ {DefaultPoll, Second, Minute, Hour} \subseteq 1 .. MaxInt
  /\ MaxInt \in Nat

VARIABLES
  environ,      (* whether SCASTD_USERNAME_FILE is set, and SCASTD_USERNAME *)
  overrides,    (* the options of the command line                          *)
  foreground,   (* defaultConsoleLog: not a daemon                          *)
  cfg,          (* the configuration that was read last                     *)
  fromEnv,      (* history: what SCASTD_USERNAME_FILE gave then             *)
  settings      (* the variables of run() that are taken from it            *)

start == <<environ, overrides, foreground>>
vars == <<start, cfg, fromEnv, settings>>

Given(c, k) == k \in DOMAIN c

Get(c, k, default) == IF Given(c, k) THEN c[k] ELSE default

Put(c, k, v) == [x \in DOMAIN c \cup {k} |-> IF x = k THEN v ELSE c[x]]

(* What a secret file gives; one that is not asked for gives nothing. *)
Read(asked) == IF asked THEN Secrets \cup {Unset} ELSE {Unset}

PutName(c, v) == IF v = Unset THEN c ELSE Put(c, "username", v)

(* The later source replaces what the earlier one gave; one that is there  *)
(* and empty gives the empty name.                                         *)
Load_Bug(f, secret, secretEnv) == \* an empty line gives nothing
  LET Filled(v) == IF v = "" THEN Unset ELSE v
  IN PutName(PutName(PutName(f, Filled(secret)), Filled(secretEnv)), environ.name)

Load(f, secret, secretEnv) ==
  PutName(PutName(PutName(f, secret), secretEnv), environ.name)

Override(c) ==
  [k \in DOMAIN c \cup DOMAIN overrides |-> IF Given(overrides, k) THEN overrides[k] ELSE c[k]]

----------------------------------------------------------------------------
(* Config::GetDuration: which suffix is looked for first matters.          *)
Multiplier_Bug(suffix) == \* "s" is looked for before "ms"
  CASE suffix \in {"ms", "s", "mins"} -> Second
    [] suffix = "m" -> Minute
    [] suffix \in {"hr", "h"} -> Hour
    [] OTHER -> 1

Multiplier(suffix) ==
  CASE suffix \in {"s", "mins"} -> Second
    [] suffix = "m" -> Minute
    [] suffix \in {"hr", "h"} -> Hour
    [] OTHER -> 1

(* int base * multiplier, as the machine wraps it *)
Wrap(x) == ((x + MaxInt + 1) % (2 * (MaxInt + 1))) - (MaxInt + 1)

(* stoi throws for a value that is no number or too large. *)
Parsed(d) == d.suffix # "junk" /\ d.n \in -MaxInt - 1 .. MaxInt

GetDuration(c, default) ==
  IF Given(c, "poll_interval") /\ Parsed(c["poll_interval"])
    THEN Wrap(c["poll_interval"].n * Multiplier(c["poll_interval"].suffix))
    ELSE default

GetFlag(c, default) ==
  IF Get(c, "log_console", "") \in {"true", "false"} THEN c["log_console"] = "true" ELSE default

----------------------------------------------------------------------------
(* The choice of the database, which start and reload write out twice, the *)
(* fallback for a type that is not known included.                         *)
Known == {"mysql", "mariadb", "postgres", "sqlite"}

UsesSqlite(type, user, host, name) ==
  type = "sqlite" \/ user = "" \/ host = "" \/ name = ""

Database(type, user, host, name, path) ==
  IF UsesSqlite(type, user, host, name) \/ type \notin Known
    THEN [type |-> "sqlite", user |-> "", host |-> "", name |-> path]
    ELSE [type |-> type, user |-> user, host |-> host, name |-> name]

StartDatabase(c) ==
  Database(Get(c, "DatabaseType", ""), Get(c, "username", ""), Get(c, "host", ""),
           Get(c, "dbname", ""), Get(c, "sqlite_path", DefaultPath))

ReloadDatabase_Half_Bug(c, db) == \* the fallback forgets to clear the host
  LET new == Database(Get(c, "DatabaseType", db.type), Get(c, "username", db.user),
                      Get(c, "host", db.host), Get(c, "dbname", db.name),
                      Get(c, "sqlite_path", db.name))
  IN [new EXCEPT !.host = Get(c, "host", db.host)]

(* In a reload the old settings are the defaults. *)
ReloadDatabase(c, db) ==
  Database(Get(c, "DatabaseType", db.type), Get(c, "username", db.user), Get(c, "host", db.host),
           Get(c, "dbname", db.name), Get(c, "sqlite_path", db.name))

(* statusDir, where the status log is, and what HTTP, the threads and       *)
(* rotation are given are taken when run() starts only; syslog is like the *)
(* debug level.                                                            *)
Started(c) ==
  [db |-> StartDatabase(c), poll |-> GetDuration(c, DefaultPoll),
   console |-> GetFlag(c, foreground), debug |-> Get(c, "debug_level", 0),
   logDir |-> Get(c, "log_dir", DefaultDir), statusDir |-> Get(c, "log_dir", DefaultDir)]

Reloaded_Bug(c, s) == \* the directory of the logs is that of the start
  [db |-> ReloadDatabase(c, s.db), poll |-> GetDuration(c, s.poll),
   console |-> GetFlag(c, s.console), debug |-> Get(c, "debug_level", 0),
   logDir |-> s.statusDir, statusDir |-> s.statusDir]

Reloaded(c, s) ==
  [db |-> ReloadDatabase(c, s.db), poll |-> GetDuration(c, s.poll),
   console |-> GetFlag(c, s.console), debug |-> Get(c, "debug_level", 0),
   logDir |-> Get(c, "log_dir", DefaultDir), statusDir |-> s.statusDir]

----------------------------------------------------------------------------
(* The file and the secrets are read as they are at that moment. *)
Init ==
  /\ environ \in Environs
  /\ overrides \in OverrideSets
  /\ foreground \in BOOLEAN
  /\ fromEnv \in Read(environ.file)
  /\ \E f \in ConfigFiles :
       \E secret \in Read(Given(f, "username_file")) : cfg = Override(Load(f, secret, fromEnv))
  /\ settings = Started(cfg)

(* A file that cannot be opened leaves everything as it is. *)
Reload(f, secret, secretEnv) ==
  /\ cfg' = Override(Load(f, secret, secretEnv))
  /\ fromEnv' = secretEnv
  /\ settings' = Reloaded(cfg', settings)
  /\ UNCHANGED start

Next ==
  \E f \in ConfigFiles :
    \E secret \in Read(Given(f, "username_file")), secretEnv \in Read(environ.file) :
      Reload(f, secret, secretEnv)

Spec == Init /\ [][Next]_vars

----------------------------------------------------------------------------
(* Whatever was configured before, a reload gives what a restart would,    *)
(* each group of settings if its keys are in the file; the debug level and *)
(* the directory of the logs always.                                       *)
ReloadIsRestart ==
  /\ {"DatabaseType", "username", "host", "dbname", "sqlite_path"} \subseteq DOMAIN cfg
       => settings.db = StartDatabase(cfg)
  /\ Given(cfg, "poll_interval") /\ Parsed(cfg["poll_interval"])
       => settings.poll = Started(cfg).poll
  /\ Get(cfg, "log_console", "") \in {"true", "false"}
       => settings.console = Started(cfg).console
  /\ settings.debug = Started(cfg).debug
  /\ settings.logDir = Started(cfg).logDir

(* Every setting has its type, an interval fits in an int, and no reload   *)
(* mixes the settings of a server with SQLite: a server has a user, a host *)
(* and a name, and nothing of them is left with SQLite.                    *)
SettingsOK ==
  /\ IsConfig(cfg) /\ IsConfig(overrides)
  /\ settings.poll \in -MaxInt - 1 .. MaxInt
  /\ {settings.console} \subseteq BOOLEAN
  /\ settings.debug \in Int
  /\ settings.db.type \in Known
  /\ IF settings.db.type = "sqlite"
       THEN settings.db.user = "" /\ settings.db.host = ""
       ELSE "" \notin {settings.db.user, settings.db.host, settings.db.name}

(* A SIGHUP changes nothing if nothing has changed, so that one that comes *)
(* twice does no harm.  Where dbname is not given it may: the path of the  *)
(* SQLite file stands in for it, and the daemon goes over to the server.   *)
ReloadIsIdempotent ==
  [][cfg' = cfg /\ Given(cfg, "dbname") => settings' = settings]_vars

(* After every reload, too, an option of the command line wins; the user  *)
(* name is otherwise that of SCASTD_USERNAME, or what SCASTD_USERNAME_FILE *)
(* held at that reload (docs/CISecrets.md:24), an empty one included,      *)
(* whatever the file and its username_file say; and it is this name that   *)
(* a server is given.                                                      *)
SourcesInOrder ==
  LET inEnvironment ==
        IF environ.name = Unset THEN fromEnv ELSE environ.name
      wanted ==
        IF Given(overrides, "username") THEN overrides["username"] ELSE inEnvironment
  IN /\ \A k \in DOMAIN overrides : Given(cfg, k) /\ cfg[k] = overrides[k]
     /\ wanted # Unset =>
          /\ Get(cfg, "username", Unset) = wanted
          /\ settings.db.type # "sqlite" => settings.db.user = wanted

(* An interval in s or m, which --help names, in ms, hr or h, which the    *)
(* code knows besides, or in none, which are milliseconds, has the length  *)
(* it says, if an int can hold it.                                         *)
IntervalAsWritten ==
  \A unit \in {<<"", 1>>, <<"ms", 1>>, <<"s", Second>>, <<"m", Minute>>,
               <<"hr", Hour>>, <<"h", Hour>>} :
    LET length == cfg["poll_interval"].n * unit[2]
    IN Given(cfg, "poll_interval") /\ cfg["poll_interval"].suffix = unit[1]
         /\ length \in 1 .. MaxInt
       => settings.poll = length
=============================================================================
