--------------------------- MODULE MCConfigReload ---------------------------
(* Instances of ConfigReload for TLC.  The keys of the database are varied *)
(* together, the others one at a time: no setting is taken from both.      *)
EXTENDS ConfigReload, TLC

Choices(k) ==
  CASE k = "DatabaseType" -> {"mysql", "sqlite", "oracle"}
    [] k = "username" -> {"root"}
    [] k = "host" -> {"db1"}
    [] k = "dbname" -> {"scastd"}
    [] k = "sqlite_path" -> {"a.db"}

(* Every way to give the keys ks or to leave them out. *)
Partial(ks) ==
  UNION {{f \in [given -> UNION {Choices(k) : k \in ks}] : \A k \in given : f[k] \in Choices(k)} :
           given \in SUBSET ks}

DatabaseFiles == Partial({"DatabaseType", "username", "host", "dbname", "sqlite_path"})

Intervals ==
  [n : {9}, suffix : Suffixes \ {"hr"}] \cup [n : {5}, suffix : {"hr"}]
  \cup [n : {-1, 200}, suffix : {"ms"}]

OtherFiles ==
  {"poll_interval" :> d : d \in Intervals}
  \cup {"log_console" :> v : v \in {"true", "perhaps"}}
  \cup {"debug_level" :> 2, "log_dir" :> "/tmp"}
  \cup {"username_file" :> "f", "username_file" :> "f" @@ "username" :> "root"}

MCConfigFiles == DatabaseFiles \cup OtherFiles

MCOverrideSets == {<<>>, "username" :> "admin" @@ "host" :> "db2"}

MCSecrets == {"", "sue"}

MCEnvirons ==
  {[file |-> FALSE, name |-> Unset], [file |-> TRUE, name |-> Unset],
   [file |-> FALSE, name |-> ""], [file |-> TRUE, name |-> "eve"]}
=============================================================================
