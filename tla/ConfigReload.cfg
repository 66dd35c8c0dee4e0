CONSTANTS
  ConfigFiles <- MCConfigFiles
  OverrideSets <- MCOverrideSets
  Secrets <- MCSecrets
  Environs <- MCEnvirons
  Unset = Unset
  DefaultPath = "/etc/scastd/scastd.db"
  DefaultDir = "/var/log/scastd"
  DefaultPoll = 6
  Second = 4
  Minute = 6
  Hour = 20
  MaxInt = 127
SPECIFICATION Spec
INVARIANTS
  SettingsOK
  ReloadIsRestart
  SourcesInOrder
  IntervalAsWritten
PROPERTIES
  ReloadIsIdempotent
