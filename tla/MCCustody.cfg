SPECIFICATION HostSpec
CONSTANTS
  Keys = {k1, k2, k3}
  NoKey = NoKey
  Corrupt = Corrupt
  Procs = {core, gateway}
  Recorders = {core}
  FileHosts = {core, gateway}
  EnvKeys = {k3}
  MAX_RETIRED_KEYS = 1
  AppProc = gateway
  MaxAppStarts = 5
  MaxStarts = 2
  MaxCommands = 1
  MaxLosses = 1
SYMMETRY KeySymmetry
CHECK_DEADLOCK FALSE
INVARIANTS SealingKeysAreHeld OwnerUsesRecordedKey IndexedKeysAreHeld RunsOpenAll
