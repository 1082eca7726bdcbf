SPECIFICATION HostSpec
CONSTANTS
  Keys = {k1, k2, k3}
  NoKey = NoKey
  Corrupt = Corrupt
  Procs = {core, gateway}
  Recorders = {core}
  FileHosts = {core, gateway}
  EnvKeys = {}
  MAX_RETIRED_KEYS = 1
  AppProc = gateway
  MaxAppStarts = 0
  MaxStarts = 2
  MaxCommands = 0
  MaxLosses = 0
SYMMETRY KeySymmetry
CHECK_DEADLOCK FALSE
INVARIANT SealingKeysSurviveRaces
