CONSTANTS
  h1 = h1 h2 = h2 p1 = p1 p2 = p2 e1 = e1 e2 = e2 t1 = t1 t2 = t2
  Hotkeys = {h1}
  Prompts = {p1}
  Envs = {e1}
  Threads = {t1}
  EnvOf <- MCEnvOf
  Expiry <- MCExpiry
  Reserve <- MCNoReserve
  LaneMax <- MCNoLaneMax
  Targets <- MCNoTarget
  Verdicts = {"too_easy", "in_zone"}
  Draws = {FALSE} Lengths = {TRUE} AuditResults = {} TrainingResults = {}
  SandboxCauses = {}
  Cooldowns = {0, 1}
  BanLengths = {1}
  MaxLag = 0
  RestartGrace = 1 AliveEvery = 9 DowntimeMin = 9 DowntimeKeep = 9 Day = 9
  BoxFailedPerDay = 1 HotkeyMaxOpen = 2 Cap = 1
  Floor = 1 Initial = 2 Ceiling = 2
  Stalls = FALSE
  MaxLeases = 3 MaxCheckpoint = 2 MaxTime = 1 MaxCrashes = 0
SPECIFICATION Spec
INVARIANTS
    TypeOK
    OneGroupPerKey
    OneOpenPerPrompt
    OpenPromptIsLeasable
    BlacklistedIffTwiceEasy
    OneFirstScan
    
