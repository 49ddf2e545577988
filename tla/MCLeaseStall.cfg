CONSTANTS
  h1 = h1 h2 = h2 p1 = p1 p2 = p2 e1 = e1 e2 = e2 t1 = t1 t2 = t2
  Hotkeys = {h1}
  Prompts = {p1}
  Envs = {e1}
  Threads = {t1}
  EnvOf <- MCEnvOf
  Expiry <- MCExpiry
  Reserve <- MCNoReserve
  LaneMax <- MCNoLaneMax
  Targets <- MCNoTarget
  Verdicts = {"in_zone"}
  Draws = {FALSE} Lengths = {TRUE} AuditResults = {} TrainingResults = {}
  SandboxCauses = {}
  Cooldowns = {0}
  BanLengths = {}
  MaxLag = 0
  RestartGrace = 1 AliveEvery = 1 DowntimeMin = 1 DowntimeKeep = 9 Day = 9
  BoxFailedPerDay = 1 HotkeyMaxOpen = 2 Cap = 9
  Floor = 1 Initial = 1 Ceiling = 1
  Stalls = TRUE
  MaxLeases = 2 MaxCheckpoint = 0 MaxTime = 4 MaxCrashes = 0
SPECIFICATION Spec
INVARIANT SilenceNeverCharged
