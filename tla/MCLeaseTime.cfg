CONSTANTS
  h1 = h1 h2 = h2 p1 = p1 p2 = p2 e1 = e1 e2 = e2 t1 = t1 t2 = t2
  Hotkeys = {h1}
  Prompts = {p1}
  Envs = {e1}
  Threads = {t1, t2}
  EnvOf <- MCEnvOf
  Expiry <- MCExpiry
  Reserve <- MCNoReserve
  LaneMax <- MCNoLaneMax
  Targets <- MCNoTarget
  Verdicts = {"in_zone", "too_hard"}
  Draws = {TRUE, FALSE} Lengths = {TRUE, FALSE} AuditResults = {"passed", "failed", "inconclusive"} TrainingResults = {TRUE, FALSE}
  SandboxCauses = {}
  Cooldowns = {0}
  BanLengths = {}
  MaxLag = 0
  RestartGrace = 1 AliveEvery = 1 DowntimeMin = 1 DowntimeKeep = 9 Day = 9
  BoxFailedPerDay = 1 HotkeyMaxOpen = 2 Cap = 9
  Floor = 1 Initial = 1 Ceiling = 1
  Stalls = FALSE
  MaxLeases = 1 MaxCheckpoint = 0 MaxTime = 3 MaxCrashes = 1
SPECIFICATION FairSpec
INVARIANTS
    HeldIsJudged
    SilenceNeverCharged
    OnePayEvent
PROPERTY
    DueLeaseEnds
