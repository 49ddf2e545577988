CONSTANTS
  h1 = h1 h2 = h2 p1 = p1 p2 = p2 e1 = e1 e2 = e2 t1 = t1 t2 = t2
  Hotkeys = {h1, h2}
  Prompts = {p1, p2}
  Envs = {e1, e2}
  Threads = {t1}
  EnvOf <- MCEnvOf
  Expiry <- MCExpiry
  Reserve <- MCReserve
  LaneMax <- MCLaneMax
  Targets <- MCTargets
  Verdicts = {"in_zone", "rejected", "grader_fault"}
  Draws = {FALSE} Lengths = {TRUE} AuditResults = {} TrainingResults = {TRUE}
  SandboxCauses = {"box_failed"}
  Cooldowns = {0}
  BanLengths = {}
  MaxLag = 0
  RestartGrace = 1 AliveEvery = 9 DowntimeMin = 9 DowntimeKeep = 9 Day = 9
  BoxFailedPerDay = 1 HotkeyMaxOpen = 2 Cap = 2
  Floor = 1 Initial = 2 Ceiling = 4
  Stalls = FALSE
  MaxLeases = 3 MaxCheckpoint = 0 MaxTime = 0 MaxCrashes = 0
SPECIFICATION Spec
SYMMETRY Symmetry
INVARIANTS
    InUseIsOpen
    LeasesAccounted
PROPERTY
    GrantWithinQuota
