SPECIFICATION SafetySpec
CONSTANTS
  Jobs = {j1}
  Chats = {c1}
  NoChat = NoChat
  Tasks = {t1, t2}
  NoTask = NoTask
  NoJob = NoJob
  RunIds = {r1, r2}
  NoRunId = NoRunId
  UserKinds = {"Recurring", "OneShotCron"}
  UserOps = {"create", "enqueue", "update", "delete"}
  Faults = {"lockfile", "insert", "launch", "logdir", "wait", "parse", "update", "persist", "delete", "clear"}
  PromptStart = FALSE
  MaxEdits = 2
  MaxUpgrades = 1
  MaxRestarts = 1
SYMMETRY Symmetry
INVARIANTS
  OverlapOnlyByBreach
  UpgradeExcludesRuns
  LockHasOwner
PROPERTIES
  OneShotCronFiresOnce
