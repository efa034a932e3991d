SPECIFICATION Spec
CONSTANTS
  Jobs = {j1}
  Chats = {c1}
  NoChat = NoChat
  Tasks = {t1, t2}
  NoTask = NoTask
  NoJob = NoJob
  RunIds = {r1, r2}
  NoRunId = NoRunId
  UserKinds = {"RunAt"}
  UserOps = {"create", "trigger"}
  Faults = {"launch", "logdir", "wait", "parse", "update", "persist", "clear"}
  PromptStart = TRUE
  MaxEdits = 1
  MaxUpgrades = 1
  MaxRestarts = 1
PROPERTIES
  EngineDeletesOnlyFired
  TickKindConsumed
