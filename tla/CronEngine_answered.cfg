SPECIFICATION Spec
CONSTANTS
  Jobs = {j1}
  Chats = {c1}
  NoChat = NoChat
  Tasks = {t1, t2}
  NoTask = NoTask
  NoJob = NoJob
  RunIds = {r1, r2}
  NoRunId = NoRunId
  UserKinds = {"RunAt"}
  UserOps = {"enqueue"}
  Faults = {}
  PromptStart = TRUE
  MaxEdits = 1
  MaxUpgrades = 0
  MaxRestarts = 2
PROPERTIES
  BackgroundAnswered
