SPECIFICATION SafetySpec
CONSTANTS
  Runs = {1, 2}
  Jobs = {"a"}
  JobOf <- OneJob
  Chats = {c1}
  NoChat = NoChat
  NoRun = NoRun
  Sessions = {s1, s2}
  NoSession = NoSession
  Faults = {"query", "mark", "relay", "send"}
  MaxAttempts = 3
  MaxEnv = 2
  MaxRestarts = 1
  MaxFaults = 1
INVARIANTS
  SentTwiceOnlyAfterDeath
  UpgradeExcludesDelivery
  SessionExclusive
CHECK_DEADLOCK FALSE
