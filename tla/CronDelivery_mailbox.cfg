SPECIFICATION Spec
CONSTANTS
  Runs = {1, 2, 3}
  Jobs = {"a", "b"}
  JobOf <- TwoJobs
  Chats = {c1}
  NoChat = NoChat
  NoRun = NoRun
  Sessions = {s1}
  NoSession = NoSession
  Faults = {"relay"}
  MaxAttempts = 3
  MaxEnv = 0
  MaxRestarts = 1
  MaxFaults = 1
PROPERTIES
  KeepsMailbox
CHECK_DEADLOCK FALSE
