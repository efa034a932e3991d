SPECIFICATION Spec
CONSTANTS
  Files = {"f"}
  Dirs = {"d"}
  Parts = {"p"}
  Versions = {"v", "w"}
  Torn = Torn
  Missing = Missing
  Users = {"u1", "u2", "u3"}
  Groups = {"g"}
  Clis = {"k"}
  Legacy = {"u1", "u2"}
  NoFile = NoFile
  ChatRequests <- SomeRequests
  CliRequests <- SomeCliRequests
  Models = {"default", "sonnet"}
  Clickers = {"c1", "c2"}
  NoModel = NoModel
  Tasks = {"cron"}
  MaxEvents = 2
INVARIANTS
  LinksResolve
  FilesWhole
  PersistedFirst
  MemoryFollowsFile
  CellIsTheFiles
PROPERTIES
  CliChangesOneEntry
  ShutdownEnds
  SettlesWithHost
CHECK_DEADLOCK FALSE
