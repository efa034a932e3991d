SPECIFICATION Spec
CONSTANTS
  Messages = {1, 2}
  WithText = {2}
  Workers = {w1, w2}
  Delivery = Delivery
  Sessions = {s1, s2, s3}
  Mutexes = {m1, m2}
  None = None
  Faults = {"download", "db", "prepare", "spawn", "enqueue", "reflect", "instruct", "token"}
  Commands = {"new"}
  QueueCap = 1
  MaxEvents = 1
PROPERTIES
  KeepsBook
  LoginEnds
CHECK_DEADLOCK FALSE
