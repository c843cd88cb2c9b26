SPECIFICATION Spec
CONSTANTS
  Subject = {s1, s2}
  Invalid = {s2}
  Fn = {f1}
  Opt = {o1, o2}
  Task = {t1, t2, t3}
  None = None
  MaxSends = 2
  MaxMsgs = 1
  Sends = {"Subscribe", "Unsubscribe", "NewConfig"}
  Events = {"Exit", "Replica", "DropFunction", "RestoreFails", "ConnectFails", "WriteFails", "AnnounceFails"}
SYMMETRY TaskSymmetry
CHECK_DEADLOCK FALSE
INVARIANTS
  TypeOK
  NoStrayTask
  MemoryBacked
  CommandsApplied
  MemoryFollows
PROPERTIES
  CommandsSpec
