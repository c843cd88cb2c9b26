SPECIFICATION Spec
CONSTANTS
  Subject = {s1, s2}
  Invalid = {s2}
  Fn = {f1}
  Opt = {o1, o2}
  Task = {t1, t2, t3}
  None = None
  MaxSends = 2
  MaxMsgs = 0
  Sends = {"Subscribe", "NewConfig"}
  Events = {"Replica", "Demote", "DropFunction", "CreateFunction"}
SYMMETRY TaskSymmetry
CHECK_DEADLOCK FALSE
INVARIANTS
  EntryHasTask
  SilentOnReplica
