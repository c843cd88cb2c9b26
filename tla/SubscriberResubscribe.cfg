SPECIFICATION Spec
CONSTANTS
  Subject = {s1}
  Invalid = {}
  Fn = {f1}
  Opt = {o1}
  Task = {t1, t2}
  None = None
  MaxSends = 2
  MaxMsgs = 2
  Sends = {"Subscribe", "Unsubscribe"}
  Events = {}
CHECK_DEADLOCK FALSE
INVARIANTS
  CalledInOrder
