SPECIFICATION FloodSpec
CONSTANTS
  Subject = {s1}
  Invalid = {}
  Fn = {f1}
  Opt = {o1}
  Task = {t1, t2}
  None = None
  MaxSends = 0
  MaxMsgs = 1
  Sends = {}
  Events = {"DropFunction"}
CHECK_DEADLOCK FALSE
PROPERTIES
  LoopReturns
