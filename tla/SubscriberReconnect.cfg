SPECIFICATION FairSpec
CONSTANTS
  Subject = {s1}
  Invalid = {}
  Fn = {f1}
  Opt = {o1, o2}
  Task = {t1, t2}
  None = None
  MaxSends = 1
  MaxMsgs = 1
  Sends = {"NewConfig"}
  Events = {}
CHECK_DEADLOCK FALSE
PROPERTIES
  HeardIsProcessed
