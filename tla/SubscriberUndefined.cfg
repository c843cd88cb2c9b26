SPECIFICATION FairSpec
CONSTANTS
  Subject = {s1}
  Invalid = {}
  Fn = {f1}
  Opt = {o1}
  Task = {t1, t2}
  None = None
  MaxSends = 0
  MaxMsgs = 2
  Sends = {}
  Events = {"BodyUndefined"}
CHECK_DEADLOCK FALSE
PROPERTIES
  StoredIsSubscribed
