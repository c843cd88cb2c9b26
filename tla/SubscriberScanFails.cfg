SPECIFICATION FairSpec
CONSTANTS
  Subject = {s1}
  Invalid = {}
  Fn = {f1}
  Opt = {o1}
  Task = {t1, t2}
  None = None
  MaxSends = 0
  MaxMsgs = 0
  Sends = {}
  Events = {"Replica", "RestoreFails"}
CHECK_DEADLOCK FALSE
PROPERTIES
  LastAnnouncementTrue
