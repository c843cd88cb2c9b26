SPECIFICATION FairSpec
CONSTANTS
  Subject = {s1}
  Invalid = {}
  Fn = {f1, f2}
  Opt = {o1}
  Task = {t1, t2}
  None = None
  MaxSends = 2
  MaxMsgs = 2
  Sends = {"Subscribe"}
  Events = {"Replica", "DropFunction", "Exit"}
CHECK_DEADLOCK FALSE
INVARIANTS
  CalledInOrder
PROPERTIES
  HeardIsProcessed
  StoredIsSubscribed
  LastAnnouncementTrue
