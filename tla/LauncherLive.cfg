SPECIFICATION ConfigFairSpecInstalled
CONSTANTS
  Db = {d1}
  Worker = {w1, w2}
  NoWorker = NoWorker
  Backend = {b1, b2}
  MaxBus = 3
  MaxTries = 2
  MaxCmds = 1
  Faults = {"Sigterm"}
  Changes = {"Abort"}
  NotRead = NotRead
  Defaults = Defaults
  Half = 4
CHECK_DEADLOCK FALSE
INVARIANTS
  ConfigTypeOK
  ConfigSettles
  WorkerKnowsItself
PROPERTIES
  CallReturns
  ServerServed
  ForwardedIsRead
  ShutsDown
