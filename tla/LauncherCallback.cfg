SPECIFICATION CallbackSpecInstalled
CONSTANTS
  Db = {d1}
  Worker = {w1}
  NoWorker = NoWorker
  Backend = {b1, b2}
  MaxBus = 4
  MaxTries = 2
  MaxCmds = 3
  Faults = {}
  Changes = {}
CHECK_DEADLOCK FALSE
PROPERTIES
  CallReturns
