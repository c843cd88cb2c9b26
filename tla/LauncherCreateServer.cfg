SPECIFICATION FairSpec
CONSTANTS
  Db = {d1}
  Worker = {w1, w2, w3}
  NoWorker = NoWorker
  Backend = {b1}
  MaxBus = 4
  MaxTries = 2
  MaxCmds = 1
  Faults = {}
  Changes = {}
CHECK_DEADLOCK FALSE
PROPERTIES
  ServerServed
