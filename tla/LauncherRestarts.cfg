SPECIFICATION FairSpecInstalled
CONSTANTS
  Db = {d1}
  Worker = {w1, w2}
  NoWorker = NoWorker
  Backend = {b1}
  MaxBus = 4
  MaxTries = 2
  MaxCmds = 0
  Faults = {"LauncherCrash"}
  Changes = {}
PROPERTIES
  ServerServed
