SPECIFICATION ConfigSpec
CONSTANTS
  Db = {d1}
  Worker = {w1, w2}
  NoWorker = NoWorker
  Backend = {b1, b2}
  MaxBus = 2
  MaxTries = 1
  MaxCmds = 2
  Faults = {"ConnectFails", "WorkerCrash", "Sigterm"}
  Changes = {"NoForeignServer", "Abort"}
  NotRead = NotRead
  Defaults = Defaults
  Half = 4
CHECK_DEADLOCK FALSE
SYMMETRY ConfigSymmetry
INVARIANTS
  ConfigSettles
