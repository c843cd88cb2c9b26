SPECIFICATION Spec
CONSTANTS
  Db = {d1, d2}
  Worker = {w1, w2}
  NoWorker = NoWorker
  Backend = {b1}
  MaxBus = 2
  MaxTries = 1
  MaxCmds = 2
  Faults = {"ConnectFails", "WorkerCrash", "Sigterm"}
  Changes = {"NoForeignServer", "Abort"}
SYMMETRY Symmetry
CHECK_DEADLOCK FALSE
INVARIANTS
  TypeOK
  EntriesConsistent
  ReapsOnlySignalled
  OneRunning
  DeliveredInOrder
  Routed
  OneActive
