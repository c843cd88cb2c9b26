SPECIFICATION Spec
CONSTANTS
  Db = {d1}
  Worker = {w1, w2, w3}
  NoWorker = NoWorker
  Backend = {b1}
  MaxBus = 3
  MaxTries = 1
  MaxCmds = 3
  Faults = {}
  Changes = {}
SYMMETRY Symmetry
CHECK_DEADLOCK FALSE
INVARIANTS
  OneServing
