SPECIFICATION Spec
CONSTANTS
  Db = {d1}
  Worker = {w1, w2, w3}
  NoWorker = NoWorker
  Backend = {b1}
  MaxBus = 4
  MaxTries = 1
  MaxCmds = 2
  Faults = {"Sigterm"}
  Changes = {}
SYMMETRY Symmetry
CHECK_DEADLOCK FALSE
INVARIANTS
  StopsLast
