SPECIFICATION Spec
CONSTANTS
  Db = {d1}
  Worker = {w1, w2, w3}
  NoWorker = NoWorker
  Backend = {b1}
  MaxBus = 6
  MaxTries = 1
  MaxCmds = 6
  Faults = {}
  Changes = {"NoForeignServer"}
SYMMETRY Symmetry
CHECK_DEADLOCK FALSE
INVARIANTS
  NeverOvertaken
