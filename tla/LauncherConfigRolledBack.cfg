SPECIFICATION ConfigSpec
CONSTANTS
  Db = {d1}
  Worker = {w1, w2}
  NoWorker = NoWorker
  Backend = {b1}
  MaxBus = 4
  MaxTries = 1
  MaxCmds = 2
  Faults = {}
  Changes = {"Abort"}
  NotRead = NotRead
  Defaults = Defaults
  Half = 4
CHECK_DEADLOCK FALSE
INVARIANTS
  RunsCommitted
