SPECIFICATION Spec
CONSTANTS
  Opt = {o1, o2}
  Name = {n1, n2}
  None = None
  Roots = {TRUE, FALSE}
  MaxConn = 3
INVARIANTS
  NoDrainedHandle
