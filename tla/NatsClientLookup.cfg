SPECIFICATION ServerSpec
CONSTANTS
  h1 = h1
  ca1 = ca1
  cert1 = cert1
  key1 = key1
  junk = junk
  Written <- MCWritten
  Opt <- ParsedOpt
  Name = {n1}
  None = None
  Roots = {TRUE}
  MaxConn = 2
  DefaultHost = h1
  DefaultPort = 4222
  DefaultCapacity = 128
  U16Max = 65535
  UsizeMax = 2147483647
  LookupFails = TRUE
INVARIANTS
  TlsKept
