SPECIFICATION SpecBounded
CONSTANTS
  CAPACITY = 8
  HEADER_SIZE = 2
  Byte <- MCByte
  Msg <- MCMsgFull
  ToLeBytes <- MCToLeBytes
  FromLeBytes <- MCFromLeBytes
  Ok = Ok
  Err = Err
  None = None
  Panic = Panic
  MaxPending = 4
INVARIANTS
  TypeOK
PROPERTIES
  PanicIsPermanent
