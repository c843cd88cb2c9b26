SPECIFICATION SpecNotFull
CONSTANTS
  CAPACITY = 9
  HEADER_SIZE = 2
  Byte <- MCByte
  Msg <- MCMsg
  ToLeBytes <- MCToLeBytes
  FromLeBytes <- MCFromLeBytes
  Ok = Ok
  Err = Err
  None = None
  Panic = Panic
  MaxPending = 4
PROPERTIES
  FifoSpec
