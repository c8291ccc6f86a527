CONSTANTS
  MaxArrive = 3
  PeekCap = 1
  Junk = Junk
  Lens <- MCLens
  Timeouts <- MCTimeouts
  Msg <- MCMsg
SPECIFICATION Spec
INVARIANT NoFault
CHECK_DEADLOCK FALSE
