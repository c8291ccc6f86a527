CONSTANTS
  MaxArrive = 3
  PeekCap = 1
  Junk = Junk
  Lens <- MCLens
  Timeouts <- MCTimeouts
  Msg <- MCMsg
SPECIFICATION Spec
INVARIANT WriteSendsMessage
CHECK_DEADLOCK FALSE
