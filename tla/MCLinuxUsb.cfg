CONSTANTS
  MaxArrive = 3
  PeekCap = 1
  Junk = Junk
  Lens <- MCLens
  Timeouts <- MCTimeouts
  Msg <- MCMsg
SPECIFICATION FairSpec
INVARIANT TypeOK
PROPERTY EveryByteTaken
CHECK_DEADLOCK FALSE
