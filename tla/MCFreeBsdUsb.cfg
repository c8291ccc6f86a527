CONSTANTS
  MaxArrive = 3
  PeekCap = 1
  Lens <- MCLens
  Timeouts <- MCTimeouts
  Msg <- MCMsg
SPECIFICATION FairSpec
PROPERTY StreamRefined
PROPERTY EveryByteTaken
CHECK_DEADLOCK FALSE
