CONSTANTS
  NL = "NL"
  Files <- MCFiles
SPECIFICATION Spec
INVARIANT EveryLineInstalled
