CONSTANTS
  Messages <- MCMessages
  MAX_PKG_SIZE = 10
  MaxSent = 3
  MaxCuts = 2
CHECK_DEADLOCK FALSE
SPECIFICATION Spec
INVARIANTS FirstMessageWins AsSentIfNeverShorter
