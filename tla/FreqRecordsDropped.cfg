SPECIFICATION RecSpec
CONSTANTS
  ArraySize = 4
  MaxFreq = 5
  MaxReceived = 5
INVARIANTS
  EveryFileIsListed
