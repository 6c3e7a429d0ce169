SPECIFICATION ClientFairSpec
CONSTANTS
  MaxSends = 3
  MaxWrites = 2
INVARIANTS ClientTypeOK OneChainEach SetBeforeRead ChainsUntilClose WrittenInOrder
PROPERTIES CloseJoins StopComesUp EachWritten
