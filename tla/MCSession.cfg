SPECIFICATION SessionFairSpec
CONSTANTS
  Packets <- mcPackets
  KnownTypes <- mcKnownTypes
  ProcessorMap <- mcProcessorMap
  ClientProcessorMap <- mcClientProcessorMap
  GarbageLen <- mcGarbageLen
  TEMP_BUFFER_SIZE = 6
  Magic = 100
  SizeMod = 1000
  DefaultBlock = 50
  MaxPackets = 2
  MaxTransfer = 24
  Backpressure = FALSE
  MaxInflight = 0
INVARIANTS AnswersMatch
PROPERTIES ImplementsExchange RequestAnswered
CHECK_DEADLOCK FALSE
