SPECIFICATION ConnFairSpec
CONSTANTS
  Packets <- mcPackets
  KnownTypes <- mcKnownTypes
  ProcessorMap <- mcProcessorMap
  GarbageLen <- mcGarbageLen
  TEMP_BUFFER_SIZE = 6
  Magic = 100
  SizeMod = 1000
  DefaultBlock = 50
  MaxPackets = 2
  MaxTransfer = 20
  Backpressure = TRUE
  MaxInflight = 2
PROPERTIES AfterError LostAfterClose RequestProcessed
CHECK_DEADLOCK FALSE
