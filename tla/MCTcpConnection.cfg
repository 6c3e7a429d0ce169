SPECIFICATION ConnFairSpec
CONSTANTS
  Packets <- mcPackets
  KnownTypes <- mcKnownTypes
  ProcessorMap <- mcProcessorMap
  GarbageLen <- mcGarbageLen
  TEMP_BUFFER_SIZE = 6
  Magic = 100
  SizeMod = 1000
  DefaultBlock = 50
  MaxPackets = 3
  MaxTransfer = 20
  Backpressure = FALSE
  MaxInflight = 0
INVARIANTS ConnTypeOK TxInOrder OneWriteAtATime
PROPERTIES RequestProcessed ReplySent
CHECK_DEADLOCK FALSE
