SPECIFICATION RouteFairSpec
CONSTANTS
  Packets <- mcPackets
  KnownTypes <- mcKnownTypes
  ProcessorMap <- mcProcessorMap
  GarbageLen <- mcGarbageLen
  TEMP_BUFFER_SIZE = 6
  Magic = 100
  SizeMod = 1000
  DefaultBlock = 50
  MaxPackets = 3
INVARIANTS Aligned NoneSkipped
PROPERTY ImplementsChannel
