SPECIFICATION RouteSpec
CONSTANTS
  Packets <- mcTwoPackets
  KnownTypes <- mcKnownTypes
  ProcessorMap <- mcProcessorMap
  GarbageLen <- mcReusedLen
  TEMP_BUFFER_SIZE = 6
  Magic = 100
  SizeMod = 1000
  DefaultBlock = 50
  MaxPackets = 3
INVARIANTS RouteTypeOK DispatchedInOrder
