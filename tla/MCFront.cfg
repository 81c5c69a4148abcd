SPECIFICATION FrontSpec
CONSTANTS
  PERIOD = 3
  MAX_CATCHUP_FRAMES = 3
  Capacity = 5
  PerFrame = 2
  Pulls = {1, 3}
  MaxNow = 16
  Frames = {"a", "b", "c"}
  EmptyFrame = "empty"
  BlackFrame = "black"
  Geometry <- MCGeometry
  MaxActions = 3
  Roms = {"rom"}
  NoRom = "none"
  Interval = 2
  RingCapacity = 2
  AheadFrames = 1
  MaxPos = 7
  MaxUserActions = 4
INVARIANTS
  NeverFast
  SlowCoreYields
  HeardInOrder
  BytesMatchDims
  OldFramesDropped
  RewindsInOrder
PROPERTIES
  RefinesMailbox
  JoinReturns
  RunAheadUnseen
