SPECIFICATION StatesSpec
CONSTANTS
  Roms = {r1, r2}
  NoRom = NoRom
  Interval = 2
  RingCapacity = 2
  AheadFrames = 1
  MaxPos = 5
  MaxUserActions = 4
INVARIANT SameRom
CHECK_DEADLOCK FALSE
