SPECIFICATION SchedulersSpec
CONSTANTS
  MaxTick = 15
  MaxSpan = 13
  LastTick = 16
  MaxCost = 3
  Compares = {1, 3}
INVARIANTS
  Residues
  OvershootBounded
  InterruptsInTime
PROPERTIES
  NoOvershoot
  RefinesLockstep
  WitnessHonest
  RunTerminates
