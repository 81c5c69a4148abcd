SPECIFICATION AiSpec
CONSTANTS
  PAGE = 4
  Bases = {0, 2}
  Lengths = {0, 2}
  Step = 2
  Periods = {3, 5}
  Ages = {1, 9}
  MaxResets = 1
INVARIANT NeverStopped
