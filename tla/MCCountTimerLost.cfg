SPECIFICATION Spec
CONSTANTS
  Modulus = 7
  MaxStall = 4
INVARIANTS
  TimerNeverLost
