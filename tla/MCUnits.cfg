SPECIFICATION UnitsSpec
CONSTANTS
  Modulus = 7
  MaxStall = 4
  N = 2
  Va <- MCVa
  LoPairs <- MCLoPairs
  Asid = {0, 1}
  Wireds = {1, 3}
  Modes <- MCModes
  MaxWrites = 4
  F32 <- MCF32
  F64 <- MCF64
  Guard = 4
  Norm = 8
  WordBits = 4
  LongBits = 6
  LongTop = 3
  Conds <- MCConds
  FcsrWrites <- MCFcsrWrites
  PIF_RAM_LEN = 16
  Ports = 1
  PakBlock = 2
  EepromBlock = 3
  ButtonWords <- MCButtonWords
  Blocks = {0, 1}
  Contents = {165}
  MaxItems = 3
  MaxFrames = 2
  Words = 4
  SpAddrs = {1, 2}
  RamAddrs = {3}
  MaxMoves = 2
INVARIANTS
  TimerExact
  ServesHandler
  Rounded
  TrapOrCommit
  SharedSp
  RepliesArrive
