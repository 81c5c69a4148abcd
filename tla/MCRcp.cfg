SPECIFICATION RcpSpec
CONSTANTS
  MASTER_HZ = 240
  VI_FIELD_HZ = 4
  VI_FIELD_HZ_PAL = 3
  VI_MAX_HALFLINES = 8
  VI_PAL_V_TOTAL_THRESHOLD = 5
  Totals = {2, 7}
  Intrs = {1, 6}
  Deltas = {3, 7}
  MaxNow = 60
  PAGE = 4
  Bases = {0, 2}
  Lengths = {0, 2}
  Step = 2
  Periods = {3, 5}
  Ages = {1, 9}
  MaxResets = 1
  Ops = {"rect", "sync_full", "sync_pipe"}
  SYNC_FULL = "sync_full"
  CommandLength <- MCLength
  CommandStall <- MCStall
  Buffers = {1, 6}
  Size = 4
  MaxCommands = 3
  Bits = {1, 2}
  SectorOf <- MCSectorOf
  Rom <- MCRom
  PI_WRITE_CYCLES = 2
  MaxSaves = 2
INVARIANTS
  ScanIsTime
  OneInterruptPerLanding
  PlaysWhatWasQueued
  InOrderOnce
  SavedIsRead
  ChainDelivers
PROPERTIES
  QueuesDrain
