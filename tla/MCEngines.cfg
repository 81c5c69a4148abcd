SPECIFICATION EnginesSpec
CONSTANTS
  TMEM_SIZE = 64
  NIBBLE = 2
  DXT_ONE = 8
  LOAD_BLOCK_MAX_TEXELS = 16
  Images <- MCImages
  Descriptors <- MCDescriptors
  Rects <- MCRects
  Tiles = {0}
  MaxCommands = 2
  Mantissas = 4
  Setups <- MCSetups
  Fragments <- MCFragments
  MaxFragments = 2
  ONE = 16
  Width = 5
  Height = 2
  Commands <- MCCommands
  Scissors <- MCScissors
  MaxPrimitives = 2
  DMEM_LEN = 128
  Bases <- MCBases
  Regs0 <- MCRegs
  Dmem0 <- MCDmem
INVARIANTS
  VectorExact
  MovesCompose
  TexelsFound
  NearestWins
  ColorsMix
PROPERTIES
  SamplesAgree
  CoverageExact
  DecalSticks
