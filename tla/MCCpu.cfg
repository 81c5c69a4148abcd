SPECIFICATION CpuSpec
CONSTANTS
    MaxFetch = 4
    Instr <- MCInstr
    Words = {4, 5, 12, 13}
    Stored = {4, 5, 12}
    Value = {0, 1}
INVARIANTS
    RetiresInOrder
    WrittenBackMeansVisible
PROPERTIES
    NoStoreLost
