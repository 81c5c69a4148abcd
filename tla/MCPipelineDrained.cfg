SPECIFICATION Spec
CONSTANTS
    MaxFetch = 3
    Instr <- MCInstr
INVARIANT
    NeverOvertaken
