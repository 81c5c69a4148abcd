----------------------------- MODULE MCPipeline -----------------------------
(* A small instance of Pipeline.                                           *)
EXTENDS Pipeline

I(o, s, d) == [op |-> o, src |-> s, dst |-> d]

MCInstr == {I("alu", 1, 1), I("load", 1, 1), I("store", 1, 0), I("mult", 1, 0), I("ll", 0, 1), I("sc", 1, 1),
            I("taken", 1, 0), I("untaken", 1, 0), I("likely", 1, 0), I("jal", 0, 1),
            I("eret", 0, 0), I("syscall", 0, 0), I("fp", 0, 0), I("mtc0", 1, 0)}
=============================================================================
