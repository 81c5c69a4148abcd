--------------------------- MODULE DevicesProofs ---------------------------
(***************************************************************************)
(* Proofs about the SP interface (SpInterface) and the PI with its         *)
(* FlashRAM (PiBus): for any size of IMEM, any addresses, any chip and any *)
(* ROM, the properties MCUnits and MCRcp check on a small instance.       *)
(***************************************************************************)
EXTENDS SpInterface, PiBus, TLAPS

-----------------------------------------------------------------------------
(***************************************************************************)
(* The SP interface.  The semaphore is held by the processor that is in a  *)
(* transfer, the latches hold what it wrote so far, and the program counter*)
(* with the branch latch says what the program runs next.                  *)
(***************************************************************************)
OneDriver ==
  \A p \in Procs : spStep[p] # "out" =>
    semaphore /\ \A q \in Procs \ {p} : spStep[q] = "out"

LatchesOwn ==
  \A p \in Procs :
    /\ spStep[p] \in {"sp", "ram"} => pending.sp = wrote[p].sp
    /\ spStep[p] = "ram" => pending.ram = wrote[p].ram

SpInv == SpTypeOK /\ OneDriver /\ LatchesOwn /\ SharedSp

USE DEF Procs, Pcs, NoTarget, Flags, Seq4, AfterDelay, ZeroLatch

\* The instruction after one in IMEM is in IMEM.
LEMMA SeqInMemory ==
  ASSUME SpAssumption, NEW p \in Nat
  PROVE  (p + 1) % Words \in 0 .. Words - 1
<1>1. Words \in Nat /\ Words > 0
  BY DEF SpAssumption
<1>2. \A a \in Nat : a % Words \in 0 .. Words - 1
  BY <1>1
<1> QED  BY <1>2

\* A flag stays a flag whatever a write of SP_STATUS names.
LEMMA AppliedFlags ==
  ASSUME NEW flags \in SUBSET Flags, NEW c \in Commands
  PROVE  Applied(flags, c) \subseteq Flags
<1>1. PICK f \in Flags : c \in [clear : SUBSET {f}, set : SUBSET ({f} \ {"broke"})]
  BY DEF Commands
<1>2. c.set \subseteq Flags
  BY <1>1
<1> QED  BY <1>2 DEF Applied

\* SpInv holds initially.
LEMMA SpInitInv ==
  ASSUME SpAssumption
  PROVE  SpInit => SpInv
<1> SUFFICES ASSUME SpInit PROVE SpInv
  OBVIOUS
<1>1. Words \in Nat /\ Words > 1 /\ (0 + 1) % Words = 1
  BY DEF SpAssumption
<1>2. SpTypeOK
  <2>1. told \in Pcs \X Pcs /\ spPc \in Pcs /\ branch \in Pcs \cup {NoTarget}
    BY <1>1 DEF SpInit
  <2>2. spStatus \subseteq Flags
    BY DEF SpInit
  <2>3. pending \in [sp : Nat, ram : Nat] /\ visible \in [sp : Nat, ram : Nat]
    BY DEF SpInit
  <2>4. wrote \in [Procs -> [sp : Nat, ram : Nat]]
    BY DEF SpInit
  <2>5. spStep \in [Procs -> {"out", "in", "sp", "ram", "done"}]
    BY DEF SpInit
  <2> QED  BY <2>1, <2>2, <2>3, <2>4, <2>5 DEF SpInit, SpTypeOK
<1>3. OneDriver /\ LatchesOwn /\ OwnTransfers
  BY DEF SpInit, OneDriver, LatchesOwn, OwnTransfers
<1>4. ResumesInOrder
  BY <1>1 DEF SpInit, ResumesInOrder
<1> QED  BY <1>2, <1>3, <1>4 DEF SpInv, SharedSp

\* A step of one driver keeps the two drivers' part of SpInv.
LEMMA SpTransferStep ==
  ASSUME SpAssumption, SpTypeOK, OneDriver, LatchesOwn, OwnTransfers,
         NEW p \in Procs, SpTransfer(p)
  PROVE  /\ OneDriver' /\ LatchesOwn' /\ OwnTransfers'
         /\ semaphore' \in BOOLEAN
         /\ pending' \in [sp : Nat, ram : Nat] /\ visible' \in [sp : Nat, ram : Nat]
         /\ wrote' \in [Procs -> [sp : Nat, ram : Nat]]
         /\ spStep' \in [Procs -> {"out", "in", "sp", "ram", "done"}]
<1> USE DEF SpTypeOK, OneDriver, LatchesOwn, OwnTransfers
<1>1. CASE ReadSemaphore(p)
  BY <1>1 DEF ReadSemaphore
<1>2. CASE WriteSpAddr(p)
  BY <1>2 DEF WriteSpAddr, SpAssumption
<1>3. CASE WriteRamAddr(p)
  BY <1>3 DEF WriteRamAddr, SpAssumption
<1>4. CASE WriteSpLength(p)
  <2>1. pending = wrote[p]
    BY <1>4 DEF WriteSpLength
  <2> QED  BY <2>1, <1>4 DEF WriteSpLength
<1>5. CASE Release(p)
  BY <1>5 DEF Release
<1> QED  BY <1>1, <1>2, <1>3, <1>4, <1>5 DEF SpTransfer

\* An instruction that retires keeps the program counter on the program.
LEMMA RetireStep ==
  ASSUME SpAssumption, SpTypeOK, ResumesInOrder,
         NEW taken \in Pcs \cup {NoTarget}, RetireSu(AfterDelay, taken)
  PROVE  /\ ResumesInOrder'
         /\ spPc' \in Pcs /\ branch' \in Pcs \cup {NoTarget}
         /\ told' \in Pcs \X Pcs /\ stale' \in BOOLEAN
<1>1. Words \in Nat /\ Words > 0 /\ Pcs \subseteq Nat
  BY DEF SpAssumption
<1>2. AfterDelay \in Pcs
  BY <1>1, SeqInMemory DEF SpTypeOK
<1> DEFINE next == AfterDelay
           ahead == IF taken # NoTarget THEN taken ELSE Seq4(next)
<1>3. ahead \in Pcs
  BY <1>1, <1>2, SeqInMemory
<1>4. ~stale => told[2] = next
  BY DEF ResumesInOrder
<1>5. spPc' = next /\ branch' = taken /\ stale' = FALSE /\ told' = <<next, ahead>>
  BY <1>4 DEF RetireSu
<1>6. AfterDelay' = ahead
  BY <1>5
<1> QED  BY <1>2, <1>3, <1>5, <1>6 DEF ResumesInOrder

\* Every step keeps SpInv.
LEMMA SpStepInv ==
  ASSUME SpAssumption, SpInv, [SpNext]_spVars
  PROVE  SpInv'
<1> USE DEF SpInv, SharedSp
<1>0. NoTarget \in Pcs \cup {NoTarget}
  OBVIOUS
<1>1. CASE CpuTransfer
  <2>1. SpTransfer("cpu") /\ "cpu" \in Procs
    BY <1>1 DEF CpuTransfer
  <2>2. UNCHANGED <<spStatus, spLine, spPc, branch, told, stale>>
    BY <1>1 DEF CpuTransfer
  <2>3. OneDriver' /\ LatchesOwn' /\ OwnTransfers'
    BY <2>1, SpTransferStep
  <2>4. SpTypeOK'
    BY <2>1, <2>2, SpTransferStep DEF SpTypeOK
  <2>5. ResumesInOrder'
    BY <2>2 DEF ResumesInOrder
  <2> QED  BY <2>3, <2>4, <2>5
<1>2. CASE CpuStatus
  <2>1. UNCHANGED <<spPc, branch, semaphore, pending, visible, drivers, told, stale>>
    BY <1>2 DEF CpuStatus
  <2>2. spStatus' \subseteq Flags /\ spLine' \in BOOLEAN
    BY <1>2, AppliedFlags DEF CpuStatus, SpTypeOK, Lines, InterruptChange
  <2> QED
    BY <2>1, <2>2 DEF drivers, SpTypeOK, OneDriver, LatchesOwn, OwnTransfers,
       ResumesInOrder
<1>3. CASE CpuPc
  <2>1. UNCHANGED <<spStatus, spLine, branch, semaphore, pending, visible, drivers>>
    BY <1>3 DEF CpuPc
  <2>2. PICK p \in Pcs : spPc' = p /\ told' = <<p, Seq4(p)>> /\ stale' = (branch # NoTarget)
    BY <1>3 DEF CpuPc
  <2>3. Seq4(p) \in Pcs
    BY SeqInMemory DEF SpAssumption
  <2> QED
    BY <2>1, <2>2, <2>3 DEF drivers, SpTypeOK, OneDriver, LatchesOwn, OwnTransfers,
       ResumesInOrder
<1>4. CASE RspPlain \/ RspBranch \/ RspBreak \/ RspStatus
  <2>1. UNCHANGED <<semaphore, pending, visible, drivers>>
    BY <1>4 DEF RspPlain, RspBranch, RspBreak, RspStatus
  <2>2. spStatus' \subseteq Flags /\ spLine' \in BOOLEAN
    BY <1>4, AppliedFlags
    DEF RspPlain, RspBranch, RspBreak, RspStatus, SpTypeOK, Lines, InterruptChange
  <2>3. \E t \in Pcs \cup {NoTarget} : RetireSu(AfterDelay, t)
    BY <1>0, <1>4 DEF RspPlain, RspBranch, RspBreak, BreakPc, RspStatus
  <2>4. ResumesInOrder' /\ spPc' \in Pcs /\ branch' \in Pcs \cup {NoTarget}
        /\ told' \in Pcs \X Pcs /\ stale' \in BOOLEAN
    BY <2>3, RetireStep
  <2> QED
    BY <2>1, <2>2, <2>4 DEF drivers, SpTypeOK, OneDriver, LatchesOwn, OwnTransfers
<1>5. CASE RspTransfer
  <2>1. SpTransfer("rsp") /\ "rsp" \in Procs /\ UNCHANGED <<spStatus, spLine>>
    BY <1>5 DEF RspTransfer
  <2>2. ResumesInOrder' /\ spPc' \in Pcs /\ branch' \in Pcs \cup {NoTarget}
        /\ told' \in Pcs \X Pcs /\ stale' \in BOOLEAN
    BY <1>0, <1>5, RetireStep DEF RspTransfer
  <2>3. OneDriver' /\ LatchesOwn' /\ OwnTransfers'
    BY <2>1, SpTransferStep
  <2>4. SpTypeOK'
    BY <2>1, <2>2, SpTransferStep DEF SpTypeOK
  <2> QED  BY <2>2, <2>3, <2>4
<1>6. CASE UNCHANGED spVars
  BY <1>6 DEF spVars, chip, drivers, SpTypeOK, OneDriver, LatchesOwn, OwnTransfers,
     ResumesInOrder
<1> QED  BY <1>1, <1>2, <1>3, <1>4, <1>5, <1>6 DEF SpNext

\* A transfer of either processor moves what its issuer asked for, and the RSP
\* resumes where its program would, for any IMEM, addresses and number of
\* transfers (sp.rs start_dma, su.rs su_step).
THEOREM SharedSpCorrect ==
  ASSUME SpAssumption
  PROVE  SpSpec => [](SpTypeOK /\ SharedSp)
<1>1. SpInit => SpInv
  BY SpInitInv
<1>2. SpInv /\ [SpNext]_spVars => SpInv'
  BY SpStepInv
<1>3. SpInv => SpTypeOK /\ SharedSp
  BY DEF SpInv
<1> QED  BY <1>1, <1>2, <1>3, PTL DEF SpSpec

-----------------------------------------------------------------------------
(***************************************************************************)
(* The PI.  What the chip, its page buffer and RDRAM hold at each step of  *)
(* a save, and where the transfer of either thread is in its own.          *)
(***************************************************************************)
Shapes ==
  /\ cart_addr \in [dev : {"rom", "flash"}, n : Nat]
  /\ piRam = [s \in Slots |-> piRam[s]]
  /\ job \in [page : Pages, data : SUBSET Bits, whole : BOOLEAN]
  /\ before \in [Pages -> SUBSET Bits] /\ saves \in Nat
  /\ saverStep \in {"setup", "erase", "erased", "load", "fill", "program", "programmed",
                    "array", "read", "idle"}

\* The chip with what this save erases gone, and with its page programmed.
Gone ==
  [p \in Pages |-> IF job.whole \/ SectorOf[p] = SectorOf[job.page] THEN Erased ELSE before[p]]
Programmed ==
  [p \in Pages |->
     IF p = job.page THEN job.data
     ELSE IF job.whole \/ SectorOf[p] = SectorOf[job.page] THEN Erased ELSE before[p]]

ChipAt ==
  /\ saverStep \in {"setup", "erase"} => array = before
  /\ saverStep \in {"erased", "load", "fill", "program"} => array = Gone
  /\ saverStep \in {"programmed", "array", "read"} => array = Programmed

SaveAt ==
  /\ saverStep = "erase" => erase = IF job.whole THEN WholeChip ELSE SectorOf[job.page]
  /\ saverStep \in {"setup", "erase", "erased", "load", "fill"} => piRam[OutSlot] = Page(job.data)
  /\ saverStep = "fill" => mode = "LoadPage"
  /\ saverStep = "program" => page_buffer = job.data
  /\ saverStep = "read" => mode = "ReadArray"

SaverMoves ==
  owner = "saver" =>
    /\ saverStep \in {"fill", "read"} /\ written \in 1 .. 3
    /\ written # 3 => dram_addr = IF saverStep = "fill" THEN OutSlot ELSE BackSlot
    /\ written = 2 => cart_addr = FlashAt(job.page)
    /\ written = 3 /\ saverStep = "fill" => page_buffer = job.data
    /\ written = 3 /\ saverStep = "read" => piRam[BackSlot] = Page(job.data)

StreamerMoves ==
  owner = "streamer" =>
    /\ written \in 1 .. 3
    /\ written = 1 => dram_addr = StreamSlot
    /\ written \in {2, 3} =>
         /\ cart_addr.dev = "rom" /\ cart_addr.n \in 1 .. Len(Rom) + 1
         /\ written = 2 => cart_addr.n \in 1 .. Len(Rom)
         /\ dram_addr = StreamSlot + cart_addr.n - 1
         /\ \A n \in 1 .. cart_addr.n - 1 : piRam[StreamSlot + n - 1] = Page(Rom[n])

PiInv ==
  /\ PiTypeOK /\ Shapes /\ mi_pi = interrupt
  /\ ChipAt /\ SaveAt /\ SavedIsRead /\ SaverMoves /\ StreamerMoves

USE DEF OutSlot, BackSlot, StreamSlot, Slots, Erased, FlashAt, RomAt, Mirrored

\* PiInv holds initially.
LEMMA PiInitInv ==
  ASSUME PiAssumption
  PROVE  PiInit => PiInv
<1> SUFFICES ASSUME PiInit PROVE PiInv
  OBVIOUS
<1>1. Len(Rom) \in Nat /\ Len(Rom) >= 1
  BY DEF PiAssumption
<1>2. PiTypeOK
  <2>1. dram_addr \in Slots /\ countdown \in 0 .. PI_WRITE_CYCLES
    BY <1>1 DEF PiAssumption, PiInit
  <2>2. array \in [Pages -> SUBSET Bits] /\ page_buffer \subseteq Bits
    BY DEF PiInit
  <2>3. dram_addr \in Slots \cup {Len(Rom) + StreamSlot}
    BY <2>1
  <2>4. interrupt \in BOOLEAN /\ mi_pi \in BOOLEAN
    BY Zenon DEF PiInit
  <2>5. mode \in {"ReadArray", "Status", "LoadPage"} /\ written \in 0 .. 3
    BY DEF PiInit
  <2>6. erase \in Sectors \cup {WholeChip, None} /\ owner \in {"saver", "streamer", None}
    BY DEF PiInit
  <2> QED  BY <2>1, <2>2, <2>3, <2>4, <2>5, <2>6 DEF PiTypeOK
<1>3. Shapes
  BY DEF PiAssumption, PiInit, Shapes
<1>4. ChipAt /\ SaveAt /\ SavedIsRead
  <2>1. saverStep = "idle" /\ saves = 0
    BY DEF PiInit
  <2> QED  BY <2>1 DEF ChipAt, SaveAt, SavedIsRead
<1>5. SaverMoves /\ StreamerMoves /\ mi_pi = interrupt
  BY DEF PiInit, SaverMoves, StreamerMoves, None
<1> QED  BY <1>2, <1>3, <1>4, <1>5 DEF PiInv

\* A save begins: the page is in RDRAM, the chip is what it was.
LEMMA BeginStep ==
  ASSUME PiAssumption, PiInv, Begin
  PROVE  PiInv'
<1> USE DEF PiInv
<1>1. PICK p \in Pages, d \in SUBSET Bits, w \in BOOLEAN :
        /\ job' = [page |-> p, data |-> d, whole |-> w]
        /\ piRam' = [piRam EXCEPT ![OutSlot] = Page(d)]
  BY DEF Begin
<1>2. /\ saverStep = "idle" /\ saverStep' = "setup" /\ before' = array /\ saves' = saves + 1
      /\ UNCHANGED <<pi, directIo, flash, lock>>
  BY DEF Begin
<1>3. Len(Rom) \in Nat /\ Len(Rom) >= 1 /\ OutSlot \in Slots
  BY DEF PiAssumption
<1>4. PiTypeOK' /\ mi_pi' = interrupt'
  BY <1>2 DEF PiTypeOK, pi, directIo, flash, lock
<1>5. Shapes'
  <2>1. /\ job' \in [page : Pages, data : SUBSET Bits, whole : BOOLEAN]
        /\ piRam' = [s \in Slots |-> piRam'[s]]
    BY <1>1 DEF Shapes
  <2>2. cart_addr' \in [dev : {"rom", "flash"}, n : Nat] /\ before' \in [Pages -> SUBSET Bits]
        /\ saves' \in Nat
    BY <1>2 DEF Shapes, PiTypeOK, pi
  <2> QED  BY <1>2, <2>1, <2>2 DEF Shapes
<1>6. ChipAt' /\ SavedIsRead'
  BY <1>2 DEF ChipAt, SavedIsRead, flash
<1>7. SaveAt'
  BY <1>1, <1>2, <1>3 DEF SaveAt, Shapes
<1>8. SaverMoves'
  BY <1>2 DEF SaverMoves, lock
<1>9. StreamerMoves'
  <2> SUFFICES ASSUME owner' = "streamer" PROVE StreamerMoves'
    BY DEF StreamerMoves
  <2>1. StreamerMoves /\ owner = "streamer" /\ UNCHANGED <<written, dram_addr, cart_addr>>
    BY <1>2 DEF lock, pi
  <2>2. \A n \in Nat \ {0} : piRam'[StreamSlot + n - 1] = piRam[StreamSlot + n - 1]
    BY <1>1, <1>3 DEF Shapes
  <2> QED  BY <2>1, <2>2 DEF StreamerMoves
<1> QED  BY <1>4, <1>5, <1>6, <1>7, <1>8, <1>9

\* One step of the saver at a time leads to the next.
LEMMA LaterStep ==
  /\ Later("setup") = "erase" /\ Later("erase") = "erased" /\ Later("erased") = "load"
  /\ Later("load") = "fill" /\ Later("fill") = "program" /\ Later("program") = "programmed"
  /\ Later("programmed") = "array" /\ Later("array") = "read" /\ Later("read") = "idle"
  BY DEF Later

\* A store of the saver is taken, since none is in flight, and does to the chip what its
\* step of the save is for.
LEMMA StoreStep ==
  ASSUME PiAssumption, PiInv, Store
  PROVE  PiInv'
<1> USE DEF PiInv
<1>1. /\ saverStep \in {"setup", "erase", "load", "program", "array"}
      /\ WriteCir(CommandOf) /\ countdown' = PI_WRITE_CYCLES
      /\ saverStep' = Later(saverStep)
      /\ UNCHANGED <<pi, piRam, job, before, saves, lock>>
  BY DEF Store, IoBusy, DirectStore
<1>2. owner # "saver"
  BY <1>1 DEF SaverMoves
<1>3. mi_pi' = interrupt' /\ SaverMoves' /\ StreamerMoves'
  BY <1>1, <1>2 DEF pi, lock, SaverMoves, StreamerMoves
<1>4. job.page \in Pages /\ job.data \subseteq Bits
  BY DEF Shapes
<1>5. ASSUME NEW x \in {"erase", "erased", "fill", "programmed", "read"}, saverStep' = x
      PROVE  Shapes' /\ SavedIsRead'
  BY <1>1, <1>5 DEF pi, Shapes, SavedIsRead
<1>6. ASSUME array' \in [Pages -> SUBSET Bits], page_buffer' \subseteq Bits,
             mode' \in {"ReadArray", "Status", "LoadPage"},
             erase' \in Sectors \cup {WholeChip, None}
      PROVE  PiTypeOK'
  BY <1>1, <1>6 DEF PiAssumption, pi, lock, PiTypeOK
<1>7. CASE saverStep = "setup"
  <2>1. saverStep' = "erase"
    BY <1>1, <1>7, LaterStep
  <2>2. EraseSetup(IF job.whole THEN WholeChip ELSE SectorOf[job.page])
    BY <1>1, <1>7 DEF CommandOf, WriteCir, Command
  <2>3. erase' = (IF job.whole THEN WholeChip ELSE SectorOf[job.page])
        /\ UNCHANGED <<array, page_buffer, mode, flashStatus>>
    BY <2>2 DEF EraseSetup
  <2>4. PiTypeOK'
    BY <1>4, <1>6, <2>3 DEF PiTypeOK, Sectors
  <2>5. ChipAt' /\ SaveAt'
    BY <1>1, <1>7, <2>1, <2>3 DEF ChipAt, SaveAt
  <2> QED  BY <1>3, <1>5, <2>1, <2>4, <2>5
<1>8. CASE saverStep = "erase"
  <2>1. saverStep' = "erased"
    BY <1>1, <1>8, LaterStep
  <2>2. ExecuteErase
    BY <1>1, <1>8 DEF CommandOf, WriteCir, Command
  <2>3. array = before /\ erase = (IF job.whole THEN WholeChip ELSE SectorOf[job.page])
    BY <1>8 DEF ChipAt, SaveAt
  <2>4. \A p \in Pages : erase \in {WholeChip, SectorOf[p]}
                        <=> (job.whole \/ SectorOf[p] = SectorOf[job.page])
    <3>1. WholeChip \notin Sectors /\ \A p \in Pages : SectorOf[p] \in Sectors
      BY DEF PiAssumption, Sectors
    <3>2. job.whole \in BOOLEAN
      BY DEF Shapes
    <3>3. CASE job.whole
      BY <2>3, <3>3
    <3>4. CASE ~job.whole
      BY <1>4, <2>3, <3>1, <3>4
    <3> QED  BY <3>2, <3>3, <3>4
  <2>5. array' = Gone
    BY <2>2, <2>3, <2>4 DEF ExecuteErase, Gone
  <2>6. Gone' = Gone
    BY <1>1 DEF Gone
  <2>7. ChipAt' /\ SaveAt'
    BY <1>1, <1>8, <2>1, <2>5, <2>6 DEF ChipAt, SaveAt
  <2>8. PiTypeOK'
    BY <1>6, <2>2 DEF ExecuteErase, PiTypeOK
  <2> QED  BY <1>3, <1>5, <2>1, <2>7, <2>8
<1>9. CASE saverStep = "load"
  <2>1. saverStep' = "fill"
    BY <1>1, <1>9, LaterStep
  <2>2. LoadPage
    BY <1>1, <1>9 DEF CommandOf, WriteCir, Command
  <2>3. Gone' = Gone
    BY <1>1 DEF Gone
  <2>4. ChipAt' /\ SaveAt'
    BY <1>1, <1>9, <2>1, <2>2, <2>3 DEF LoadPage, ChipAt, SaveAt
  <2>5. PiTypeOK'
    BY <1>6, <2>2 DEF LoadPage, PiTypeOK
  <2> QED  BY <1>3, <1>5, <2>1, <2>4, <2>5
<1>10. CASE saverStep = "program"
  <2>1. saverStep' = "programmed"
    BY <1>1, <1>10, LaterStep
  <2>2. ProgramPage(job.page)
    BY <1>1, <1>10 DEF CommandOf, WriteCir, Command
  <2>3. array = Gone /\ page_buffer = job.data
    BY <1>10 DEF ChipAt, SaveAt
  <2>4. array' = Programmed
    <3>1. array' = [array EXCEPT ![job.page] = @ \cap page_buffer]
      BY <2>2 DEF ProgramPage
    <3>2. Gone[job.page] \cap job.data = job.data
      BY <1>4 DEF Gone
    <3> QED  BY <1>4, <2>3, <3>1, <3>2 DEF Gone, Programmed
  <2>5. Programmed' = Programmed
    BY <1>1 DEF Programmed
  <2>6. ChipAt' /\ SaveAt'
    BY <1>1, <1>10, <2>1, <2>4, <2>5 DEF ChipAt, SaveAt
  <2>7. PiTypeOK'
    BY <1>6, <2>2 DEF ProgramPage, PiTypeOK
  <2> QED  BY <1>3, <1>5, <2>1, <2>6, <2>7
<1>11. CASE saverStep = "array"
  <2>1. saverStep' = "read"
    BY <1>1, <1>11, LaterStep
  <2>2. ReadArray
    BY <1>1, <1>11 DEF CommandOf, WriteCir, Command
  <2>3. Programmed' = Programmed
    BY <1>1 DEF Programmed
  <2>4. ChipAt' /\ SaveAt'
    BY <1>1, <1>11, <2>1, <2>2, <2>3 DEF ReadArray, ChipAt, SaveAt
  <2>5. PiTypeOK'
    BY <1>6, <2>2 DEF ReadArray, PiTypeOK
  <2> QED  BY <1>3, <1>5, <2>1, <2>4, <2>5
<1> QED  BY <1>1, <1>7, <1>8, <1>9, <1>10, <1>11

\* The saver goes on when the chip reports an operation done; the chip has done it.
LEMMA PollStep ==
  ASSUME PiAssumption, PiInv, PollStatus
  PROVE  PiInv'
<1> USE DEF PiInv
<1>1. /\ saverStep \in {"erased", "programmed"} /\ saverStep' = Later(saverStep)
      /\ UNCHANGED <<pi, directIo, piRam, flash, job, before, saves, lock>>
  BY DEF PollStatus
<1>2. \/ saverStep = "erased" /\ saverStep' = "load"
      \/ saverStep = "programmed" /\ saverStep' = "array"
  <2>1. CASE saverStep = "erased"
    BY <1>1, <2>1, LaterStep
  <2>2. CASE saverStep = "programmed"
    BY <1>1, <2>2, LaterStep
  <2> QED  BY <1>1, <2>1, <2>2
<1>3. PiTypeOK' /\ mi_pi' = interrupt'
  BY <1>1 DEF PiTypeOK, pi, directIo, flash, lock
<1>4. Shapes' /\ SavedIsRead'
  BY <1>1, <1>2 DEF Shapes, pi, SavedIsRead
<1>5. Gone' = Gone /\ Programmed' = Programmed
  BY <1>1 DEF Gone, Programmed
<1>6. ChipAt' /\ SaveAt'
  BY <1>1, <1>2, <1>5 DEF ChipAt, SaveAt, flash
<1>7. SaverMoves' /\ StreamerMoves'
  BY <1>1, <1>2 DEF SaverMoves, StreamerMoves, pi, lock
<1> QED  BY <1>3, <1>4, <1>6, <1>7

\* The first register of a transfer, by the thread that takes the PI.
LEMMA DramAddrStep ==
  ASSUME PiAssumption, PiInv, NEW t \in {"saver", "streamer"}, WriteDramAddr(t)
  PROVE  PiInv'
<1> USE DEF PiInv
<1>1. /\ owner = None /\ Wants(t) /\ owner' = t /\ written' = 1
      /\ dram_addr' = DramOf(t) /\ mi_pi' = interrupt
      /\ UNCHANGED <<cart_addr, interrupt, piRam, flash, directIo, saver>>
  BY DEF WriteDramAddr, SetDramAddr
<1>2. Len(Rom) \in Nat /\ Len(Rom) >= 1
  BY DEF PiAssumption
<1>3. PiTypeOK' /\ mi_pi' = interrupt'
  BY <1>1, <1>2 DEF PiTypeOK, directIo, flash, DramOf
<1>4. Shapes' /\ SavedIsRead' /\ ChipAt' /\ SaveAt'
  <2>1. Gone' = Gone /\ Programmed' = Programmed
    BY <1>1 DEF saver, Gone, Programmed
  <2> QED
    BY <1>1, <2>1 DEF Shapes, SavedIsRead, ChipAt, SaveAt, flash, saver
<1>5. SaverMoves'
  BY <1>1 DEF SaverMoves, DramOf, Wants, saver
<1>6. StreamerMoves'
  BY <1>1 DEF StreamerMoves, DramOf
<1> QED  BY <1>3, <1>4, <1>5, <1>6

\* The second.
LEMMA CartAddrStep ==
  ASSUME PiAssumption, PiInv, NEW t \in {"saver", "streamer"}, WriteCartAddr(t)
  PROVE  PiInv'
<1> USE DEF PiInv
<1>1. /\ owner = t /\ written = 1 /\ written' = 2
      /\ cart_addr' = CartOf(t) /\ mi_pi' = interrupt
      /\ UNCHANGED <<dram_addr, interrupt, piRam, flash, directIo, saver, owner>>
  BY DEF WriteCartAddr, SetCartAddr
<1>2. Len(Rom) \in Nat /\ Len(Rom) >= 1 /\ Pages \subseteq Nat
  BY DEF PiAssumption
<1>3. PiTypeOK' /\ mi_pi' = interrupt'
  BY <1>1 DEF PiTypeOK, directIo, flash
<1>4. Shapes'
  BY <1>1, <1>2 DEF Shapes, CartOf, saver
<1>5. SavedIsRead' /\ ChipAt' /\ SaveAt'
  <2>1. Gone' = Gone /\ Programmed' = Programmed
    BY <1>1 DEF saver, Gone, Programmed
  <2> QED
    BY <1>1, <2>1 DEF SavedIsRead, ChipAt, SaveAt, flash, saver
<1>6. SaverMoves'
  BY <1>1 DEF SaverMoves, CartOf, saver
<1>7. StreamerMoves'
  <2> SUFFICES ASSUME t = "streamer" PROVE StreamerMoves'
    BY <1>1 DEF StreamerMoves
  <2>1. cart_addr' = [dev |-> "rom", n |-> 1] /\ dram_addr' = StreamSlot
    BY <1>1 DEF CartOf, StreamerMoves
  <2> QED  BY <1>1, <1>2, <2>1 DEF StreamerMoves
<1> QED  BY <1>3, <1>4, <1>5, <1>6, <1>7

\* A transfer of the saver: the page buffer filled from RDRAM, or the page read back.
LEMMA SaverLengthStep ==
  ASSUME PiAssumption, PiInv, WritePiLength("saver")
  PROVE  PiInv'
<1> USE DEF PiInv
<1>1. /\ owner = "saver" /\ written = 2 /\ written' = 3 /\ owner' = "saver"
      /\ Transfer(saverStep = "read")
      /\ UNCHANGED <<directIo, saver>>
  BY DEF WritePiLength
<1>2. /\ saverStep \in {"fill", "read"} /\ cart_addr = FlashAt(job.page)
      /\ dram_addr = IF saverStep = "fill" THEN OutSlot ELSE BackSlot
  BY <1>1 DEF SaverMoves
<1>3. Len(Rom) \in Nat /\ Len(Rom) >= 1 /\ Pages \subseteq Nat /\ job.page \in Pages
  BY DEF PiAssumption, Shapes
<1>4. dram_addr' = dram_addr + 1 /\ cart_addr' = [cart_addr EXCEPT !.n = @ + 1]
      /\ interrupt' = TRUE /\ mi_pi' = TRUE
  BY <1>1 DEF Transfer, NextDram
<1>5. StreamerMoves'
  BY <1>1 DEF StreamerMoves
<1>6. Gone' = Gone /\ Programmed' = Programmed
  BY <1>1 DEF saver, Gone, Programmed
<1>7. CASE saverStep = "fill"
  <2>1. page_buffer' = piRam[OutSlot].bits /\ UNCHANGED <<piRam, array, mode, erase, flashStatus>>
    BY <1>1, <1>2, <1>7 DEF Transfer, SaveAt
  <2>2. page_buffer' = job.data
    BY <1>7, <2>1 DEF SaveAt, Page
  <2>3. PiTypeOK' /\ Shapes'
    BY <1>1, <1>2, <1>3, <1>4, <1>7, <2>1, <2>2 DEF PiTypeOK, Shapes, directIo, saver
  <2>4. ChipAt' /\ SaveAt' /\ SavedIsRead'
    BY <1>1, <1>6, <1>7, <2>1 DEF ChipAt, SaveAt, SavedIsRead, saver
  <2>5. SaverMoves'
    BY <1>1, <1>7, <2>2 DEF SaverMoves, saver
  <2> QED  BY <1>4, <1>5, <2>3, <2>4, <2>5
<1>8. CASE saverStep = "read"
  <2>1. piRam' = [piRam EXCEPT ![BackSlot] = CartRead(FlashAt(job.page))] /\ UNCHANGED flash
    BY <1>1, <1>2, <1>8 DEF Transfer
  <2>2. CartRead(FlashAt(job.page)) = Page(job.data)
    <3>1. array[job.page] = job.data
      BY <1>3, <1>8 DEF ChipAt, Programmed
    <3> QED  BY <1>8, <3>1 DEF CartRead, SaveAt
  <2>3. piRam'[BackSlot] = Page(job.data) /\ piRam' = [s \in Slots |-> piRam'[s]]
    <3>1. BackSlot \in Slots /\ piRam = [s \in Slots |-> piRam[s]]
      BY <1>3 DEF Shapes
    <3>2. piRam' = [piRam EXCEPT ![BackSlot] = Page(job.data)]
      BY <2>1, <2>2
    <3> HIDE DEF BackSlot, Slots
    <3> QED  BY <3>1, <3>2
  <2>4. PiTypeOK' /\ Shapes'
    BY <1>1, <1>2, <1>3, <1>4, <1>8, <2>1, <2>3 DEF PiTypeOK, Shapes, directIo, flash, saver
  <2>5. ChipAt' /\ SaveAt' /\ SavedIsRead'
    BY <1>1, <1>6, <1>8, <2>1 DEF ChipAt, SaveAt, SavedIsRead, flash, saver
  <2>6. SaverMoves'
    BY <1>1, <1>8, <2>3 DEF SaverMoves, saver
  <2> QED  BY <1>4, <1>5, <2>4, <2>5, <2>6
<1> QED  BY <1>2, <1>7, <1>8

\* A transfer of the streamer: the next page of the ROM, where the one before ended.
LEMMA StreamerLengthStep ==
  ASSUME PiAssumption, PiInv, WritePiLength("streamer")
  PROVE  PiInv'
<1> USE DEF PiInv
<1>1. /\ owner = "streamer" /\ written = 2 /\ written' = 3 /\ owner' = "streamer"
      /\ Transfer(TRUE)
      /\ UNCHANGED <<directIo, saver>>
  BY DEF WritePiLength
<1>2. /\ dram_addr' = dram_addr + 1 /\ cart_addr' = [cart_addr EXCEPT !.n = @ + 1]
      /\ interrupt' = TRUE /\ mi_pi' = TRUE
      /\ piRam' = [piRam EXCEPT ![dram_addr] = CartRead(cart_addr)] /\ UNCHANGED flash
  BY <1>1 DEF Transfer, NextDram
<1>3. Len(Rom) \in Nat /\ Len(Rom) >= 1 /\ DOMAIN Rom = 1 .. Len(Rom)
  BY DEF PiAssumption
<1>4. /\ cart_addr.dev = "rom" /\ cart_addr.n \in 1 .. Len(Rom)
      /\ dram_addr = StreamSlot + cart_addr.n - 1
      /\ \A n \in 1 .. cart_addr.n - 1 : piRam[StreamSlot + n - 1] = Page(Rom[n])
  BY <1>1 DEF StreamerMoves
<1>5. CartRead(cart_addr) = Page(Rom[cart_addr.n])
  BY <1>3, <1>4 DEF CartRead
<1>6. cart_addr'.n = cart_addr.n + 1 /\ cart_addr'.dev = "rom"
      /\ cart_addr' \in [dev : {"rom", "flash"}, n : Nat]
  <2>1. cart_addr \in [dev : {"rom", "flash"}, n : Nat]
    BY DEF Shapes
  <2>2. cart_addr' = [cart_addr EXCEPT !.n = @ + 1]
    BY <1>2
  <2>3. cart_addr' \in [dev : {"rom", "flash"}, n : Nat] /\ cart_addr'.n = cart_addr.n + 1
        /\ cart_addr'.dev = cart_addr.dev
    BY <2>1, <2>2
  <2> QED  BY <1>4, <2>3
<1>7. dram_addr \in Slots
  BY <1>3, <1>4
<1>8. piRam'[dram_addr] = Page(Rom[cart_addr.n]) /\ piRam' = [s \in Slots |-> piRam'[s]]
      /\ \A s \in Slots : s # dram_addr => piRam'[s] = piRam[s]
  BY <1>2, <1>5, <1>7 DEF Shapes
<1>9. StreamerMoves'
  <2>1. ASSUME NEW n \in 1 .. cart_addr.n PROVE piRam'[StreamSlot + n - 1] = Page(Rom[n])
    <3>1. CASE n = cart_addr.n
      BY <1>4, <1>8, <3>1
    <3>2. CASE n # cart_addr.n
      <4>1. n \in 1 .. cart_addr.n - 1 /\ StreamSlot + n - 1 \in Slots
            /\ StreamSlot + n - 1 # dram_addr
        BY <1>3, <1>4, <3>2
      <4> QED  BY <1>4, <1>8, <4>1
    <3> QED  BY <3>1, <3>2
  <2>2. cart_addr'.n - 1 = cart_addr.n /\ cart_addr'.n \in 1 .. Len(Rom) + 1
        /\ dram_addr' = StreamSlot + cart_addr'.n - 1
    BY <1>2, <1>3, <1>4, <1>6
  <2> QED  BY <1>1, <1>6, <2>1, <2>2 DEF StreamerMoves
<1>10. PiTypeOK' /\ mi_pi' = interrupt'
  <2>1. dram_addr' \in Slots \cup {Len(Rom) + StreamSlot}
    BY <1>2, <1>3, <1>4
  <2> QED  BY <1>1, <1>2, <2>1 DEF PiTypeOK, directIo, flash
<1>11. Shapes'
  BY <1>1, <1>6, <1>8 DEF Shapes, saver
<1>12. ChipAt' /\ SaveAt' /\ SavedIsRead'
  <2>1. Gone' = Gone /\ Programmed' = Programmed
    BY <1>1 DEF saver, Gone, Programmed
  <2>2. OutSlot \in Slots /\ BackSlot \in Slots /\ dram_addr # OutSlot /\ dram_addr # BackSlot
    BY <1>3, <1>4
  <2>3. piRam'[OutSlot] = piRam[OutSlot] /\ piRam'[BackSlot] = piRam[BackSlot]
    BY <1>8, <2>2
  <2> QED  BY <1>1, <1>2, <2>1, <2>3 DEF ChipAt, SaveAt, SavedIsRead, flash, saver
<1>13. SaverMoves'
  BY <1>1 DEF SaverMoves
<1> QED  BY <1>9, <1>10, <1>11, <1>12, <1>13

\* The interrupt acknowledged: the saver goes on, the streamer chains or lets go.
LEMMA AcknowledgeStep ==
  ASSUME PiAssumption, PiInv, NEW t \in {"saver", "streamer"}, AcknowledgePi(t)
  PROVE  PiInv'
<1> USE DEF PiInv
<1>1. /\ owner = t /\ written = 3 /\ interrupt' = FALSE /\ mi_pi' = FALSE
      /\ UNCHANGED <<dram_addr, cart_addr, piRam, flash, directIo, job, before, saves>>
      /\ saverStep' = IF t = "saver" THEN Later(saverStep) ELSE saverStep
  BY DEF AcknowledgePi, ClearInterrupt
<1>2. \/ Chains(t) /\ written' = 2 /\ owner' = owner
      \/ ~Chains(t) /\ written' = 0 /\ owner' = None
  BY DEF AcknowledgePi
<1>3. PiTypeOK' /\ mi_pi' = interrupt'
  <2>1. written' \in 0 .. 3 /\ owner' \in {"saver", "streamer", None}
    BY <1>1, <1>2
  <2> QED  BY <1>1, <2>1 DEF PiTypeOK, directIo, flash
<1>4. Gone' = Gone /\ Programmed' = Programmed
  BY <1>1 DEF Gone, Programmed
<1>5. CASE t = "saver"
  <2>1. saverStep \in {"fill", "read"}
        /\ (saverStep = "fill" => page_buffer = job.data)
        /\ (saverStep = "read" => piRam[BackSlot] = Page(job.data))
    BY <1>1, <1>5 DEF SaverMoves
  <2>2. \/ saverStep = "fill" /\ saverStep' = "program"
        \/ saverStep = "read" /\ saverStep' = "idle"
    <3>1. CASE saverStep = "fill"
      BY <1>1, <1>5, <3>1, LaterStep
    <3>2. CASE saverStep = "read"
      BY <1>1, <1>5, <3>2, LaterStep
    <3> QED  BY <2>1, <3>1, <3>2
  <2>3. owner' = None
    BY <1>2, <1>5 DEF Chains
  <2>4. SaverMoves' /\ StreamerMoves'
    BY <2>3 DEF SaverMoves, StreamerMoves, None
  <2>5. ChipAt' /\ SaveAt' /\ Shapes'
    BY <1>1, <1>4, <2>1, <2>2 DEF ChipAt, SaveAt, Shapes, flash
  <2>6. SavedIsRead'
    <3> SUFFICES ASSUME saverStep = "read" PROVE SavedIsRead'
      BY <2>2 DEF SavedIsRead
    <3>1. array' = Programmed' /\ piRam'[BackSlot] = Page(job'.data)
      BY <1>1, <1>4, <2>1 DEF ChipAt, flash
    <3> QED  BY <3>1 DEF SavedIsRead, Programmed
  <2> QED  BY <1>3, <2>4, <2>5, <2>6
<1>6. CASE t = "streamer"
  <2>1. saverStep' = saverStep
    BY <1>1, <1>6
  <2>2. ChipAt' /\ SaveAt' /\ Shapes' /\ SavedIsRead'
    BY <1>1, <1>4, <2>1 DEF ChipAt, SaveAt, Shapes, SavedIsRead, flash
  <2>3. owner' # "saver"
    BY <1>1, <1>2, <1>6 DEF None
  <2>4. SaverMoves'
    BY <2>3 DEF SaverMoves
  <2>5. StreamerMoves'
    <3> SUFFICES ASSUME owner' = "streamer" PROVE StreamerMoves'
      BY DEF StreamerMoves
    <3>1. written' = 2 /\ cart_addr.n <= Len(Rom)
      BY <1>2 DEF None, Chains
    <3>2. Len(Rom) \in Nat
      BY DEF PiAssumption
    <3> QED  BY <1>1, <1>6, <3>1, <3>2 DEF StreamerMoves
  <2> QED  BY <1>3, <2>2, <2>4, <2>5
<1> QED  BY <1>5, <1>6

\* Every step keeps PiInv.
LEMMA PiStepInv ==
  ASSUME PiAssumption, PiInv, [PiNext]_piVars
  PROVE  PiInv'
<1>1. CASE PiTick \/ UNCHANGED piVars
  <2>1. UNCHANGED <<pi, latch, piRam, flash, saver, lock>> /\ countdown' \in 0 .. PI_WRITE_CYCLES
    BY <1>1 DEF PiTick, InFlight, piVars, directIo, PiInv, PiTypeOK, PiAssumption
  <2>2. Gone' = Gone /\ Programmed' = Programmed
    BY <2>1 DEF saver, Gone, Programmed
  <2>3. PiTypeOK' /\ Shapes' /\ mi_pi' = interrupt'
    BY <2>1 DEF PiInv, PiTypeOK, Shapes, pi, flash, saver, lock
  <2>4. ChipAt' /\ SaveAt' /\ SavedIsRead'
    BY <2>1, <2>2 DEF PiInv, ChipAt, SaveAt, SavedIsRead, flash, saver
  <2>5. SaverMoves' /\ StreamerMoves'
    BY <2>1 DEF PiInv, SaverMoves, StreamerMoves, pi, flash, saver, lock
  <2> QED  BY <2>3, <2>4, <2>5 DEF PiInv
<1>2. CASE Begin
  BY <1>2, BeginStep
<1>3. CASE Store
  BY <1>3, StoreStep
<1>4. CASE PollStatus
  BY <1>4, PollStep
<1>5. CASE \E t \in {"saver", "streamer"} : WriteDramAddr(t)
  BY <1>5, DramAddrStep
<1>6. CASE \E t \in {"saver", "streamer"} : WriteCartAddr(t)
  BY <1>6, CartAddrStep
<1>7. CASE \E t \in {"saver", "streamer"} : WritePiLength(t)
  BY <1>7, SaverLengthStep, StreamerLengthStep
<1>8. CASE \E t \in {"saver", "streamer"} : AcknowledgePi(t)
  BY <1>8, AcknowledgeStep
<1> QED  BY <1>1, <1>2, <1>3, <1>4, <1>5, <1>6, <1>7, <1>8 DEF PiNext

\* What PiInv says of PiSpec.
LEMMA PiInvariant ==
  ASSUME PiAssumption
  PROVE  PiSpec => []PiInv
<1>1. PiInit => PiInv
  BY PiInitInv
<1>2. PiInv /\ [PiNext]_piVars => PiInv'
  BY PiStepInv
<1> QED  BY <1>1, <1>2, PTL DEF PiSpec

\* A save that has run its course is in the chip whole, was read back, and touched no
\* page outside what it erased, for any chip, page size and ROM, while the other thread
\* streams (save.rs write_cir, bus.rs write_u32, pi.rs start).
THEOREM SavedCorrect ==
  ASSUME PiAssumption
  PROVE  PiSpec => [](PiTypeOK /\ SavedIsRead)
<1>1. PiInv => PiTypeOK /\ SavedIsRead
  BY DEF PiInv
<1> QED  BY <1>1, PiInvariant, PTL

\* Transfers chained by their lengths deliver the ROM in order, and the MI's interrupt
\* is the PI's, for any ROM and whatever the other thread moves (pi.rs start, bus.rs
\* pi_write_word).
THEOREM ChainCorrect ==
  ASSUME PiAssumption
  PROVE  PiSpec => []ChainDelivers
<1>1. PiInv => ChainDelivers
  <2> SUFFICES ASSUME PiInv PROVE ChainDelivers
    OBVIOUS
  <2> QED  BY DEF PiInv, StreamerMoves, ChainDelivers
<1> QED  BY <1>1, PiInvariant, PTL
=============================================================================
