------------------------------- MODULE PiBus -------------------------------
(***************************************************************************)
(* The PI (rustyn64-cart, pi.rs) and the bus around it: its DMA, its       *)
(* registers and interrupt, the direct-I/O store that takes effect in the  *)
(* background, and the FlashRAM behind them (save.rs).                     *)
(*                                                                         *)
(* The unit of memory is a page, a set of bits; a transfer moves one.  The *)
(* program has two threads at the PI.  One saves: it takes the chip through*)
(* erase, load, program and read back, as the unit test of save.rs does,   *)
(* and polls PI_STATUS before each of its stores.  The other streams pages *)
(* of the ROM.  They lock each other out from the first register write of a*)
(* transfer to the acknowledgement of its interrupt, and at no other time. *)
(***************************************************************************)
EXTENDS Naturals, Sequences

CONSTANTS
  Bits,             \* the bits of a page
  SectorOf,         \* the sector of each page of the chip
  Rom,              \* the pages of the ROM
  PI_WRITE_CYCLES,  \* PI ticks a direct store is in flight
  MaxSaves          \* bound: pages saved in one behaviour

Pages == DOMAIN SectorOf
Sectors == {SectorOf[p] : p \in Pages}
Erased == Bits
None == "none"
WholeChip == "whole chip"

ASSUME PiAssumption ==
  /\ 1 \in Pages /\ Pages \subseteq Nat
  /\ {None, WholeChip} \cap Sectors = {}
  /\ Rom \in Seq(SUBSET Bits) /\ Rom # <<>>
  /\ PI_WRITE_CYCLES \in Nat /\ MaxSaves \in Nat

\* RDRAM: the page to save, the page read back, and where the ROM is streamed.
OutSlot == 1
BackSlot == 2
StreamSlot == 3
Slots == 1 .. StreamSlot + Len(Rom) - 1

\* What a read on the bus can return.
Page(bits) == [kind |-> "page", bits |-> bits]
Status(which) == [kind |-> "status", ok |-> which]
Command(op, page) == [kind |-> "command", op |-> op, page |-> page]

\* Where a transfer can point.
FlashAt(p) == [dev |-> "flash", n |-> p]
RomAt(n) == [dev |-> "rom", n |-> n]

VARIABLES
  dram_addr, cart_addr, interrupt,          \* the PI's registers
  mi_pi,                                    \* mi_intr.pi
  latch, countdown,                         \* pi_write_latch and its countdown
  piRam,
  array, page_buffer, mode, erase, flashStatus,  \* the chip
  saverStep, job,                                \* saver: what comes next; page, data
                                            \*   and whether it erases the chip
  owner, written,                           \* who is at the PI, and how many
                                            \*   registers it has written
  before, saves                             \* history: the chip before this save,
                                            \*   and the saves begun
pi == <<dram_addr, cart_addr, interrupt, mi_pi>>
directIo == <<latch, countdown>>
flash == <<array, page_buffer, mode, erase, flashStatus>>
saver == <<saverStep, job, before, saves>>
lock == <<owner, written>>
piVars == <<pi, directIo, piRam, flash, saver, lock>>

\* What the saver does once s is done.
Later(s) ==
  CASE s = "setup" -> "erase"      [] s = "erase" -> "erased"
    [] s = "erased" -> "load"      [] s = "load" -> "fill"
    [] s = "fill" -> "program"     [] s = "program" -> "programmed"
    [] s = "programmed" -> "array" [] s = "array" -> "read"
    [] s = "read" -> "idle"

PiTypeOK ==
  /\ dram_addr \in Slots \cup {Len(Rom) + StreamSlot}
  /\ interrupt \in BOOLEAN /\ mi_pi \in BOOLEAN
  /\ countdown \in 0 .. PI_WRITE_CYCLES
  /\ array \in [Pages -> SUBSET Bits] /\ page_buffer \subseteq Bits
  /\ mode \in {"ReadArray", "Status", "LoadPage"}
  /\ erase \in Sectors \cup {WholeChip, None}
  /\ owner \in {"saver", "streamer", None} /\ written \in 0 .. 3

PiInit ==
  /\ dram_addr = OutSlot /\ cart_addr = RomAt(1)
  /\ interrupt = FALSE /\ mi_pi = FALSE
  /\ latch = Page({}) /\ countdown = 0
  /\ piRam = [s \in Slots |-> Page({})]
  /\ array = [p \in Pages |-> Erased] /\ page_buffer = Erased
  /\ mode = "ReadArray" /\ erase = None /\ flashStatus = None
  /\ saverStep = "idle" /\ job = [page |-> 1, data |-> Erased, whole |-> FALSE]
  /\ owner = None /\ written = 0
  /\ before = array /\ saves = 0

-----------------------------------------------------------------------------
\* FlashRAM: the command register, and what a read in each mode returns.
EraseSetup(target) ==
  /\ erase' = target
  /\ UNCHANGED <<array, page_buffer, mode, flashStatus>>

ExecuteErase ==
  /\ array' = [p \in Pages |->
                 IF erase \in {WholeChip, SectorOf[p]} THEN Erased ELSE array[p]]
  /\ erase' = None
  /\ flashStatus' = "erased" /\ mode' = "Status"
  /\ UNCHANGED page_buffer

LoadPage ==
  /\ mode' = "LoadPage"
  /\ page_buffer' = Erased
  /\ UNCHANGED <<array, erase, flashStatus>>

\* Programming only clears bits.
ProgramPage(p) ==
  /\ array' = [array EXCEPT ![p] = @ \cap page_buffer]
  /\ flashStatus' = "programmed" /\ mode' = "Status"
  /\ UNCHANGED <<page_buffer, erase>>

ReadArray ==
  /\ mode' = "ReadArray"
  /\ UNCHANGED <<array, page_buffer, erase, flashStatus>>

WriteCir(c) ==
  \/ c.op = "erase sector" /\ EraseSetup(SectorOf[c.page])
  \/ c.op = "erase chip" /\ EraseSetup(WholeChip)
  \/ c.op = "execute erase" /\ ExecuteErase
  \/ c.op = "load page" /\ LoadPage
  \/ c.op = "program" /\ ProgramPage(c.page)
  \/ c.op = "read array" /\ ReadArray

CartRead(a) ==
  IF a.dev = "rom" THEN Page(IF a.n \in DOMAIN Rom THEN Rom[a.n] ELSE {})
  ELSE CASE mode = "ReadArray" -> Page(array[a.n])
         [] mode = "LoadPage" -> Page(page_buffer)
         [] mode = "Status" -> Status(flashStatus)

-----------------------------------------------------------------------------
\* Direct I/O.  A store latches and is in flight for a while: until it lands,
\* a second one is ignored and every read of the bus returns the latch.
InFlight == countdown > 0

DirectStore(c) ==
  IF InFlight THEN UNCHANGED <<directIo, flash>>
  ELSE latch' = c /\ countdown' = PI_WRITE_CYCLES /\ WriteCir(c)

DirectRead(a) == IF InFlight THEN latch ELSE CartRead(a)

\* A mutant: IOBUSY reports transfers, which are over at once, and no store.
IoBusyBug == FALSE
\* IOBUSY of PI_STATUS, as the bus completes it.
IoBusy == InFlight

PiTick ==
  /\ InFlight
  /\ countdown' = countdown - 1
  /\ UNCHANGED <<pi, latch, piRam, flash, saver, lock>>

-----------------------------------------------------------------------------
\* The PI's registers (pi_write_word).  The MI's copy of the interrupt follows
\* every write, whether or not it starts a transfer.
Mirrored(irq) == irq

SetDramAddr(s) ==
  /\ dram_addr' = s
  /\ mi_pi' = Mirrored(interrupt)
  /\ UNCHANGED <<cart_addr, interrupt, piRam, flash>>

SetCartAddr(a) ==
  /\ cart_addr' = a
  /\ mi_pi' = Mirrored(interrupt)
  /\ UNCHANGED <<dram_addr, interrupt, piRam, flash>>

\* A mutant: nothing was started, so nothing is left to do.
ClearInterruptBug ==
  /\ interrupt' = FALSE
  /\ UNCHANGED <<dram_addr, cart_addr, mi_pi, piRam, flash>>

ClearInterrupt ==
  /\ interrupt' = FALSE
  /\ mi_pi' = Mirrored(FALSE)
  /\ UNCHANGED <<dram_addr, cart_addr, piRam, flash>>

\* A mutant: the RDRAM address is left where it was.
NextDramBug == dram_addr
NextDram == dram_addr + 1

\* Both addresses walk past what the transfer moved, so that the next one may
\* be chained by its length alone; the transfer is over when the write returns.
Transfer(toDram) ==
  /\ dram_addr' = NextDram
  /\ cart_addr' = [cart_addr EXCEPT !.n = @ + 1]
  /\ interrupt' = TRUE /\ mi_pi' = Mirrored(TRUE)
  /\ \/ /\ toDram
        /\ piRam' = [piRam EXCEPT ![dram_addr] = CartRead(cart_addr)]
        /\ UNCHANGED flash
     \/ /\ ~toDram
        /\ page_buffer' = IF cart_addr.dev = "flash" /\ mode = "LoadPage"
                          THEN piRam[dram_addr].bits ELSE page_buffer
        /\ UNCHANGED <<piRam, array, mode, erase, flashStatus>>

-----------------------------------------------------------------------------
\* The saver.
Begin ==
  /\ saverStep = "idle" /\ saves < MaxSaves
  /\ \E p \in Pages, d \in SUBSET Bits, w \in BOOLEAN :
       /\ job' = [page |-> p, data |-> d, whole |-> w]
       /\ piRam' = [piRam EXCEPT ![OutSlot] = Page(d)]
  /\ before' = array
  /\ saverStep' = "setup" /\ saves' = saves + 1
  /\ UNCHANGED <<pi, directIo, flash, lock>>

CommandOf ==
  CASE saverStep = "setup" -> Command(IF job.whole THEN "erase chip" ELSE "erase sector", job.page)
    [] saverStep = "erase" -> Command("execute erase", job.page)
    [] saverStep = "load" -> Command("load page", job.page)
    [] saverStep = "program" -> Command("program", job.page)
    [] saverStep = "array" -> Command("read array", job.page)

Store ==
  /\ saverStep \in {"setup", "erase", "load", "program", "array"}
  /\ ~IoBusy
  /\ DirectStore(CommandOf)
  /\ saverStep' = Later(saverStep)
  /\ UNCHANGED <<pi, piRam, job, before, saves, lock>>

\* It reads the status until the operation is reported done.
PollStatus ==
  /\ saverStep \in {"erased", "programmed"}
  /\ ~IoBusy
  /\ DirectRead(FlashAt(job.page)) = Status(saverStep)
  /\ saverStep' = Later(saverStep)
  /\ UNCHANGED <<pi, directIo, piRam, flash, job, before, saves, lock>>

-----------------------------------------------------------------------------
\* One transfer of either thread: three registers, then the interrupt.  The
\* streamer chains through the whole of its piece of ROM by lengths alone.
Wants(t) == t = "saver" => saverStep \in {"fill", "read"}
DramOf(t) ==
  CASE t = "streamer" -> StreamSlot
    [] t = "saver" -> IF saverStep = "fill" THEN OutSlot ELSE BackSlot
CartOf(t) == IF t = "streamer" THEN RomAt(1) ELSE FlashAt(job.page)
Chains(t) == t = "streamer" /\ cart_addr.n <= Len(Rom)

WriteDramAddr(t) ==
  /\ owner = None /\ Wants(t)
  /\ SetDramAddr(DramOf(t))
  /\ owner' = t /\ written' = 1
  /\ UNCHANGED <<directIo, saver>>

WriteCartAddr(t) ==
  /\ owner = t /\ written = 1
  /\ SetCartAddr(CartOf(t))
  /\ written' = 2
  /\ UNCHANGED <<directIo, saver, owner>>

WritePiLength(t) ==
  /\ owner = t /\ written = 2
  /\ Transfer(t = "streamer" \/ saverStep = "read")
  /\ written' = 3
  /\ UNCHANGED <<directIo, saver, owner>>

AcknowledgePi(t) ==
  /\ owner = t /\ written = 3 /\ mi_pi
  /\ ClearInterrupt
  /\ IF Chains(t) THEN written' = 2 /\ UNCHANGED owner
     ELSE written' = 0 /\ owner' = None
  /\ saverStep' = IF t = "saver" THEN Later(saverStep) ELSE saverStep
  /\ UNCHANGED <<directIo, job, before, saves>>

PiNext ==
  \/ Begin \/ Store \/ PollStatus \/ PiTick
  \/ \E t \in {"saver", "streamer"} :
       WriteDramAddr(t) \/ WriteCartAddr(t) \/ WritePiLength(t) \/ AcknowledgePi(t)

PiSpec == PiInit /\ [][PiNext]_piVars

-----------------------------------------------------------------------------
\* A save that has run its course is in the chip and has been read back whole,
\* and has touched no page outside what it erased, although each command is a
\* store the bus would drop while another is in flight, programming cannot set
\* a bit an erase did not, and the ROM is streamed all the while (write_u32,
\* write_cir, start).
SavedIsRead ==
  saverStep = "idle" /\ saves > 0 =>
    /\ piRam[BackSlot] = Page(job.data)
    /\ array = [p \in Pages |->
         IF p = job.page THEN job.data
         ELSE IF job.whole \/ SectorOf[p] = SectorOf[job.page] THEN Erased
         ELSE before[p]]

\* A chain of transfers started by one pair of addresses delivers the ROM in
\* order and without a gap, whatever the other thread moves in between (start).
\* The interrupt that ends each is the PI's own, after every register write: a
\* copy left high would be taken again and again, one left low would leave the
\* thread that waits for its transfer waiting (pi_write_word).
ChainDelivers ==
  /\ mi_pi = interrupt
  /\ owner = "streamer" /\ written = 3 =>
       \A n \in 1 .. cart_addr.n - 1 : piRam[StreamSlot + n - 1] = Page(Rom[n])
=============================================================================
