# RustyN64 in TLA+

A model of RustyN64 (a Nintendo 64 emulator in Rust), component by component:
the three schedulers, the processor's pipeline, timer, MMU, caches and FPU, the
devices of the RCP with the protocols software drives them by, the datapaths of
the RSP and RDP, and the threads of the native front end. TLC checks each module
on small instances; the TLA+ proof system (TLAPS) proves the invariants of the
components with a state of their own for every instance.

`PROJECT.json` maps every definition that models code to the lines it stands
for, lists the runs and the theorems, and, for every checked property, a mutant
of the code that breaks it.

## The system

### Components

Sources are under `crates/`. "Partly" says that some operation that changes state
is not an action of a module; what is left out is in the last section.

| component | source | state | operations | modelled by |
|---|---|---|---|---|
| accurate scheduler | `rustyn64-core/src/scheduler.rs` | `master_ticks`, two domain phases drawn from a seed | `run_until`, `step_domains`, `reset` | `Timebase`, `Lockstep` |
| fast scheduler (`fast-scheduler`) | `scheduler.rs` | plus an edge pattern and a completion report | `run_until_fast` | `FastPath` |
| instruction-granular scheduler (`fast-exec`) | `scheduler.rs`, `rustyn64-cpu/src/pipeline/fastexec.rs` | plus the parked flag and the interrupt lines | `run_until_exec`, `run_idle_batch` | `ExecPath`, partly |
| COP0 timer | `cop0.rs`, `pipeline.rs` | Count (affine in time), Compare, the polled edge detector, IP7 | poll, stall, MTC0 | `CountTimer` |
| pipeline | `pipeline.rs`, `exec.rs` | five latches, the stall counter, pending aborts, LL bit | one PCycle | `Pipeline`, partly |
| TLB, exceptions | `tlb.rs`, `addr.rs`, `exception.rs`, `cop0.rs` | TLB entries, EntryHi, Index, Random, Wired, Status, EPC | translation, TLB instructions, exception entry, ERET, NMI | `Mmu`, partly |
| caches | `cache.rs`, `pipeline.rs` | lines, tags, dirty bits | loads, stores, fetches, CACHE | `Caches`, partly |
| FPU | `softfloat.rs`, `fpu.rs`, `cop1.rs`, `pipeline.rs` | FCSR, destination | arithmetic, conversion, compare; trap or commit | `Fpu`, partly |
| VI scan | `rustyn64-core/src/vi.rs` | half-line, remainder, skip bound | tick, register writes, reset | `Vi` |
| audio interface (AI) | `rustyn64-audio/src/lib.rs`, `bus.rs` | two DMA slots, the delayed page carry, the sample schedule | register writes, a tick per RCP step | `AiFifo`, partly |
| RDP | `rustyn64-rdp/src/lib.rs` | DPC registers, TMEM, tiles, mode registers | the command FIFO; loads, sampling, rasterizing, pixels | `CommandFifo`, `Texture`, `Sampler`, `Raster`, `Pixel`, partly |
| RSP | `rustyn64-rsp/src/{sp,su,vu}.rs` | SP registers, PC and branch latch, vector registers | SP interface, control flow, vector instructions | `SpInterface`, `Vu`, `VuMem`, partly |
| PI, SI, MI | `bus.rs`, `rustyn64-cart/src/pi.rs` | DMA registers, busy latches, interrupt lines | register reads and writes, DMA, direct I/O | `PiBus`, `Joybus`, each device's module, partly |
| PIF, joybus, save memory | `rustyn64-cart/src/{pif,save}.rs` | PIF RAM, EEPROM, Paks, the FlashRAM machine | frames, blocks, Flash commands | `Joybus`, `PiBus`, partly |
| frame handoff | `rustyn64-frontend/src/present_buffer.rs` | three slots, packed roles, `has_new`, one mutex | `publish`, `take_into`, `reset` | `PresentBuffer` (promise: `FrameMailbox`) |
| emulation thread and window | `emu_thread.rs`, `app.rs`, `emu.rs` | the emu mutex, the machine, its pause, the staged frame | one frame per cycle; open, close, reset, pause, quit | `Presentation` |
| pacer and audio ring | `emu_thread.rs`, `audio.rs` | the catch-up schedule, a ring of samples | `frames_due`, `snap_if_behind`, `push`, `pull` | `Pacer` |
| save-states, rewind, run-ahead | `savestate.rs`, `emu.rs` | request flags, slot, snapshot ring | `SaveStateCoordinator::step`, requests | `SaveStates` |
| GPU backend, input handoff, egui shell and wasm, snapshot codec, test harness, placeholder crates | | | | not modelled |

### How they interact

* One `u64`, `master_ticks`, is the clock (ADR 0006). Everything that looks like
  time is derived from it by a division: the edges of the CPU (every 2 ticks) and
  the RCP (every 3), Count (every 4), the VI scan, the AI's samples. A scheduler's
  only freedom is in how it walks from edge to edge.
* At an edge the CPU is stepped before the RCP, so an RCP event is visible to the
  next CPU step and to no earlier one. The RCP's step ticks RSP, RDP, AI, PI and
  VI in that order; they raise lines in the MI, which the CPU samples.
* The CPU drives the devices by register writes (`Bus::write32`) whose order is
  the device's protocol. The SP registers are reached by two processors; PI
  and FlashRAM by any two threads of the program.
* Inside the CPU a stage reads what later stages have not written yet, through
  bypasses; IC and DC go through the MMU and the caches; EX and DC and IC may
  raise, and the oldest exception is dispatched at the end of the cycle.
* `EmuCore` owns the machine. The emulation thread runs one frame under the emu
  mutex, publishes it through `PresentBuffer` and releases the mutex. The window
  thread shows frames without that mutex and takes it for menu actions only. The
  requests to save, load and rewind are atomic flags. The device's callback drains
  the audio ring.

### What is hard about it

* **Equivalence.** Three schedulers do the same work at the same ticks, from each
  phase alignment, however the timeline is cut and with the CPU frozen half way.
* **Edge detection by polling.** Timer and VI interrupts are equalities of two
  registers, met while nobody polls, skipped over, or rewritten by software.
* **Queues of two.** AI and RDP latch the next job while the present one runs; a
  write may belong to either.
* **Copies kept by hand.** `mi_intr.pi`, the lock-free `has_new`, cached tags.
* **State that outlives what it is about.** A reset or another ROM replaces part
  of the machine; the sample schedule, the staged frame, RDRAM, the save slot and
  the rewind ring survive.
* **Two threads and two mutexes**, with flags read before the lock and again
  under it.
* **Precise exceptions** in a pipeline whose stages run back to front in one
  function.
* **Digits.** Soft float, double-width vector arithmetic, texture coordinates, edge
  coverage, packed depth: one bit dropped shows in one mode, at some operands.

The hazards are in `PROJECT.json`, each at the line where it bites.

## Modules

| module | what it is | state and actions, in terms of the code |
|---|---|---|
| `Timebase` | the clock's arithmetic | `IsEdge`, `NextEdgeAfter`, `CpuCycles`, ... of `System`; no state |
| `Lockstep` | the accurate scheduler | `Call`, `Advance` (the loop head), `StepCpu` and `StepRcp` (the halves of `step_domains`), `Land`, `Reset`; histories count the steps each domain took |
| `FastPath` | `run_until_fast` | builds the pattern of one period, replays it (`BlockEdge`, `BlockSkip`, `NextBlock`), hands the tail to `Lockstep`'s actions; refines `Lockstep` with the identity on its variables |
| `ExecPath` | `run_until_exec`, `run_idle_batch` | `TakeInterrupt`, `IdlePair`, `Instruction`, `WriteCompare`, `TouchLines` are what an instruction boundary can be to the scheduler; `CatchUp` steps the RCP over the span; `EndSpan`, `EndPair` run the batch |
| `CountTimer` | Count, Compare, IP7 | one action per kind of cycle (`Stall`, `RunPoll`, `RunWriteCompare`, `RunWriteCount`); beside it a reference, `hwIp7`, compares at every tick |
| `Mmu` | segments, TLB, COP0, exception entry | one action per privileged instruction, `Access` for a load, store or fetch, `Eret`, `TakeNmi` |
| `Fpu` | soft float and its instructions | operators named after the functions of `softfloat.rs`, for a format given as a record; `FpArith` and `Ctc1` execute |
| `Caches` | both caches | one action per access and per CACHE operation; `dOff`, `iOff` are histories: the words of memory changed behind the line that holds them |
| `Pipeline` | the five stages | one operator per stage, composed by `RunCycle` in the code's order; `StallCycle`; beside it `isa`, a machine of one instruction at a time, advanced when one retires |
| `Vi` | the scan | `Tick`, `HalfLine` (one pass of its loop), `EndTick`, `Program`, `Acknowledge`, `Reset` |
| `AiFifo` | the AI | one action per register write, `AiTick` with `emit_sample` in it, `AiReset` |
| `CommandFifo` | DPC registers and drain | the feeder's writes, `Hold` (FREEZE), `FifoTick` |
| `SpInterface` | SP registers, control flow of the scalar unit | the accesses of both processors, one action per kind of RSP instruction |
| `PiBus` | PI, direct I/O, FlashRAM | `PiTick`, and the register accesses of a saving and a streaming thread |
| `Joybus` | SI, PIF RAM, devices | `Send`, `Rearm`, `Run` (`ExecuteFrame`, with its loop `Loop`), `Latch` |
| `Vu`, `VuMem` | vector unit | one operator per instruction or family; a step executes the next instruction of a program |
| `Texture`, `Sampler`, `Raster`, `Pixel` | RDP datapath | tile and load commands and the fetch; coordinates, LOD, divide, filter; spans and coverage; combiner to stored pixel |
| `Pacer` | `Schedule`, `AudioRing` | `Measure`, `Frame`, `Push`, `Snap`, `Woken`; `Pull` for the device; `Elapse` is the clock |
| `FrameMailbox` | what the handoff promises | a mailbox of one frame |
| `PresentBuffer` | the triple buffer | every access to shared state of `publish`, `take_into`, `reset` is a step, the mutex explicit |
| `Presentation` | the two threads | `EmuCheck` ... `Wait` is one cycle of the emulation thread; `Redraw`, the menu actions, `ClearHandoff`, `BlankWindow`, `Quit`, `Join` are the window's |
| `SaveStates` | the coordinator | `ServeLoad` ... `ServeSave` are the parts of one `step`; `Request`, `Replace`, `PauseOrResume` are the window's |
| `...Proofs` | theorems | see below |
| `MC...` | instances for TLC | |

`FastPath` composes `Lockstep`, which it refines. `PresentBuffer` and `Presentation`
meet at `FrameMailbox`: the first implements it, the second uses it, so that
neither has to contain the other. `Texture` puts tiles where `Sampler` looks for
them.

### Abstractions

* What an instruction, a microcode step or a pixel does is left out of the modules
  about order; what it can do to the state they are about (freeze the CPU, move an
  interrupt line, cost some cycles, branch, fault) is a nondeterministic choice.
* A frame, a picture, a ROM is a model value. A machine state in `SaveStates` is a
  ROM and a number of frames; in `Presentation` it is the number of the menu action
  that created it. In `Pipeline` a value is the serial number of its producer.
* Widths are parameters: Count modulo a constant for 2^32, floats of any precision,
  vector lanes of any width, textures and Z of any scale. Where the code has tables
  (reciprocals) the model has their definition at that scale.
* Addresses are counted in the unit a transfer moves: words in `AiFifo` and
  `CommandFifo`, pages in `PiBus`, pages of sixteen in `Mmu`. Masks that are applied
  only on reading are left out.
* Time in `AiFifo` is relative: `due` is how far away the next sample is, and
  `System::reset`, which sends the position back to zero under an AI that keeps
  `next_sample_tick`, lengthens it.

## Runs

A passing run packs several modules that share no state: each behaviour explores
one of them, its `part`, and leaves the others where they began, so the states of a
run are the union of the parts' states and not their product. Deadlock is checked in
every run; the parts' `Bounded` conjuncts name what stops them.

| run | parts and properties | bounds, and why they are enough |
|---|---|---|
| `schedulers` | `Lockstep` + `FastPath`: `Residues`, `NoOvershoot`, `RefinesLockstep`, `WitnessHonest`. `ExecPath`: `OvershootBounded`, `InterruptsInTime`. Both: `RunTerminates` | ticks to 15, two whole edge periods (6 ticks) and a tail, runs of up to 13: every residue of start and length, calls behind, on and between edges, runs of no, one and two whole blocks. `ExecPath` to tick 16 with instructions of up to 3 cycles and Compare 1 or 3: several spans, batches of more than one pair, matches before and inside a batch |
| `front` | `Pacer`: `NeverFast`, `SlowCoreYields`, `HeardInOrder`. `PresentBuffer`: `BytesMatchDims`, `RefinesMailbox`. `Presentation`: `OldFramesDropped`, `JoinReturns`. `SaveStates`: `RewindsInOrder`, `RunAheadUnseen` | a frame of 3 ticks, bursts of 3, clock to 16: a full burst, a snap, a nap; a ring of 5 samples for frames of 2, so that a push evicts part of a frame; 3 frames of two sizes in three slots; 3 menu actions that end a machine, before, during and after a frame and again during its blanking; a ring of 2 snapshots every second frame with one speculative frame, 7 frames, 4 requests: it overflows and is emptied, and requests fall at every point of a step |
| `rcp` | `Vi`: `ScanIsTime`, `OneInterruptPerLanding`. `AiFifo`: `PlaysWhatWasQueued`. `CommandFifo`: `InOrderOnce`. `PiBus`: `SavedIsRead`, `ChainDelivers`. AI and FIFO: `QueuesDrain` | a 240 Hz clock, fields of up to 8 half-lines, ticks shorter and longer than a half-line, two PAL and NTSC totals, time to 60; AI pages of 4 words, transfers of 2 from the start and the middle of a page (so that the carry is set, deferred, discarded) and of none, two rates, one reset of a machine younger or older than a period; 3 RDP commands of one and two words, one of them holding the FIFO, lists in two buffers; FlashRAM of 3 pages in 2 sectors with 2 bits a page, 2 saves, a ROM of 2 pages (a chain), direct stores of 2 cycles |
| `units` | `CountTimer`: `TimerExact`. `Mmu`: `ServesHandler`. `Fpu`: `Rounded`, `TrapOrCommit`. `Joybus`: `RepliesArrive`. `SpInterface`: `SharedSp` | Count modulo 7 and stalls to 4 cycles: over a match, over the wrap, over both; 2 TLB entries (both can match), 3 pages, 2 ASIDs, 4 privileged writes (fill, retry, rewrite, one more); every pair of operands of two formats of 3 and 4 bits of precision in every rounding mode, and the traps; a PIF RAM of 16 bytes with one port and the cartridge's channel, every frame of up to 3 items that fits, run twice; 4 words of IMEM and 2 transfers, so that both processors get one |
| `cpu` | `Pipeline`: `RetiresInOrder`. `Caches`: `WrittenBackMeansVisible`, `NoStoreLost` | 4 instructions fetched (then nops) out of 14 kinds, with any stall, fault, miss, interrupt at any cycle: one instruction for each stage before WB, so that each pair of stages has met; words of two data lines that share an index and lie in one instruction line, two values |
| `engines` | `Vu`: `VectorExact`. `VuMem`: `MovesCompose`. `Texture`: `TexelsFound`. `Sampler`: `SamplesAgree`. `Raster`: `CoverageExact`. `Pixel`: `NearestWins`, `ColorsMix`, `DecalSticks` | lanes of 3 bits, all pairs of double-width numbers; a DMEM of 128 bytes at every alignment and across its end; a TMEM of 8 words, three texel sizes, tiles with lines longer than their rows; texels of 8 steps with every pairing of mask, mirror, clamp and shift; an image of 5 by 2 pixels with pairs of triangles that share an edge at every eighth; scaled-down depths and colors, every blender and combiner setup of a list that mixes two layers, decals and fog |
| `counttimer_lost`, `presentation_old_picture`, `savestates_same_rom`, `aififo_stopped`, `pipeline_drained`, `vu_staged_half` | *(violated)* one property each, see the next section but one | as above, smaller |

### Fairness

* Schedulers: weak fairness of the steps of a call in progress. A call is one
  function on one thread; callers are not assumed to call.
* `MCRcp`: weak fairness of `AiTick` and `FifoTick`; the schedulers step the RCP,
  and it the RDP and the AI, at every one of its edges. Software is not assumed to
  write anything, or to unfreeze the FIFO.
* `PresentBuffer`: weak fairness of both threads inside their operations, strong
  fairness of the window's lock acquisition, for its own specification; no property
  of the runs rests on it.
* `Presentation`: weak fairness of both threads, strong fairness of the emulation
  thread's acquisition of the emu mutex. `std::sync::Mutex` promises no fairness; the
  assumption rests on the window's taking that mutex on a click only.
* The other parts have none; their properties are safety.

## Where the code disagrees with what is said of it

1. **A timer match can be lost** (`counttimer_lost`). A match made during a stall is
   not polled until the next run cycle; if that cycle commits MTC0 Count, the write
   re-bases the detector first. `pipeline.rs` says of the stall branch that it
   records the match; `cop0.rs` calls losing one a hang. `TimerExact` proves that
   this is the only way to lose one.
2. **A warm reset stops the DAC** (`aififo_stopped`). `System::reset` takes
   `master_ticks` to zero and rebases the VI scan, for the reason its comment gives,
   but not `Audio::next_sample_tick`. With a transfer queued, opening another ROM
   leaves the AI silent, `FULL` set and its interrupt withheld for as long as the
   first ROM had been running. (An idle queue heals itself: the first `AI_LENGTH`
   re-anchors.)
3. **The old picture comes back** (`presentation_old_picture`). The window is blanked
   so as not to show the old ROM's picture, but the staged frame, RDRAM and the VI
   registers survive `load_rom`, and the next frame published shows the old picture
   until the new program draws; when paused, until it is resumed.
4. **Snapshots cross ROMs** (`savestates_same_rom`). `EmuCore::restore` is said to
   refuse a mismatched blob, but checks nothing and attaches the ROM inserted now;
   opening a ROM clears neither the slot nor the ring.
5. **The pipeline is not drained when an exception is dispatched** (`pipeline_drained`).
   The comment at the dispatch says it is; an older ERET waiting in RF/EX while the
   fetch behind it faults, or an older MTC0 one stage further, executes after EPC and
   EXL were written and undoes or overwrites them. `RetiresInOrder` is therefore
   about entries that no such instruction overtakes.
6. **A staged half outlives its neighbour** (`vu_staged_half`). `vu.rs` says of `pending`,
   and `docs/rsp.md` after it, that the half was staged by the immediately preceding
   instruction, and that a VRCPL otherwise takes its 16-bit lane. Nothing outside the
   reciprocal unit clears `pending`, and VMOV and VNOP do not either: a VRCPL uses a half
   staged any number of such instructions before. `VectorExact` states that, for the code
   of another routine scheduled between the two.
7. **VLT and VGE are complements.** `docs/rsp.md` (367-370) says that on equal operands
   both can be false, and a test (`vu.rs:2373`) is named and worded for it. In
   `compare_lane` the two equality terms are negations of each other, so under every VCO
   exactly one of them holds; the test itself asserts one true and the other false. This
   one has no run of its own, being about one operator: `VectorExact`, in which each of
   the two chooses as the double-width numbers compare, could not pass otherwise.

Smaller things met on the way, without a run of their own:

* The idle batch of `run_until_exec` starts from facts established before the last
  span, so it may run one pair with an interrupt line already up, and its timer bound
  counts from the last poll. `InterruptsInTime` states the lateness that does hold.
* With `interval_frames` 1 the frame run by a rewinding step is captured at once, and
  a second rewind goes nowhere; `RewindsInOrder` promises progress for the intervals
  above one, and the default is 6.
* The two writes that point the AI at a buffer each pick the slot that is free at that
  moment. When the transfer ahead drains between them, the address stays in slot 1 and
  the length queues slot 0, which plays on from where the drained one ended.
  `PlaysWhatWasQueued` takes an address to be a transfer's only while it is in the slot
  that transfer will use.
* A paused core is captured on every step, and its ring fills with copies
  (`savestate.rs:105`). `CloseRom` leaves the new core on the default output rate
  (`app.rs:240`).
* A flat z-buffered triangle in 1- or 2-cycle mode is written from the FILL register
  (`rustyn64-rdp/src/lib.rs:3196`), where the comment at 2465-2484 has the combiner
  decide.

## Proofs

A theorem holds for every value of the constants under the assumptions named, which
TLC evaluates on the instances it runs. Each rests on an inductive invariant that was
first checked by TLC, and its proof has a step per action.

| module | theorems | inductive invariant, and why the property alone is not enough |
|---|---|---|
| `SchedulersProofs`, `Lockstep` (`BoundsAssumption`) | `TypeCorrect`, `ResidueInvariants`, `NeverOvershoots` | `WorkInv`: the residues with the constant part at tick zero removed, and that `step_domains` is not entered at tick zero. Lemmas: counts move at edges, by one; nothing lies between a tick and its next edge |
| `FastPath` | `BailoutInvariant` (the refinement), `WitnessCorrect` | `FastInv` = `PatternInv` (the pattern is the edges of a period from the call's tick), `BlockInv` (where the block stands against it), `ReportInv`. Lemma `Periodic`: shifting by a period changes no edge |
| `ExecPath` (`CostsAssumption`: some instruction costs a pair) | `ExecResidueCorrect`, `OvershootCorrect`, `InTimeCorrect` | `ExecInv` = `PlaceInv` (spans begin where the last ended), `RoomInv` (a batch fits before the target), `BatchSeesIrq`, `TimerInv` (Count against Compare since the last poll) |
| `UnitsProofs`, `CountTimer` (`TimerAssumption`: a stall is shorter than a turn of Count) | `TypeCorrect`, `TimerCorrect` | `TimerInv`: how far Count can be from where it was polled, and that the detector's window is open exactly when the reference latched inside the stall |
| `Mmu` (`MmuAssumption`) | `HandlersServed` | `MmuInv`: `AboveWired` (Random is between Wired and the last entry, or waits to pass it), `HiNamesFault`, `Repairable`. Lemmas: a pair of pages is aligned to its size, one write makes an entry match, the closed form of Random over n retired instructions is n ticks |
| `Caches` (`CachesAssumption`: memory is whole lines) | `VisibleCorrect`, `StoresCorrect` | `CacheInv`: a line's tag names a line of memory with its index (`Named`), a clean line equals memory unless memory was changed behind it (`DClean`, `IClean`) |
| `Fpu` (`FpuAssumption`: software writes the fields FCSR has) | `CommitCorrect` | `FpuInv`: with it, that the control register keeps its fields. Lemmas: rounding and each operation raise conditions of IEEE 754 only, so that the sixth marks what is left to software |
| `PipelineProofs`, `Pipeline` (`PipelineAssumption`) | `PipelineTypes`, `RetirementCorrect` | `PipeInv`, by flushing: were the latches to retire oldest first, each holds what the sequential machine has come to (`Reached`, `Accessed`, `Executed`, `Fetching`, `Dispatching`); `Chronology` orders sequence numbers and epochs and says which exceptions may change COP0. Kept by each stage, and so stated between stages of one cycle, where the latches of two instructions are one apart. Lemmas: an older write the bypass cannot see stalls its reader, an abort leaves exactly the instructions ahead of it |
| `RcpProofs`, `Vi` (`ViAssumption`, `TicksAreShort`: a tick is shorter than the shortest field) | `ScanCorrect`, `InterruptsCorrect` | `ViInv`: remainder and half-lines add up to the time elapsed, and the skip bound is below every period; `OnceInv`: interrupts against landings at each point of the loop |
| `AiFifo` (`AiAssumption`: a rate is slower than the RCP step) | `QueuedCorrect` | `AiInv`: for each slot where it started and how far it is, and whether the carry belongs to it or to the one before |
| `CommandFifo` (`FifoAssumption`) | `ExecutedCorrect` | `FifoInv`: memory between CURRENT and END, then the latched list, then what the feeder has written, is a chain of the commands submitted and not yet executed |
| `DevicesProofs`, `SpInterface` (`SpAssumption`: two words of IMEM) | `SharedSpCorrect` | `SpInv`: the semaphore's holder is the one processor in a transfer, and the latches hold what it wrote |
| `PiBus` (`PiAssumption`) | `SavedCorrect`, `ChainCorrect` | `PiInv`: where the chip stands for each place of the saving thread (`ChipAt`), what its buffers hold (`SaveAt`), and where each thread's transfer is (`SaverMoves`, `StreamerMoves`) |
| `FrontProofs`, `Pacer` (`PacerAssumption`) | `NeverFastCorrect`, `YieldCorrect`, `HeardCorrect` | `PaceInv`: frames produced against the schedule at each place of the loop; `RingInv`: the ring is an interval of the stream behind what was heard |
| `PresentBuffer` (`GeometryAssumption`) | `ContractCorrect`, `FlagCorrect`, `MailboxRefined` | `BufInv` = `LockInv`, `EmuInv`, `UiInv`: what each thread may rely on at each line under the mutex; the mailbox is READY when `has_new` is set |
| `Presentation` (`ActionsAssumption`) | `OldFramesCorrect` | `PresInv`: who holds the mutex, and which machine a frame under way belongs to |
| `EnginesProofs`, `Texture` (`TextureAssumption`: TMEM is whole pairs of words) | `TexelsCorrect` | `TextureInv`: each load that writes no byte of TMEM twice, and whose words no later load has touched, still has every byte where it put it. The rest is arithmetic: a sound load writes no byte twice (`TileOnce`, `BlockOnce`, `TlutOnce`), and where the fetch looks for a byte is where the load put it, for each texel size, in odd rows and across the split of TMEM. Lemmas: the swap of an odd row stays in its word and undoes itself, a wrap of TMEM keeps the offset in a word, a block's dxt makes the rows a tile of that line has |
| `Pixel` (`PixelAssumption`: depths and slopes have seven bits more than a mantissa; modes select what the tables of inputs have, colors are eight bits) | `NearestCorrect`, `DecalsCorrect`, `ColorsCorrect` | `PixelInv`: the depth stored is the last surface's, or the far plane's, and what it reads as is no farther than any fragment that was compared and kept. Lemmas: depths of one exponent are a whole number of steps from the near plane, a stored depth reads as the least of those stored alike, less than a step and less than one part in `Mantissas` of the way to the far plane before them; and the slope a decal is allowed is never less than a step. For the colors, under modes that interpolate (`Mixing`: a combiner that returns to what it subtracts, or subtracts nothing; a blender of a share and the rest; no sharpened level), `MixInv`: the layers have a darkest and a brightest, and the pixel's level is between two of theirs. Lemmas: a difference times a share of one is between nothing and the difference, so nine bits hold an interpolation (`ChannelIs`); weights that make 32 mix (`SharedIs`); the pixel read back is on the same level (`PixelReads`) |
| `Raster` (`RasterAssumption`: a pixel is whole eighths, commands hold integers, a scissor encloses something) | `CoverageCorrect` | `RasterInv`: a pixel reads as the coverage stored for it, and a sample of a mesh that was covered lies in a triangle drawn. Lemmas: the sticky bit makes a truncated edge pass exactly the even eighths that the edge passes (`QuantizeIs`), the scissor's clamp moves an edge across no sample inside it, and so a sample is covered when it is between the exact edges and in the scissor (`CoverIs`); the scissor's bounds of each of the four kinds of primitive, inside and outside |
| `VuMem` (`VuMemAssumption`: DMEM is whole lines of sixteen bytes and holds the matrix that is turned; registers and memory hold bytes) | `MovesCorrect` | `MovesInv`: for each program, what its instructions so far have left and where (`LoadInv` to `MoveInv`): after the k-th transposing store the first k rows, after the k-th load the diagonals across them. Lemmas: a store whose bytes lie in a window shorter than DMEM leaves each where it was sent and no other byte changed (`StoreLeaves`), the offset in a line survives a turn around DMEM (`OffsetIs`), and the element's arithmetic, which the loads do one way and the stores another, meets (`FourthIs`, `Diagonal`, `AllRotated`) |
| `SaveStatesProofs` (`ConfigAssumption`; an interval above one) | `RewindsCorrect`, `RunAheadCorrect` | `StatesInv`: the ring's snapshots are an interval apart, the newest as old as the counter says, and each place of a step is one frame on from where the step began |

`ExecResidueCorrect`, the two `TypeCorrect`, `PipelineTypes` and `FlagCorrect` state invariants no run lists:
they are conjuncts the others rest on.

### Model-checked only

* **Liveness**: `RunTerminates`, `JoinReturns`, `QueuesDrain`. The prover has no rule
  for fairness and no ENABLED.
* **`RepliesArrive`**: the joybus loop is a RECURSIVE operator, and what it computes
  for every frame would need induction over the frame.
* **`Rounded`**, `VectorExact`, `SamplesAgree`: they quantify over the digits
  of an arithmetic (shifts, products, tables) beyond what the SMT backend decides for
  symbolic widths; of `2 ^ n`, in which the widths are written, no backend knows even
  that it doubles, and that would itself need an induction over n. What the FPU's
  digits raise, as against what they are, is proved (`CommitCorrect`). TLC tries every operand of the small formats instead.

## Not modelled, and why

* **Values of scalar instructions** (CPU and RSP ALUs, `alu.rs`, `exec.rs`,
  `decode.rs`): pure functions of their operands with tests of their own; the
  modules about order abstract them to "produced by".
* **The MI's mode and mask, RI**: plain storage. Each device's own bit in `MI_INTR` is
  in its module.
* **Boot paths and cartridge headers** (`boot.rs`, `rustyn64-cart/src/lib.rs`):
  sequential parsing; only the NMI freeze that a failed boot leaves matters later, and
  `Lockstep` and `ExecPath` have it.
* **RDP chroma key, YUV and the span interpolators; SRAM; AI resampling; the
  FPU's register file views; Context, XContext and watch registers; the micro-TLB**:
  left out of modules that model the rest of their component.
* **GPU backend** (an external Vulkan library), **input handoff** (four unrelated
  atomics), **window, menus, wasm, snapshot codec, test harness** (I/O, layout,
  serialization), **achievements and netplay** (placeholders).

## Plan

1. Done: the model of the components above and their runs; the invariants of every
   component whose state is more than digits, the pipeline's included.
2. Done: the datapaths whose widths can stay symbolic and need no powers of two: where
   a texel is loaded and fetched, the order of depths, and which samples a triangle
   covers.
3. Candidates beyond that: the MI mask against the CPU's sampled line, SRAM and the
   domains of the PI, the audio servo, the dirty-page handoff to the GPU backend.
