--------------------------- MODULE PresentBuffer ----------------------------
(***************************************************************************)
(* PresentBuffer (rustyn64-frontend, present_buffer.rs), the triple buffer *)
(* between the emulation thread and the window, with the code of App that  *)
(* consumes it (take_present, blank_presentation).                         *)
(*                                                                         *)
(* Two threads.  "emu" publishes; "ui" takes, or blanks.  Both take the one*)
(* mutex over the slots; has_new is also read before taking it, and the    *)
(* generation is bumped after it is released.  Each access to shared state *)
(* is a step.  A buffer's bytes stand for the frame copied into it, and    *)
(* Geometry gives the dimensions a frame was produced with.                *)
(***************************************************************************)
EXTENDS Naturals

CONSTANTS Frames, EmptyFrame, BlackFrame, Geometry

ASSUME GeometryAssumption ==
  /\ EmptyFrame \notin Frames /\ BlackFrame \notin Frames /\ EmptyFrame # BlackFrame
  /\ DOMAIN Geometry = Frames \cup {EmptyFrame, BlackFrame}
  /\ \A f \in Frames \cup {BlackFrame} : Geometry[f] # Geometry[EmptyFrame]

VARIABLES
  bufs, dims,   \* the three slots' bytes and dimensions
  index,        \* the packed roles: who is front, ready and back
  hasNew,       \* the has_new flag
  published,    \* generation > 0
  lock,         \* who holds the mutex, or "free"
  emuPc, frame, \* the producer's position, and the frame it publishes
  uiPc,         \* the consumer's position
  staging, fbDims   \* App's copy of the last frame taken, and its dimensions

shared == <<bufs, dims, index, hasNew, published, lock>>
bufferVars == <<shared, emuPc, frame, uiPc, staging, fbDims>>

Slot == 0 .. 2
Content == Frames \cup {EmptyFrame}
Sizes == {Geometry[f] : f \in DOMAIN Geometry}

BufferTypeOK ==
  /\ bufs \in [Slot -> Content]
  /\ dims \in [Slot -> Sizes]
  /\ index \in [front : Slot, ready : Slot, back : Slot]
  /\ {index.front, index.ready, index.back} = Slot
  /\ hasNew \in BOOLEAN /\ published \in BOOLEAN
  /\ lock \in {"free", "emu", "ui"}
  /\ emuPc \in {"idle", "lock", "bytes", "dims", "swap", "flag", "unlock", "bump"}
  /\ frame \in Frames
  /\ uiPc \in {"idle", "lock", "flag", "swap", "copy", "unlock",
               "rlock", "rflag", "rindex", "rbufs", "rdims", "runlock", "black"}
  /\ staging \in Frames \cup {EmptyFrame, BlackFrame}
  /\ fbDims \in Sizes

INIT_INDEX == [front |-> 0, ready |-> 1, back |-> 2]
SwapReadyBack(idx) == [idx EXCEPT !.ready = idx.back, !.back = idx.ready]
SwapFrontReady(idx) == [idx EXCEPT !.front = idx.ready, !.ready = idx.front]

BufferInit ==
  /\ bufs = [s \in Slot |-> EmptyFrame]
  /\ dims = [s \in Slot |-> Geometry[EmptyFrame]]
  /\ index = INIT_INDEX
  /\ hasNew = FALSE /\ published = FALSE
  /\ lock = "free"
  /\ emuPc = "idle" /\ frame \in Frames
  /\ uiPc = "idle"
  /\ staging = BlackFrame /\ fbDims = Geometry[BlackFrame]

-----------------------------------------------------------------------------
\* The producer: publish(frame, dims).
Emu(from, to) == emuPc = from /\ emuPc' = to /\ UNCHANGED <<uiPc, staging, fbDims>>

PublishCall(f) ==
  /\ Emu("idle", "lock")
  /\ frame' = f
  /\ UNCHANGED shared

PublishLock ==
  /\ Emu("lock", "bytes")
  /\ lock = "free" /\ lock' = "emu"
  /\ UNCHANGED <<bufs, dims, index, hasNew, published, frame>>

\* The slot the producer writes.
WriteSlotBug == index.ready
WriteSlot == index.back

PublishBytes ==
  /\ Emu("bytes", "dims")
  /\ bufs' = [bufs EXCEPT ![WriteSlot] = frame]
  /\ UNCHANGED <<dims, index, hasNew, published, lock, frame>>

\* The dimensions that go with a frame's bytes; the slip is to leave the ones
\* the slot had.
DimsOfBug(f) == dims[WriteSlot]
DimsOf(f) == Geometry[f]

PublishDims ==
  /\ Emu("dims", "swap")
  /\ dims' = [dims EXCEPT ![WriteSlot] = DimsOf(frame)]
  /\ UNCHANGED <<bufs, index, hasNew, published, lock, frame>>

PublishSwap ==
  /\ Emu("swap", "flag")
  /\ index' = SwapReadyBack(index)
  /\ UNCHANGED <<bufs, dims, hasNew, published, lock, frame>>

PublishFlag ==
  /\ Emu("flag", "unlock")
  /\ hasNew' = TRUE
  /\ UNCHANGED <<bufs, dims, index, published, lock, frame>>

PublishUnlock ==
  /\ Emu("unlock", "bump")
  /\ lock' = "free"
  /\ UNCHANGED <<bufs, dims, index, hasNew, published, frame>>

\* The generation counter, bumped outside the lock.
PublishBump ==
  /\ Emu("bump", "idle")
  /\ published' = TRUE
  /\ UNCHANGED <<bufs, dims, index, hasNew, lock, frame>>

-----------------------------------------------------------------------------
\* The consumer: take_into, called by App::take_present on every redraw.
Ui(from, to) == uiPc = from /\ uiPc' = to /\ UNCHANGED <<emuPc, frame>>

\* The check made without the lock: nothing new, keep the previous frame.
TakeCheck ==
  /\ Ui("idle", IF hasNew THEN "lock" ELSE "idle")
  /\ UNCHANGED <<shared, staging, fbDims>>

TakeLock ==
  /\ Ui("lock", "flag")
  /\ lock = "free" /\ lock' = "ui"
  /\ UNCHANGED <<bufs, dims, index, hasNew, published, staging, fbDims>>

\* What the locked swap of has_new leaves behind.
FlagAfterTake == FALSE

TakeFlag ==
  /\ Ui("flag", IF hasNew THEN "swap" ELSE "unlock")
  /\ hasNew' = FlagAfterTake
  /\ UNCHANGED <<bufs, dims, index, published, lock, staging, fbDims>>

TakeSwap ==
  /\ Ui("swap", "copy")
  /\ index' = SwapFrontReady(index)
  /\ UNCHANGED <<bufs, dims, hasNew, published, lock, staging, fbDims>>

\* The slot read is the one that was ready before the swap, now the front.
TakeCopy ==
  /\ Ui("copy", "unlock")
  /\ staging' = bufs[index.front]
  /\ fbDims' = dims[index.front]
  /\ UNCHANGED shared

TakeUnlock ==
  /\ Ui("unlock", "idle")
  /\ lock' = "free"
  /\ UNCHANGED <<bufs, dims, index, hasNew, published, staging, fbDims>>

\* The consumer blanks: PresentBuffer::reset, then its own copy turns black.
\* has_new used to be cleared before the lock was taken (the comment in reset
\* tells the story); FlagClearedAt says where it is.
FlagClearedAt == "rflag"
FlagInReset(pc) == IF pc = FlagClearedAt THEN FALSE ELSE hasNew

ResetCall ==
  /\ Ui("idle", "rlock")
  /\ hasNew' = FlagInReset("idle")
  /\ UNCHANGED <<bufs, dims, index, published, lock, staging, fbDims>>

ResetLock ==
  /\ Ui("rlock", "rflag")
  /\ lock = "free" /\ lock' = "ui"
  /\ UNCHANGED <<bufs, dims, index, hasNew, published, staging, fbDims>>

ResetFlag ==
  /\ Ui("rflag", "rindex")
  /\ hasNew' = FlagInReset("rflag")
  /\ published' = FALSE
  /\ UNCHANGED <<bufs, dims, index, lock, staging, fbDims>>

ResetIndex ==
  /\ Ui("rindex", "rbufs")
  /\ index' = INIT_INDEX
  /\ UNCHANGED <<bufs, dims, hasNew, published, lock, staging, fbDims>>

ResetBufs ==
  /\ Ui("rbufs", "rdims")
  /\ bufs' = [s \in Slot |-> EmptyFrame]
  /\ UNCHANGED <<dims, index, hasNew, published, lock, staging, fbDims>>

ResetDims ==
  /\ Ui("rdims", "runlock")
  /\ dims' = [s \in Slot |-> Geometry[EmptyFrame]]
  /\ UNCHANGED <<bufs, index, hasNew, published, lock, staging, fbDims>>

ResetUnlock ==
  /\ Ui("runlock", "black")
  /\ lock' = "free"
  /\ UNCHANGED <<bufs, dims, index, hasNew, published, staging, fbDims>>

BlankStaging ==
  /\ Ui("black", "idle")
  /\ staging' = BlackFrame
  /\ fbDims' = Geometry[BlackFrame]
  /\ UNCHANGED shared

-----------------------------------------------------------------------------
EmuRun == \/ PublishLock \/ PublishBytes \/ PublishDims \/ PublishSwap
          \/ PublishFlag \/ PublishUnlock \/ PublishBump

UiLocks == TakeLock \/ ResetLock
UiRun == \/ TakeCheck \/ TakeFlag \/ TakeSwap \/ TakeCopy \/ TakeUnlock
         \/ ResetFlag \/ ResetIndex \/ ResetBufs \/ ResetDims
         \/ ResetUnlock \/ BlankStaging

BufferNext == EmuRun \/ UiLocks \/ UiRun \/ ResetCall \/ \E f \in Frames : PublishCall(f)

\* The threads run; the window redraws again and again; and a producer that
\* sleeps for most of each frame period (block_until_native) cannot take the
\* mutex away from the window for ever.
Fairness == WF_bufferVars(EmuRun) /\ WF_bufferVars(UiRun) /\ SF_bufferVars(UiLocks)

BufferSpec == BufferInit /\ [][BufferNext]_bufferVars /\ Fairness

-----------------------------------------------------------------------------
\* The bytes/dims contract of take_present: whatever App holds between two
\* calls has the dimensions it was produced with, and is never an emptied slot.
BytesMatchDims ==
  uiPc = "idle" => staging # EmptyFrame /\ fbDims = Geometry[staging]

\* "has_new and the dims ARE under the lock": the flag never announces a slot
\* that is empty or half written, whoever is where.
FlagMeansFrame ==
  hasNew /\ lock # "ui" =>
    /\ bufs[index.ready] \in Frames
    /\ dims[index.ready] = Geometry[bufs[index.ready]]

\* The handoff is a mailbox of one frame; a put takes effect where has_new and
\* the index both say so, a take where it wins has_new.
Mailbox == INSTANCE FrameMailbox WITH
  box   <- IF hasNew THEN bufs[index.ready] ELSE EmptyFrame,
  Empty <- EmptyFrame, Black <- BlackFrame,
  shown <- CASE uiPc = "swap" -> bufs[index.ready]
             [] uiPc = "copy" -> bufs[index.front]
             [] OTHER         -> staging
RefinesMailbox == Mailbox!Spec
=============================================================================
