------------------------------ MODULE MCFront ------------------------------
(***************************************************************************)
(* The frontend's machinery around the core: the frame handoff, the two    *)
(* threads that use it, the save-state coordinator and the pacer.  Each is *)
(* modelled against the contract of the others, so a behaviour explores    *)
(* one of them, its part, and leaves the others where they began: the run  *)
(* is their union and not their product.                                   *)
(***************************************************************************)
EXTENDS Pacer, PresentBuffer, Presentation, SaveStates

VARIABLE part

\* Three frames of two geometries: one more than the slots the consumer does not hold,
\* and a size change in between.
MCGeometry ==
  [a |-> "320x240", b |-> "320x240", c |-> "625x237", empty |-> "0x0", black |-> "320x240"]

front == <<part, vars, bufferVars, threadVars, stateVars>>

FrontInit ==
  /\ part \in {"pacer", "buffer", "threads", "states"}
  /\ Init /\ BufferInit /\ ThreadsInit /\ StatesInit
  /\ part = "buffer" \/ frame = "a"
  /\ part = "threads" \/ cart = 0

Others(own) ==
  /\ part' = part
  /\ IF own = "pacer" THEN TRUE ELSE UNCHANGED vars
  /\ IF own = "buffer" THEN TRUE ELSE UNCHANGED bufferVars
  /\ IF own = "threads" THEN TRUE ELSE UNCHANGED threadVars
  /\ IF own = "states" THEN TRUE ELSE UNCHANGED stateVars

In(own, A) == part = own /\ Others(own) /\ A

\* The bounds on the clock and on a session end a behaviour of the pacer and of the
\* coordinator; the others go on.
Bounded == part \in {"pacer", "states"} /\ UNCHANGED front

FrontNext ==
  \/ In("pacer", Next) \/ In("buffer", BufferNext)
  \/ In("threads", ThreadsNext) \/ In("states", StatesNext) \/ Bounded

\* Both threads run, and the emulation thread is not kept from the mutex for ever.
FrontSpec ==
  /\ FrontInit /\ [][FrontNext]_front
  /\ WF_front(In("threads", ThreadRun)) /\ WF_front(In("threads", WindowRun))
  /\ SF_front(In("threads", EmuTakeLock))
=============================================================================
