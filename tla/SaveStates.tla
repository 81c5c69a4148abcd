----------------------------- MODULE SaveStates -----------------------------
(***************************************************************************)
(* Save-states, rewind and run-ahead (rustyn64-frontend, savestate.rs and  *)
(* the snapshot/restore half of emu.rs).  SaveStateCoordinator::step runs  *)
(* on the emulation thread, under the emu mutex, once per displayed frame; *)
(* the window thread sets request flags at any time (App::window_event) and*)
(* replaces the machine under the mutex (App::dispatch).                   *)
(*                                                                         *)
(* A machine state is the ROM it was booted from and the number of frames  *)
(* run since.  A snapshot is a machine state: the blob leaves the ROM image*)
(* out, and restore attaches the cartridge inserted now.                   *)
(***************************************************************************)
EXTENDS Naturals, Sequences

CONSTANTS
  Roms, NoRom,
  Interval, RingCapacity, \* RewindConfig
  AheadFrames,          \* RunAhead::frames
  MaxPos,               \* bound: frames run since a boot
  MaxUserActions        \* bound: what the user does, in one session

ASSUME ConfigAssumption ==
  /\ NoRom \notin Roms
  /\ Interval \in Nat \ {0} /\ RingCapacity \in Nat \ {0}
  /\ AheadFrames \in Nat
  /\ MaxPos \in Nat /\ MaxUserActions \in Nat

VARIABLES
  sys,       \* EmuCore::system
  inserted,  \* the cartridge inserted
  held,
  snaps, since,             \* RewindRing::snaps and since_capture
  saveReq, loadReq, rewindReq, slot,   \* SaveStateControls
  stepPc, ahead, committed, \* the step in progress, and RunAhead::step's locals
  begun,     \* history: the machine state the step's frame was run from
  rewound,   \* history: where the last step's rewind landed, if it rewound
  disturbed, \* history: the ring has been filled while paused, or outlived its
             \* timeline (a slot was loaded, or the machine replaced)
  actions    \* history: what the user has done so far

emuCore == <<sys, inserted, held>>
requests == <<saveReq, loadReq, rewindReq>>
rewind == <<snaps, since>>
history == <<begun, rewound, disturbed>>
stateVars == <<emuCore, rewind, requests, slot, stepPc, ahead, committed, history, actions>>

Machine == [rom : Roms \cup {NoRom}, pos : 0 .. MaxPos]
Nothing == [rom |-> NoRom, pos |-> 0]

StatesTypeOK ==
  /\ sys \in Machine /\ inserted \in Roms \cup {NoRom} /\ held \in BOOLEAN
  /\ snaps \in Seq(Machine) /\ Len(snaps) <= RingCapacity
  /\ since \in 0 .. Interval - 1
  /\ saveReq \in BOOLEAN /\ loadReq \in BOOLEAN /\ rewindReq \in BOOLEAN
  /\ slot \in {<<>>} \cup {<<m>> : m \in Machine}
  /\ stepPc \in {"idle", "rewind", "commit", "ahead", "restore", "capture", "save"}
  /\ ahead \in 0 .. AheadFrames
  /\ committed \in Machine
  /\ begun \in Machine
  /\ rewound \in {<<>>} \cup {<<p>> : p \in 0 .. MaxPos}
  /\ disturbed \in BOOLEAN
  /\ actions \in 0 .. MaxUserActions

StatesInit ==
  /\ sys = Nothing /\ inserted = NoRom /\ held = FALSE
  /\ snaps = <<>> /\ since = 0
  /\ saveReq = FALSE /\ loadReq = FALSE /\ rewindReq = FALSE /\ slot = <<>>
  /\ stepPc = "idle" /\ ahead = 0 /\ committed = Nothing
  /\ begun = Nothing /\ rewound = <<>> /\ disturbed = FALSE
  /\ actions = 0

-----------------------------------------------------------------------------
Step(from, to) == stepPc = from /\ stepPc' = to

\* EmuCore::run_frame.  (The frame it stages is Presentation's business.)
Ran(m) == IF held THEN m ELSE [m EXCEPT !.pos = @ + 1]
RunCoreFrame == sys' = Ran(sys)

\* Bound: there is room for one displayed frame.
AtBound == ~held /\ sys.pos + 1 + AheadFrames > MaxPos

\* SaveStateCoordinator::step, restore requests: first the slot...
ServeLoad ==
  /\ Step("idle", "rewind")
  /\ ~AtBound \/ loadReq \/ rewindReq
  /\ loadReq' = FALSE
  /\ IF loadReq /\ slot # <<>>
       THEN sys' = slot[1] /\ disturbed' = TRUE
       ELSE UNCHANGED <<sys, disturbed>>
  /\ UNCHANGED <<inserted, held, rewind, saveReq, rewindReq, slot, ahead,
                 committed, begun, rewound>>

\* The snapshot a rewind pops, the most recent one, and the countdown it leaves.
Popped == snaps[Len(snaps)]
CountdownBug == since
Countdown == 0

\* ... then RewindRing::rewind.
ServeRewind ==
  /\ Step("rewind", "commit")
  /\ rewindReq' = FALSE
  /\ IF rewindReq /\ snaps # <<>>
       THEN /\ sys' = Popped
            /\ snaps' = SubSeq(snaps, 1, Len(snaps) - 1)
            /\ since' = Countdown
            /\ rewound' = <<Popped.pos>>
            /\ disturbed' = (disturbed /\ Len(snaps) > 1)
       ELSE rewound' = <<>> /\ UNCHANGED <<sys, snaps, since, disturbed>>
  /\ UNCHANGED <<inserted, held, saveReq, loadReq, slot, ahead, committed,
                 begun>>

\* RunAhead::step, the frame of the real timeline: its audio is kept.
Commit ==
  /\ stepPc = "commit"
  /\ ~AtBound
  /\ stepPc' = IF AheadFrames = 0 THEN "capture" ELSE "ahead"
  /\ begun' = sys
  /\ RunCoreFrame
  /\ committed' = sys'
  /\ ahead' = AheadFrames
  /\ UNCHANGED <<inserted, held, rewind, requests, slot, rewound, disturbed>>

\* A speculative frame: its audio is discarded.
RunAhead ==
  /\ stepPc = "ahead"
  /\ RunCoreFrame
  /\ ahead' = ahead - 1
  /\ stepPc' = IF ahead = 1 THEN "restore" ELSE "ahead"
  /\ UNCHANGED <<inserted, held, rewind, requests, slot, committed, begun, rewound,
                 disturbed>>

\* A mutant: run-ahead stays where it has run to.
BackToBug == sys
\* Back to the committed point.
BackTo == committed

Restore ==
  /\ Step("restore", "capture")
  /\ sys' = BackTo
  /\ UNCHANGED <<inserted, held, rewind, requests, slot, ahead, committed,
                 history>>

\* RewindRing::on_frame: every Interval frames, the oldest snapshot dropped when
\* the ring is full.  A paused core is captured too.
DueBug == since + 2 >= Interval
Due == since + 1 >= Interval
KeptSnaps == IF Len(snaps) >= RingCapacity THEN Tail(snaps) ELSE snaps

Capture ==
  /\ Step("capture", "save")
  /\ IF Due THEN snaps' = Append(KeptSnaps, sys) /\ since' = 0
            ELSE since' = since + 1 /\ UNCHANGED snaps
  /\ disturbed' = (disturbed \/ held)
  /\ UNCHANGED <<emuCore, requests, slot, ahead, committed, begun, rewound>>

\* A save captures the state just committed; the step's locals end with it.
SavedBug == begun
Saved == sys

ServeSave ==
  /\ Step("save", "idle")
  /\ saveReq' = FALSE
  /\ slot' = IF saveReq THEN <<Saved>> ELSE slot
  /\ ahead' = 0 /\ committed' = Nothing /\ begun' = Nothing
  /\ UNCHANGED <<emuCore, rewind, loadReq, rewindReq, rewound, disturbed>>

-----------------------------------------------------------------------------
\* The window thread.
User == actions < MaxUserActions /\ actions' = actions + 1

\* Requests are flags: they take no lock.
Request ==
  /\ User
  /\ \/ saveReq' = TRUE /\ UNCHANGED <<loadReq, rewindReq>>
     \/ loadReq' = TRUE /\ UNCHANGED <<saveReq, rewindReq>>
     \/ rewindReq' = TRUE /\ UNCHANGED <<saveReq, loadReq>>
  /\ UNCHANGED <<emuCore, rewind, slot, stepPc, ahead, committed, history>>

\* Opening, closing or resetting a machine, under the emu mutex, so between
\* steps.  Nothing tells the coordinator (clear_rewind has no caller).
Replace ==
  /\ stepPc = "idle" /\ User
  /\ \/ \E r \in Roms : inserted' = r /\ sys' = [rom |-> r, pos |-> 0] /\ UNCHANGED held
     \/ inserted' = NoRom /\ sys' = Nothing /\ held' = FALSE
     \/ sys' = [sys EXCEPT !.pos = 0] /\ UNCHANGED <<inserted, held>>
  /\ disturbed' = TRUE
  /\ UNCHANGED <<rewind, requests, slot, stepPc, ahead, committed, begun, rewound>>

PauseOrResume ==
  /\ stepPc = "idle" /\ User
  /\ held' = ~held
  /\ UNCHANGED <<sys, inserted, rewind, requests, slot, stepPc, ahead, committed,
                 history>>

StepRun ==
  /\ ServeLoad \/ ServeRewind \/ Commit \/ RunAhead \/ Restore \/ Capture \/ ServeSave
  /\ UNCHANGED actions

StatesNext == StepRun \/ Request \/ Replace \/ PauseOrResume

StatesSpec == StatesInit /\ [][StatesNext]_stateVars

-----------------------------------------------------------------------------
\* What a rewind would go back to.
Newest == snaps[Len(snaps)]

\* Run-ahead never advances the real timeline, and nothing that is kept ever saw it
\* (savestate.rs): what a step leaves behind, for the rewind ring to keep, is one frame on
\* from where it began; and "a save captures the just-produced committed state", never a
\* speculative frame.
RunAheadUnseen ==
  [][ /\ stepPc' \in {"capture", "save"} => sys' = Ran(begun')
      /\ slot' # slot => slot' = <<Ran(begun)>> ]_stateVars

\* Rewinding goes back: on an undisturbed timeline the snapshots are Interval
\* frames apart, oldest first, none later than the machine, rewinds included.
RingInOrder ==
  ~disturbed =>
    /\ \A i \in 1 .. Len(snaps) - 1 : snaps[i + 1].pos >= snaps[i].pos + Interval
    /\ stepPc # "ahead" /\ stepPc # "restore" /\ snaps # <<>> => Newest.pos <= sys.pos

\* A rewind that follows a rewind goes further back (RewindRing: "so the player
\* can step backwards"): the frame run after a rewind is not yet due for capture.
RewindProgresses ==
  stepPc = "rewind" /\ rewindReq /\ snaps # <<>> /\ rewound # <<>> /\ ~disturbed =>
    Newest.pos < rewound[1]

\* Both (RewindRing).
RewindsInOrder == RingInOrder /\ RewindProgresses

\* emu.rs, EmuCore::restore: "Returns `false` on a malformed or mismatched blob,
\* leaving the machine untouched", and docs/frontend.md: a blob is "valid
\* alongside the same ROM".  So the machine never runs one ROM's state on
\* another's image.
SameRom == sys.rom = inserted
=============================================================================
