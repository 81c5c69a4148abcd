---------------------------- MODULE Presentation ----------------------------
(***************************************************************************)
(* The two threads of the native frontend around one machine: the emulation*)
(* thread (emu_thread.rs, EmuThread::spawn), which runs a frame and        *)
(* publishes it under the emu mutex, and the window thread (app.rs), which *)
(* shows frames without that mutex and takes it for the menu actions only. *)
(* The handoff between them is its contract, FrameMailbox, which           *)
(* PresentBuffer implements.                                               *)
(*                                                                         *)
(* A machine is the number of the menu action that created or reset it; a  *)
(* cartridge is the number of the machine it was inserted in.  A picture is*)
(* the cartridge whose drawing it shows, with the machine that was current *)
(* when it was published.  RDRAM and the VI registers outlive System::reset*)
(* and hle_boot (the TODO in System::reset says so), so the framebuffer    *)
(* keeps the drawing of an earlier program until the one running now draws.*)
(* Save-states are the business of SaveStates.                             *)
(***************************************************************************)
EXTENDS Naturals

CONSTANT MaxActions   \* bound: menu actions that end a machine, in one session

ASSUME ActionsAssumption == MaxActions \in Nat

VARIABLES
  emuLock,   \* who holds the emu mutex: "free", "emu" or "ui"
  machine,   \* the current machine
  paused,
  cart,      \* the cartridge inserted, or None
  program,   \* the cartridge whose program is running, or None
  drawn,     \* whose drawing the framebuffer the VI scans holds; None if the VI is off
  staged,    \* EmuCore::frame, the staged picture
  box, shown,       \* the handoff, and the window's staging buffer
  running,   \* the flag EmuThread::stop clears
  threadPc, windowPc

core == <<machine, paused, cart, program, drawn, staged>>
threadVars == <<emuLock, core, box, shown, running, threadPc, windowPc>>

Machines == 0 .. MaxActions
None == MaxActions + 1
Drawings == Machines \cup {None}   \* None is also the black frame

Pictures == [of : Drawings, in : Machines]
Empty == [of |-> None, in |-> None]
Black == [of |-> None, in |-> 0]

Handoff == INSTANCE FrameMailbox WITH Frames <- Pictures

ThreadsTypeOK ==
  /\ emuLock \in {"free", "emu", "ui"}
  /\ machine \in Machines
  /\ paused \in BOOLEAN
  /\ {cart, program, drawn, staged} \subseteq Drawings
  /\ box \in Pictures \cup {Empty} /\ shown \in Pictures
  /\ running \in BOOLEAN
  /\ threadPc \in {"check", "lock", "run", "publish", "unlock", "wait", "stopped"}
  /\ windowPc \in {"idle", "open", "close", "reset", "pause", "unlock", "clear",
                  "black", "join", "gone"}

\* resumed(): the emulation thread is spawned.
ThreadsInit ==
  /\ emuLock = "free"
  /\ machine = 0 /\ paused = FALSE
  /\ cart \in {0, None} /\ program = cart
  /\ drawn = None /\ staged = None
  /\ box = Empty /\ shown = Black
  /\ running = TRUE
  /\ threadPc = "check" /\ windowPc = "idle"

-----------------------------------------------------------------------------
\* The emulation thread.
Thread(from, to) == threadPc = from /\ threadPc' = to /\ UNCHANGED <<windowPc, running>>

\* The run flag, tested before every cycle and every frame.
SeesStopBug == FALSE
SeesStop == ~running

EmuCheck ==
  /\ Thread("check", IF SeesStop THEN "stopped" ELSE "lock")
  /\ UNCHANGED <<emuLock, core, box, shown>>

EmuTakeLock ==
  /\ Thread("lock", "run")
  /\ emuLock = "free" /\ emuLock' = "emu"
  /\ UNCHANGED <<core, box, shown>>

\* EmuCore::run_frame: nothing when paused; otherwise the program may draw
\* (into a VI it may just have programmed), and the frame is scanned out.
RunFrame ==
  /\ Thread("run", "publish")
  /\ IF paused
       THEN UNCHANGED <<drawn, staged>>
       ELSE drawn' \in {drawn} \cup ({program} \ {None})
            /\ staged' = drawn'
  /\ UNCHANGED <<emuLock, machine, paused, cart, program, box, shown>>

\* EmuCore::publish_into, still under the emu mutex.
Published == [of |-> staged, in |-> machine]
Publish ==
  /\ Thread("publish", "unlock")
  /\ Handoff!Put(Published)
  /\ UNCHANGED <<emuLock, core>>

EmuUnlock ==
  /\ Thread("unlock", "wait")
  /\ emuLock' = "free"
  /\ UNCHANGED <<core, box, shown>>

\* block_until_native: the next frame's time comes.
Wait ==
  /\ Thread("wait", "check")
  /\ UNCHANGED <<emuLock, core, box, shown>>

-----------------------------------------------------------------------------
\* The window thread.
Window(from, to) == windowPc = from /\ windowPc' = to /\ UNCHANGED threadPc

\* A redraw takes the newest frame, or shows the last one again.
Redraw ==
  /\ Window("idle", "idle")
  /\ Handoff!Take
  /\ UNCHANGED <<emuLock, core, running>>

\* dispatch: a menu action takes the emu mutex.
Menu(action) ==
  /\ action = "pause" \/ machine < MaxActions
  /\ Window("idle", action)
  /\ emuLock = "free" /\ emuLock' = "ui"
  /\ UNCHANGED <<core, box, shown, running>>

\* EmuCore::load_rom: the warm reset comes first and is not undone if the boot
\* then fails, so that nothing runs; the pause is not lifted, the staged frame
\* and the framebuffer stay.
OpenRom(ok) ==
  /\ Window("open", "unlock")
  /\ machine' = machine + 1
  /\ IF ok THEN cart' = machine' /\ program' = machine'
           ELSE program' = None /\ UNCHANGED cart
  /\ UNCHANGED <<emuLock, paused, drawn, staged, box, shown, running>>

\* A new EmuCore.
CloseRom ==
  /\ Window("close", "unlock")
  /\ machine' = machine + 1
  /\ paused' = FALSE
  /\ cart' = None /\ program' = None
  /\ drawn' = None /\ staged' = None
  /\ UNCHANGED <<emuLock, box, shown, running>>

\* EmuCore::reset, a warm reset: the CPU is at the PIF reset vector, and nothing
\* boots the cartridge again.
Reset ==
  /\ Window("reset", "unlock")
  /\ machine' = machine + 1
  /\ program' = None
  /\ UNCHANGED <<emuLock, paused, cart, drawn, staged, box, shown, running>>

TogglePause ==
  /\ Window("pause", "idle")
  /\ paused' = ~paused
  /\ emuLock' = "free"
  /\ UNCHANGED <<machine, cart, program, drawn, staged, box,
                 shown, running>>

UiUnlock ==
  /\ Window("unlock", "clear")
  /\ emuLock' = "free"
  /\ UNCHANGED <<core, box, shown, running>>

\* blank_presentation, after the emu mutex is released: first the handoff...
ClearsHandoffBug == FALSE
ClearsHandoff == TRUE

ClearHandoff ==
  /\ Window("clear", "black")
  /\ IF ClearsHandoff THEN Handoff!Clear ELSE UNCHANGED <<box, shown>>
  /\ UNCHANGED <<emuLock, core, running>>

\* ... then the window's own copy.
BlankWindow ==
  /\ Window("black", "idle")
  /\ shown' = [Black EXCEPT !.in = machine]
  /\ UNCHANGED <<emuLock, core, box, running>>

\* Quit or close: stop, and join when the App is dropped.
Quit ==
  /\ Window("idle", "join")
  /\ running' = FALSE
  /\ UNCHANGED <<emuLock, core, box, shown>>

Join ==
  /\ Window("join", "gone")
  /\ threadPc = "stopped"
  /\ UNCHANGED <<emuLock, core, box, shown, running>>

\* The program has ended.
Ended == windowPc = "gone" /\ UNCHANGED threadVars

-----------------------------------------------------------------------------
ThreadRun == EmuCheck \/ RunFrame \/ Publish \/ EmuUnlock \/ Wait
WindowRun ==
  \/ Redraw \/ CloseRom \/ Reset \/ TogglePause \/ UiUnlock
  \/ ClearHandoff \/ BlankWindow \/ Join
  \/ \E ok \in BOOLEAN : OpenRom(ok)

ThreadsNext ==
  \/ ThreadRun \/ EmuTakeLock \/ WindowRun \/ Quit \/ Ended
  \/ \E action \in {"open", "close", "reset", "pause"} : Menu(action)

\* Both threads run; the emulation thread is not kept from the mutex for ever,
\* because the window takes it on a click only.
ThreadsSpec ==
  /\ ThreadsInit /\ [][ThreadsNext]_threadVars
  /\ WF_threadVars(ThreadRun) /\ WF_threadVars(WindowRun) /\ SF_threadVars(EmuTakeLock)

-----------------------------------------------------------------------------
\* A frame published before a menu action ended its machine is not seen after
\* the blanking, whichever of the two mutexes each thread is waiting for: what
\* the window holds between two events was published by the current machine.
OldFramesDropped ==
  windowPc = "idle" => shown.in = machine

\* Closing the program ends: the join returns, whatever the emulation thread
\* was doing when it was told to stop.
JoinReturns == windowPc = "join" ~> windowPc = "gone"

\* app.rs, load_rom: blanking is there so as not to "leave the old ROM's picture
\* on screen describing a core that no longer exists".
NoOldPicture ==
  windowPc = "idle" => shown.of \in {None, cart}
=============================================================================
