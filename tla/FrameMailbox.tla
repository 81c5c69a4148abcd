---------------------------- MODULE FrameMailbox ----------------------------
(***************************************************************************)
(* What the present handoff promises: a mailbox of one frame.  The producer*)
(* overwrites it, the window takes the frame out whole, and the window can *)
(* empty it and go black.  A frame is shown once, and never after a newer  *)
(* one or after the blanking that dropped it.                              *)
(***************************************************************************)
CONSTANTS
  Frames,   \* the pictures the producer may publish
  Empty,    \* no picture
  Black     \* what the window shows when blanked

VARIABLES
  box,      \* the frame waiting, or Empty
  shown     \* what the window shows

vars == <<box, shown>>

TypeOK == box \in Frames \cup {Empty} /\ shown \in Frames \cup {Black}

Init == box = Empty /\ shown = Black

Put(f) == box' = f /\ UNCHANGED shown

Take == /\ box # Empty
        /\ shown' = box
        /\ box' = Empty

\* Blanking empties the box first and the window after it.
Clear == box' = Empty /\ UNCHANGED shown
Blank == shown' = Black /\ UNCHANGED box

Next == Take \/ Clear \/ Blank \/ \E f \in Frames : Put(f)

Spec == Init /\ [][Next]_vars
=============================================================================
