---------------------------- MODULE CommandFifo ----------------------------
(***************************************************************************)
(* The RDP's command FIFO (rustyn64-rdp, lib.rs and command.rs) with what  *)
(* feeds it and what it raises: the DPC registers, their double latch, the *)
(* drain of one command a tick, the stalls of the sync commands, the freeze*)
(* and the DP line of the MI.                                              *)
(*                                                                         *)
(* Memory is counted in 64-bit words.  A command is one word with its      *)
(* opcode followed by words of parameters; what it draws is left out.      *)
(*                                                                         *)
(* The feeder is the microcode (through MTC0) or the CPU, the same seam.   *)
(* It writes a list command by command into one of its buffers and moves   *)
(* DPC_END along, into the middle of a command if it likes.  It may latch  *)
(* the start of its next list while the present one still drains, but waits*)
(* for the drain before the DPC_END that makes the switch.                 *)
(***************************************************************************)
EXTENDS Naturals, Sequences, SequencesExt

CONSTANTS
  Ops,          \* opcodes; SYNC_FULL is one of them
  SYNC_FULL,
  CommandLength, \* command_len_words
  CommandStall, \* ticks the FIFO is held after a command
  Buffers,      \* addresses the feeder's buffers start at
  Size,         \* words in a buffer
  MaxCommands   \* bound: commands written in one behaviour

\* The feeder's buffers lie apart, and none at the address the registers reset to.
ASSUME FifoAssumption ==
  /\ CommandLength \in [Ops -> Nat \ {0}] /\ CommandStall \in [Ops -> Nat]
  /\ {"param", "unwritten", "garbled"} \cap Ops = {}
  /\ Size \in Nat /\ Buffers \subseteq Nat \ {0}
  /\ \A a, b \in Buffers : a < b => a + Size < b
  /\ MaxCommands \in Nat

VARIABLES
  dpRam,                      \* the words of the buffers
  cmd_start, cmd_end, cmd_current,
  startValid, held,           \* DPC_STATUS: START_VALID; FREEZE or XBUS
  stall,
  dp,                         \* mi_intr.dp
  tail, missing,              \* feeder: where the next word goes, and how many
                              \*   words its last command still lacks
  listed,                     \* history: the commands written, in order
  executed                    \* history: the commands dispatched, in order

dpc == <<cmd_start, cmd_end, cmd_current, startValid>>
feeder == <<dpRam, tail, missing, listed>>
fifoVars == <<dpc, held, stall, dp, feeder, executed>>

\* A word of memory: an opcode, a parameter or nothing yet, and the number of the
\* command it belongs to.
WordOf(kind, n) == [kind |-> kind, of |-> n]
Unwritten == WordOf("unwritten", 0)
Addresses == UNION {b .. b + Size : b \in Buffers}

FifoTypeOK ==
  /\ dpRam \in [Addresses -> [kind : Ops \cup {"param", "unwritten"}, of : 0 .. MaxCommands]]
  /\ {cmd_start, cmd_end, cmd_current, tail} \subseteq Addresses \cup {0}
  /\ {startValid, held, dp} \subseteq BOOLEAN
  /\ {stall, missing} \subseteq Nat
  /\ listed \in Seq(Ops)
  /\ executed \in Seq(Ops \cup {"garbled"})

FifoInit ==
  /\ dpRam = [a \in Addresses |-> Unwritten]
  /\ cmd_start = 0 /\ cmd_end = 0 /\ cmd_current = 0
  /\ startValid = FALSE /\ held = FALSE
  /\ stall = 0
  /\ dp = FALSE
  /\ tail = 0 /\ missing = 0
  /\ listed = <<>> /\ executed = <<>>

-----------------------------------------------------------------------------
\* Nothing left to read in the list that is being drained.
Drained == cmd_current = cmd_end

\* DPC_START.  A second one before the DPC_END that takes it is ignored.
Latched(a) == IF startValid THEN cmd_start ELSE a

BufferOf(a) == CHOOSE b \in Buffers : a \in b .. b + Size

\* The feeder has said all of its list and begins another, in a buffer the RDP
\* is not reading.
NewList(b) ==
  /\ ~startValid
  /\ tail = cmd_end /\ missing = 0
  /\ ~Drained => b # BufferOf(cmd_end)
  /\ cmd_start' = Latched(b) /\ startValid' = TRUE
  /\ tail' = b
  /\ UNCHANGED <<cmd_end, cmd_current, held, stall, dp, dpRam, missing, listed, executed>>

\* One more command of the list, behind DPC_END, word by word.
WriteOpcode(op) ==
  /\ Len(listed) < MaxCommands
  /\ missing = 0 /\ (startValid \/ tail # 0)
  /\ tail + CommandLength[op] <= BufferOf(tail) + Size
  /\ dpRam' = [dpRam EXCEPT ![tail] = WordOf(op, Len(listed) + 1)]
  /\ tail' = tail + 1
  /\ missing' = CommandLength[op] - 1
  /\ listed' = Append(listed, op)
  /\ UNCHANGED <<dpc, held, stall, dp, executed>>

WriteParameter ==
  /\ missing > 0
  /\ dpRam' = [dpRam EXCEPT ![tail] = WordOf("param", Len(listed))]
  /\ tail' = tail + 1
  /\ missing' = missing - 1
  /\ UNCHANGED <<dpc, held, stall, dp, listed, executed>>

\* A mutant: the list begins anew whenever it is extended.
CurrentBug == cmd_start

\* Where the FIFO reads from when DPC_END is written: from the latched start if
\* there is one, from where it was otherwise.
Current == IF startValid THEN cmd_start ELSE cmd_current

\* DPC_END.
WriteEnd(e) ==
  /\ IF startValid THEN Drained /\ e \in cmd_start .. tail
                   ELSE tail # 0 /\ e \in cmd_end .. tail
  /\ cmd_end' = e
  /\ cmd_current' = Current
  /\ startValid' = FALSE
  /\ UNCHANGED <<cmd_start, held, stall, dp, feeder, executed>>

\* DPC_STATUS: set or clear FREEZE or XBUS.
Hold(h) ==
  /\ held # h
  /\ held' = h
  /\ UNCHANGED <<dpc, stall, dp, feeder, executed>>

\* MI_MODE, clearing the DP line.
AcknowledgeDp ==
  /\ dp /\ dp' = FALSE
  /\ UNCHANGED <<dpc, held, stall, feeder, executed>>

-----------------------------------------------------------------------------
\* The ends of tick_without_bus: a hold stops even the stall.
Stalled ==
  /\ ~held /\ stall > 0
  /\ stall' = stall - 1
  /\ UNCHANGED <<dpc, held, dp, feeder, executed>>

Opcode == dpRam[cmd_current].kind
\* Every opcode has a length, the unassigned ones that of a word.
LengthHere == IF Opcode \in Ops THEN CommandLength[Opcode] ELSE 1

\* A mutant: a command is taken once something follows it.
FollowedBug == cmd_end - cmd_current > LengthHere
Present == cmd_end - cmd_current >= LengthHere

\* The words it takes for the command are those of one command.
Whole ==
  /\ Opcode \in Ops
  /\ \A k \in 1 .. LengthHere - 1 :
       dpRam[cmd_current + k] = WordOf("param", dpRam[cmd_current].of)

\* tick_with_bus and dispatch: a command is taken when it is there in full.
Dispatch ==
  /\ ~held /\ stall = 0
  /\ cmd_current < cmd_end
  /\ Present
  /\ cmd_current' = cmd_current + LengthHere
  /\ stall' = IF Opcode \in Ops THEN CommandStall[Opcode] ELSE 0
  /\ dp' = (dp \/ Opcode = SYNC_FULL)
  /\ executed' = Append(executed, IF Whole THEN Opcode ELSE "garbled")
  /\ UNCHANGED <<cmd_start, cmd_end, startValid, held, feeder>>

FifoTick == Stalled \/ Dispatch

FifoNext ==
  \/ \E b \in Buffers : NewList(b)
  \/ \E op \in Ops : WriteOpcode(op)
  \/ WriteParameter
  \/ \E e \in Addresses : WriteEnd(e)
  \/ \E h \in BOOLEAN : Hold(h)
  \/ AcknowledgeDp
  \/ FifoTick

FifoSpec == FifoInit /\ [][FifoNext]_fifoVars

-----------------------------------------------------------------------------
\* What the RDP executes is what the feeder wrote: every command once, whole and
\* in the order written, wherever DPC_END is stopped, however the next list's
\* DPC_START falls between the ticks, through stalls and holds.  So a SYNC_FULL
\* interrupt still means that all that was written before it is done.
InOrderOnce == IsPrefix(executed, listed)

\* The command after the first n is behind DPC_END in full.
Submitted(n) ==
  /\ Len(executed) = n /\ n < Len(listed)
  /\ cmd_current + CommandLength[listed[n + 1]] <= cmd_end

\* A command that DPC_END has passed is executed: the FIFO cannot stick at the end
\* of a list, behind a stall, or at a command it saw half of, unless it is held.
ListDrains ==
  \A n \in 0 .. MaxCommands - 1 :
    Submitted(n) ~> (Len(executed) > n \/ held)
=============================================================================
