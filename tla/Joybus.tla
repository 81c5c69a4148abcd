------------------------------- MODULE Joybus ------------------------------
(***************************************************************************)
(* The serial interface (bus.rs), the PIF's RAM and its joybus executor    *)
(* (rustyn64-cart, pif.rs) with the devices behind it: the controllers of  *)
(* the ports, the Controller Pak of the first, and the EEPROM on the       *)
(* cartridge's channel (save.rs).                                          *)
(*                                                                         *)
(* PIF RAM is bytes, since what can go wrong is where a reply lands; it is *)
(* shorter than 64 of them, and so are the blocks of the two memories.     *)
(*                                                                         *)
(* The game's driver has a frame of requests copied in from RDRAM, has it  *)
(* run and copied back, and waits for the SI interrupt after each.  It may *)
(* read again, and it may arm the block it got back and send that, which is*)
(* what a driver that polls does.                                          *)
(***************************************************************************)
EXTENDS Naturals, Sequences, Bitwise, SequencesExt

CONSTANTS
  PIF_RAM_LEN,      \* bytes of PIF RAM; the last is the command byte
  Ports,            \* controller ports; the channel after them is the cartridge's
  PakBlock,         \* bytes of a block of the Controller Pak (32)
  EepromBlock,      \* and of the EEPROM (8)
  ButtonWords,      \* what a port word can be, four bytes
  Blocks,           \* blocks of a memory a game touches
  Contents,         \* what it writes there: a byte, all over the block
  MaxItems,         \* bound: items in a frame
  MaxFrames         \* bound: frames sent in one behaviour

CMD_BYTE == PIF_RAM_LEN - 1
TX_END == 254
TX_SKIP == 0
TX_NOP == 255
RX_NO_DEVICE == 128
Cartridge == Ports
Offsets == 0 .. CMD_BYTE

Devices == {"none", "eeprom", "pak"}

\* What a driver asks of one channel: the bytes it sends and how many it wants.
\* The low five bits of a Pak's address are a checksum of the others.
Fill(n, d) == [i \in 1 .. n |-> d]
Info == [tx |-> <<0>>, rx |-> 3]
State(n) == [tx |-> <<1>>, rx |-> n]
PakRead(b) == [tx |-> <<2, 0, 32 * b + 21>>, rx |-> PakBlock + 1]
PakWrite(b, d) == [tx |-> <<3, 0, 32 * b + 21>> \o Fill(PakBlock, d), rx |-> 1]
EepromRead(b) == [tx |-> <<4, b>>, rx |-> EepromBlock]
EepromWrite(b, d) == [tx |-> <<5, b>> \o Fill(EepromBlock, d), rx |-> 1]
Requests ==
  {Info, State(4), State(2)}
    \cup {PakRead(b) : b \in Blocks} \cup {EepromRead(b) : b \in Blocks}
    \cup {PakWrite(b, d) : b \in Blocks, d \in Contents}
    \cup {EepromWrite(b, d) : b \in Blocks, d \in Contents}

\* A frame is a list of requests, with channels skipped and padding in between.
Skip == [tx |-> <<>>, rx |-> 0]
Padding == [tx |-> <<>>, rx |-> 1]
IsRequest(item) == item.tx # <<>>
BytesOf(item) ==
  CASE item = Skip -> <<TX_SKIP>>
    [] item = Padding -> <<TX_NOP>>
    [] OTHER -> <<Len(item.tx), item.rx>> \o item.tx \o Fill(item.rx, 255)

Packed(frame) == FlattenSeq([k \in DOMAIN frame |-> BytesOf(frame[k])]) \o <<TX_END>>
OffsetOf(frame, k) == Len(Packed(SubSeq(frame, 1, k - 1))) - 1
ChannelOf(frame, k) == Len(SelectSeq(SubSeq(frame, 1, k - 1), LAMBDA item : item # Padding))

Fits(frame) ==
  /\ Len(Packed(frame)) <= CMD_BYTE
  /\ ChannelOf(frame, Len(frame) + 1) <= Cartridge + 1
Frames ==
  {f \in UNION {[1 .. n -> Requests \cup {Skip, Padding}] : n \in 1 .. MaxItems} : Fits(f)}

\* The block of each, armed.
BlockOf ==
  [f \in Frames |-> LET bytes == Packed(f) IN
     [i \in Offsets |-> IF i = CMD_BYTE THEN 1 ELSE IF i < Len(bytes) THEN bytes[i + 1] ELSE 0]]

VARIABLES
  ram,                          \* PIF RAM
  controllers, connected,       \* the port words; which ports have a pad
  device, store,                \* the save device, and its blocks
  mi_si,                        \* mi_intr.si
  rdram,                        \* the 64 bytes the SI's DMA moves
  phase,                        \* driver: where it is
  loaded,                       \* history: the frame in PIF RAM
  expected, kept,               \* history: the block it should get back, and the
                                \*   blocks it has written
  frames                        \* history: frames sent so far
game == <<phase, loaded, expected, kept, frames>>
siVars == <<ram, controllers, connected, device, store, mi_si, rdram, game>>

SiTypeOK ==
  /\ ram \in [Offsets -> 0 .. 255] /\ rdram \in [Offsets -> 0 .. 255]
  /\ controllers \in [0 .. Ports - 1 -> ButtonWords]
  /\ connected \subseteq 0 .. Ports - 1
  /\ device \in Devices /\ store \in [Blocks -> Seq(0 .. 255)]
  /\ mi_si \in BOOLEAN
  /\ phase \in {"idle", "run", "done"}

Blank == [i \in Offsets |-> 0]
pak_present(channel) == channel = 0 /\ device = "pak"

SiInit ==
  /\ ram = Blank /\ rdram = Blank
  /\ controllers = [port \in 0 .. Ports - 1 |-> CHOOSE w \in ButtonWords : TRUE]
  /\ connected \in SUBSET (0 .. Ports - 1)
  /\ device \in Devices
  /\ store = [b \in Blocks |-> Fill(IF device = "pak" THEN PakBlock ELSE EepromBlock, 0)]
  /\ mi_si = FALSE
  /\ phase = "idle" /\ loaded = <<>>
  /\ expected = Blank /\ kept = store /\ frames = 0

-----------------------------------------------------------------------------
\* data_crc: a CRC-8 with polynomial 0x85.
ShiftedOut(crc) == IF crc >= 128 THEN ((2 * crc) % 256) ^^ 133 ELSE 2 * crc
data_crc(block) ==
  FoldLeft(LAMBDA crc, byte :
             FoldLeft(LAMBDA c, i : ShiftedOut(c), crc ^^ byte, [i \in 1 .. 8 |-> i]),
           0, block)

\* The block of PIF RAM from an offset, and PIF RAM with one written there.
From(m, off, n) == [i \in 1 .. n |-> m[off + i - 1]]
With(m, off, bytes) ==
  [i \in Offsets |-> IF i \in off .. off + Len(bytes) - 1 THEN bytes[i - off + 1] ELSE m[i]]
Least(a, b) == IF a < b THEN a ELSE b

\* A mutant: the byte before the reply, which is the last one sent.
MarkNoDeviceBug(m, rxByte) ==
  [m EXCEPT ![rxByte + (m[rxByte - 1] % 64)] = (@ % RX_NO_DEVICE) + RX_NO_DEVICE]
MarkNoDevice(m, rxByte) == [m EXCEPT ![rxByte] = (@ % RX_NO_DEVICE) + RX_NO_DEVICE]

\* A present Pak signs what it moved with the CRC, an absent one with its
\* complement.  A read of an absent one, or of anything else, gives zeros.
Signed(channel, block) ==
  IF pak_present(channel) THEN data_crc(block) ELSE 255 - data_crc(block)

\* One handshake (run_channel): PIF RAM and the memory after it.
Handshake(m, s, channel, rxByte, cmd, tx, resp, rx) ==
  LET reply(bytes) == [ram |-> With(m, resp, SubSeq(bytes, 1, Least(rx, Len(bytes)))), store |-> s]
      whole(bytes) == IF rx >= Len(bytes) THEN reply(bytes) ELSE [ram |-> m, store |-> s]
      pakAddr == 8 * m[cmd + 1] + m[cmd + 2] \div 32
  IN  CASE channel < Ports /\ m[cmd] \in {0, 255} ->
             whole(<<5, 0, IF pak_present(channel) THEN 1 ELSE 2>>)
        [] channel < Ports /\ m[cmd] = 1 ->
             reply(controllers[channel])
        [] channel < Ports /\ m[cmd] = 2 /\ tx >= 3 ->
             LET data == IF pak_present(channel) THEN s[pakAddr] ELSE Fill(PakBlock, 0)
             IN  reply(Append(data, Signed(channel, data)))
        [] channel < Ports /\ m[cmd] = 3 /\ tx >= 3 + PakBlock ->
             LET data == From(m, cmd + 3, PakBlock)
             IN  [whole(<<Signed(channel, data)>>)
                    EXCEPT !.store = IF pak_present(channel)
                                     THEN [s EXCEPT ![pakAddr] = data] ELSE s]
        [] channel = Cartridge /\ device = "eeprom" /\ m[cmd] \in {0, 255} ->
             whole(<<0, 128, 0>>)
        [] channel = Cartridge /\ device = "eeprom" /\ m[cmd] = 4 /\ tx >= 2 ->
             reply(s[m[cmd + 1]])
        [] channel = Cartridge /\ device = "eeprom" /\ m[cmd] = 5 /\ tx >= 2 + EepromBlock ->
             [whole(<<0>>)
                EXCEPT !.store = [s EXCEPT ![m[cmd + 1]] = From(m, cmd + 2, EepromBlock)]]
        [] OTHER -> [ram |-> MarkNoDevice(m, rxByte), store |-> s]

\* The executor's loop (execute), from byte i of PIF RAM on.
RECURSIVE Loop(_, _, _, _)
Loop(m, s, i, channel) ==
  LET tx == m[i] % 64
      rx == m[i + 1] % 64
      resp == i + 2 + tx
      after ==
        IF channel < Ports /\ channel \notin connected
        THEN [ram |-> MarkNoDevice(m, i + 1), store |-> s]
        ELSE IF tx = 0 THEN [ram |-> m, store |-> s]
        ELSE Handshake(m, s, channel, i + 1, i + 2, tx, resp, rx)
  IN  CASE i >= CMD_BYTE \/ channel > Cartridge \/ m[i] = TX_END -> [ram |-> m, store |-> s]
        [] m[i] = TX_NOP -> Loop(m, s, i + 1, channel)
        [] m[i] = TX_SKIP -> Loop(m, s, i + 1, channel + 1)
        [] i + 1 >= CMD_BYTE -> [ram |-> m, store |-> s]
        [] resp + rx > PIF_RAM_LEN -> [ram |-> m, store |-> s]
        [] OTHER -> Loop(after.ram, after.store, resp + rx, channel + 1)

Armed(m) == m[CMD_BYTE] % 2 = 1
Disarmed(m) == [m EXCEPT ![CMD_BYTE] = @ - 1]

ExecuteFrame ==
  IF ~Armed(ram) THEN [ram |-> ram, store |-> store]
  ELSE LET done == Loop(ram, store, 0, 0)
       IN  [done EXCEPT !.ram = Disarmed(@)]

-----------------------------------------------------------------------------
\* What the devices owe a frame: to each request its answer, one after another.
\* An answer is the bytes of the reply, or NoDevice.
NoDevice == <<>>
DeviceAt(channel) ==
  IF channel = Cartridge THEN IF device = "eeprom" THEN "eeprom" ELSE "none"
  ELSE IF channel \in connected THEN "pad" ELSE "none"

Answer(request, channel, memory) ==
  LET at == DeviceAt(channel)
      kind == request.tx[1]
  IN  CASE at = "pad" /\ kind = 0 -> <<5, 0, IF pak_present(channel) THEN 1 ELSE 2>>
        [] at = "pad" /\ kind = 1 -> SubSeq(controllers[channel], 1, request.rx)
        [] at = "pad" /\ kind = 2 ->
             LET data == IF pak_present(channel)
                         THEN memory[CHOOSE b \in Blocks : request = PakRead(b)]
                         ELSE Fill(PakBlock, 0)
             IN  Append(data, Signed(channel, data))
        [] at = "pad" /\ kind = 3 -> <<Signed(channel, Fill(PakBlock, Last(request.tx)))>>
        [] at = "eeprom" /\ kind = 0 -> <<0, 128, 0>>
        [] at = "eeprom" /\ kind = 4 -> memory[request.tx[2]]
        [] at = "eeprom" /\ kind = 5 -> <<0>>
        [] OTHER -> NoDevice

Written(request, channel, memory) ==
  LET writes(b) ==
        \E d \in Contents :
          \/ DeviceAt(channel) = "pad" /\ pak_present(channel) /\ request = PakWrite(b, d)
          \/ DeviceAt(channel) = "eeprom" /\ request = EepromWrite(b, d)
  IN  [b \in Blocks |->
         IF writes(b) THEN Fill(Len(memory[b]), Last(request.tx)) ELSE memory[b]]

\* The block a frame comes back as, and the memory it leaves.
Owed(sent, asked, memory) ==
  LET one(r, k) ==
        LET answer == Answer(asked[k], ChannelOf(asked, k), r.memory)
            at == OffsetOf(asked, k)
        IN  IF ~IsRequest(asked[k]) THEN r
            ELSE [block |-> IF answer = NoDevice THEN [r.block EXCEPT ![at + 1] = asked[k].rx + 128]
                            ELSE With(r.block, at + 2 + Len(asked[k].tx), answer),
                  memory |-> Written(asked[k], ChannelOf(asked, k), r.memory)]
  IN  FoldLeft(one, [block |-> sent, memory |-> memory], [k \in DOMAIN asked |-> k])

-----------------------------------------------------------------------------
\* WR64B: the driver's block goes to PIF RAM.
Sent(block, f) ==
  /\ ~mi_si /\ frames < MaxFrames
  /\ rdram' = block /\ ram' = block
  /\ mi_si' = TRUE
  /\ loaded' = f /\ expected' = Blank
  /\ phase' = "run" /\ frames' = frames + 1
  /\ UNCHANGED <<controllers, connected, device, store, kept>>

Send(f) == Sent(BlockOf[f], f)

\* It sends the block it got back, armed anew.
Rearm == phase = "done" /\ Sent([rdram EXCEPT ![CMD_BYTE] = 1], loaded)

\* RD64B: the PIF runs the frame if it is armed, and the block comes back.
Run ==
  /\ phase # "idle" /\ ~mi_si
  /\ ram' = ExecuteFrame.ram /\ store' = ExecuteFrame.store
  /\ rdram' = ram'
  /\ mi_si' = TRUE
  /\ IF Armed(ram)
     THEN LET owed == Owed(Disarmed(ram), loaded, kept)
          IN  expected' = owed.block /\ kept' = owed.memory
     ELSE UNCHANGED <<expected, kept>>
  /\ phase' = "done"
  /\ UNCHANGED <<controllers, connected, device, loaded, frames>>

\* A write of SI_STATUS.
Acknowledge ==
  /\ mi_si
  /\ mi_si' = FALSE
  /\ UNCHANGED <<ram, controllers, connected, device, store, rdram, game>>

\* The front end latches the pads; here, while a frame is about to run.
Latch ==
  /\ phase = "run"
  /\ \E port \in 0 .. Ports - 1, w \in ButtonWords :
       /\ w # controllers[port]
       /\ controllers' = [controllers EXCEPT ![port] = w]
  /\ UNCHANGED <<ram, connected, device, store, mi_si, rdram, game>>

SiNext == (\E f \in Frames : Send(f)) \/ Rearm \/ Run \/ Acknowledge \/ Latch

SiSpec == SiInit /\ [][SiNext]_siVars

-----------------------------------------------------------------------------
\* What comes back from a frame is what the devices owed it when it ran: each
\* reply in the place the driver left for it, the flag of a channel with nothing
\* there on its own RX byte, what was written to a memory in an earlier request
\* or frame, and no other byte disturbed (execute, run_channel, si_write).
RepliesArrive == phase = "done" => rdram = expected
=============================================================================
