--------------------------- MODULE RadioInterface ---------------------------
(* The base class of the two ends of the poll link                          *)
(* (src/radio_interface.{h,cc}) and the nRF24L01 radio under it: packet     *)
(* ids, the chunks a frame is cut into, the reassembly of chunks into a     *)
(* frame, the thread that reads the tunnel, and Send / Receive.             *)
(*                                                                          *)
(* A byte of a frame is the pair <<n, i>>: byte i of the n-th frame the     *)
(* tunnel of that side handed out.  The bytes of a packet after its payload *)
(* are left out: DecodeTunnelTxRxPacket never reads them.                   *)
EXTENDS Integers, Sequences

CONSTANTS
  kIDMask,            \* the largest packet id; 0 on the air means "no id"
  kMaxPayloadSize,    \* the most bytes of a frame one packet carries
  UINT8_MAX,          \* the largest value of the size field of a packet
  kMaxBufferedFrames, \* TunnelThread stops reading beyond this many frames
  FifoDepth,          \* packets the RX FIFO of the radio holds
  Faults,             \* what the environment may do before it is stable
  FrameLengths,       \* bound: the lengths of the frames the tunnels hand out
  MaxFrames           \* bound: how many frames each tunnel hands out

\* "loss": a write fails and nothing arrives.  "ack_loss": the packet arrives
\* but every hardware acknowledgement is lost, so the write fails as well.
\* "late": the secondary may take longer than the primary's timeout and poll
\* interval.  "restart_*": the process dies and its supervisor restarts it.
AllFaults == {"loss", "ack_loss", "late", "restart_primary", "restart_secondary"}

ASSUME RadioAssumption ==
  /\ kIDMask \in Nat /\ kIDMask >= 2
  /\ kMaxPayloadSize \in Nat /\ kMaxPayloadSize >= 1
  /\ UINT8_MAX \in Nat /\ UINT8_MAX > kMaxPayloadSize
  /\ kMaxBufferedFrames \in Nat
  /\ FifoDepth \in Nat /\ FifoDepth >= 1
  /\ FrameLengths \subseteq Nat \ {0}
  /\ MaxFrames \in Nat
  /\ Faults \subseteq AllFaults

VARIABLES
  next_id,       \* next_id_ of each side
  last_ack_id,   \* last_ack_id_ of each side, None while it has no value
  read_buffer,   \* read_buffer_: frames read from the tunnel, not yet sent
  frame_buffer,  \* frame_buffer_: the frame being received
  rx,            \* the RX FIFO of each radio
  listening,     \* the primary's radio is in receive mode
  stable,        \* the environment has stopped misbehaving
  tunnel_in,     \* history: the lengths of the frames read from each tunnel
  tunnel_out     \* history: the last frame written to each tunnel

linkVars == <<next_id, last_ack_id, read_buffer, frame_buffer>>
radioVars == <<rx, listening>>
historyVars == <<tunnel_in, tunnel_out>>

Side == {"primary", "secondary"}
Peer(s) == IF s = "primary" THEN "secondary" ELSE "primary"

None == 0
PacketId == 1..kIDMask
Byte == Nat \X Nat
Frame == Seq(Byte)

\* The decoded form of a 32-byte packet, TunnelTxRxPacket: size is bytes_left.
Packet == [id : 0..kIDMask, ack : 0..kIDMask, size : 0..UINT8_MAX, data : Frame]

\* A reset request and its response: 32 zero bytes.
ResetPacket == [id |-> None, ack |-> None, size |-> 0, data |-> <<>>]

May(fault) == fault \in Faults /\ ~stable

-----------------------------------------------------------------------------
(* Packets and chunks *)

\* Faulty: tests the id before the increment.
AdvanceIDLateWrap(id) == IF id > kIDMask THEN 1 ELSE id + 1

AdvanceID(id) == IF id + 1 > kIDMask THEN 1 ELSE id + 1

\* Faulty: takes the id it accepted last for a new one.
ValidateIDRepeated(last, id) ==
  \/ last = None
  \/ last = kIDMask /\ id = 1
  \/ id \in {last, last + 1}

ValidateID(last, id) ==
  \/ last = None
  \/ last = kIDMask /\ id = 1
  \/ id = last + 1

GetTransferSize(frame) ==
  IF Len(frame) < kMaxPayloadSize THEN Len(frame) ELSE kMaxPayloadSize

Chunk(frame) == SubSeq(frame, 1, GetTransferSize(frame))

\* What is left of the buffer once the chunk at its front is acknowledged.
EraseChunk(buffer) ==
  LET frame == Head(buffer)
      rest  == SubSeq(frame, GetTransferSize(frame) + 1, Len(frame))
  IN  IF rest = <<>> THEN Tail(buffer) ELSE <<rest>> \o Tail(buffer)

\* Faulty: announces the size of the chunk for the size of what is left.
EncodeChunkSize(id, ack, buffer) ==
  IF buffer = <<>>
  THEN [id |-> id, ack |-> ack, size |-> 0, data |-> <<>>]
  ELSE LET frame == Head(buffer)
       IN  [id |-> id, ack |-> ack, size |-> GetTransferSize(frame), data |-> Chunk(frame)]

\* The packet that carries the chunk at the front of the buffer, if any.
EncodeTunnelTxRxPacket(id, ack, buffer) ==
  IF buffer = <<>>
  THEN [id |-> id, ack |-> ack, size |-> 0, data |-> <<>>]
  ELSE LET frame == Head(buffer)
       IN  [id   |-> id,
            ack  |-> ack,
            size |-> IF Len(frame) < UINT8_MAX THEN Len(frame) ELSE UINT8_MAX,
            data |-> Chunk(frame)]

-----------------------------------------------------------------------------
(* The radio: write succeeds only when the other chip took the packet into  *)
(* its RX FIFO and acknowledged it.  The chip drops the duplicates its own  *)
(* retransmissions make.  Nothing empties an RX FIFO but read().            *)

CanHear(s) == Len(rx[s]) < FifoDepth /\ (s = "primary" => listening)

Send(to, packet, success) ==
  \/ /\ CanHear(to)
     /\ success \/ May("ack_loss")
     /\ rx' = [rx EXCEPT ![to] = Append(@, packet)]
  \/ /\ ~success
     /\ CanHear(to) => May("loss")
     /\ rx' = rx

\* The packet at the head of the FIFO is taken by Receive.
Receive(s) == rx[s] # <<>> /\ rx' = [rx EXCEPT ![s] = Tail(@)]

-----------------------------------------------------------------------------
(* The tunnel *)

\* Faulty: waits one frame too late.
RoomToReadLate(s) == Len(read_buffer[s]) <= kMaxBufferedFrames + 1

\* TunnelThread waits while more frames than this are queued.
RoomToRead(s) == Len(read_buffer[s]) <= kMaxBufferedFrames

\* TunnelThread reads one frame and queues it: nobody else adds a frame, so
\* there is still the room it found.
TunnelThread(s) ==
  /\ RoomToRead(s)
  /\ Len(tunnel_in[s]) < MaxFrames
  /\ \E length \in FrameLengths :
       LET n == Len(tunnel_in[s]) + 1
       IN  /\ tunnel_in' = [tunnel_in EXCEPT ![s] = Append(@, length)]
           /\ read_buffer' = [read_buffer EXCEPT
                ![s] = Append(@, [i \in 1..length |-> <<n, i>>])]
  /\ UNCHANGED <<next_id, last_ack_id, frame_buffer, tunnel_out, stable>>
  /\ UNCHANGED radioVars

\* frame is handed to write(); an error of write() is only logged.  The parity
\* of the number of writes makes two writes of the same frame two steps.
WriteTunnel(s, frame) ==
  tunnel_out' = [tunnel_out EXCEPT
    ![s] = [frame |-> frame, parity |-> 1 - @.parity]]

\* The payload of a packet joins the frame being received, which is written
\* once the packet says that nothing is left of it.
Reassemble(s, packet) ==
  LET assembled == frame_buffer[s] \o packet.data
  IN  \/ /\ packet.data = <<>>
         /\ UNCHANGED <<frame_buffer, tunnel_out>>
      \/ /\ packet.data # <<>> /\ packet.size > kMaxPayloadSize
         /\ frame_buffer' = [frame_buffer EXCEPT ![s] = assembled]
         /\ UNCHANGED tunnel_out
      \/ /\ packet.data # <<>> /\ packet.size <= kMaxPayloadSize
         /\ WriteTunnel(s, assembled)
         /\ frame_buffer' = [frame_buffer EXCEPT ![s] = <<>>]

\* Both sides treat the id of a packet and the payload behind it in this way.
AcceptPayload(s, packet) ==
  \/ /\ ValidateID(last_ack_id[s], packet.id)
     /\ last_ack_id' = [last_ack_id EXCEPT ![s] = packet.id]
     /\ Reassemble(s, packet)
  \/ /\ ~ValidateID(last_ack_id[s], packet.id)
     /\ UNCHANGED <<last_ack_id, frame_buffer, tunnel_out>>

\* Faulty: the id accepted last survives.
OpenSessionKeepsLast(s) ==
  /\ next_id' = [next_id EXCEPT ![s] = 1]
  /\ frame_buffer' = [frame_buffer EXCEPT ![s] = <<>>]
  /\ UNCHANGED last_ack_id

\* What the constructor and a connection reset both set.
OpenSession(s) ==
  /\ next_id' = [next_id EXCEPT ![s] = 1]
  /\ last_ack_id' = [last_ack_id EXCEPT ![s] = None]
  /\ frame_buffer' = [frame_buffer EXCEPT ![s] = <<>>]

\* A new process: the queued frames are gone and begin() has flushed the FIFO.
Restart(s) ==
  /\ OpenSession(s)
  /\ read_buffer' = [read_buffer EXCEPT ![s] = <<>>]
  /\ rx' = [rx EXCEPT ![s] = <<>>]
  /\ UNCHANGED <<historyVars, stable>>

RadioInit ==
  /\ next_id = [s \in Side |-> 1]
  /\ last_ack_id = [s \in Side |-> None]
  /\ read_buffer = [s \in Side |-> <<>>]
  /\ frame_buffer = [s \in Side |-> <<>>]
  /\ rx = [s \in Side |-> <<>>]
  /\ listening = FALSE
  /\ stable = (Faults = {})
  /\ tunnel_in = [s \in Side |-> <<>>]
  /\ tunnel_out = [s \in Side |-> [frame |-> <<>>, parity |-> 0]]

RadioTypeOK ==
  /\ next_id \in [Side -> PacketId]
  /\ last_ack_id \in [Side -> PacketId \cup {None}]
  /\ read_buffer \in [Side -> Seq(Frame)]
  /\ frame_buffer \in [Side -> Frame]
  /\ rx \in [Side -> Seq(Packet)]
  /\ listening \in BOOLEAN
  /\ stable \in BOOLEAN
  /\ tunnel_in \in [Side -> Seq(Nat)]
  /\ tunnel_out \in [Side -> [frame : Frame, parity : 0..1]]
=============================================================================
