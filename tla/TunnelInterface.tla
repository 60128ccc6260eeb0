--------------------------- MODULE TunnelInterface ---------------------------
(* src/layers/tunnel_interface.{h,cc}: the tunnel thread reads frames and   *)
(* queues them; Run, called by the main loop, sends the first one down and  *)
(* writes a message that came up.  Reset is never called.                   *)
EXTENDS MessageFragmentationLayer

CONSTANTS
  kMaxBufferedFrames,  \* 1024
  FrameLengths         \* bound: the lengths of the frames the kernel of a node writes

ASSUME TunnelAssumption ==
  /\ kMaxBufferedFrames \in Nat
  /\ FrameLengths \in [Node -> SUBSET (Nat \ {0})]

VARIABLES
  downstream_buffer,
  upstream_buffer,
  at_read,     \* the tunnel threads that wait for a frame; the others wait for room
  frames_to_come,  \* bound: how many frames the tunnel of each node still yields
  in_run,      \* the main loops inside Run, which hold downstream_buffer_mutex_
  tunnel_in,   \* the lengths of the frames each node has read
  tunnel_out   \* the messages each node has written

tunnelVars ==
  <<downstream_buffer, upstream_buffer, at_read, frames_to_come, in_run,
    tunnel_in, tunnel_out>>

Alive(n) == comms_state[n] # "CommsNone"

Frame(n, k, length) == [j \in 1..length |-> <<n, k, j>>]

-----------------------------------------------------------------------------
(* TunnelThread *)

MoreFrames(n) == frames_to_come[n] > 0

ReadFrame(n) ==
  /\ Alive(n) /\ n \in at_read /\ n \notin in_run
  /\ MoreFrames(n)
  /\ \E length \in FrameLengths[n] :
       /\ tunnel_in' = [tunnel_in EXCEPT ![n] = Append(@, length)]
       /\ downstream_buffer' = [downstream_buffer EXCEPT
            ![n] = Append(@, Frame(n, Len(tunnel_in[n]) + 1, length))]
  /\ at_read' = at_read \ {n}
  /\ frames_to_come' = [frames_to_come EXCEPT ![n] = @ - 1]
  /\ UNCHANGED <<upstream_buffer, in_run, tunnel_out>>

\* Faulty: looks for room for the frame that is queued already.
HasRoomLate(n) == Len(downstream_buffer[n]) <= kMaxBufferedFrames + 1

HasRoom(n) == Len(downstream_buffer[n]) <= kMaxBufferedFrames

\* The size is read without the lock: while Run pops, it may be anything.
CheckRoom(n) ==
  /\ Alive(n) /\ n \notin at_read /\ MoreFrames(n)
  /\ HasRoom(n) \/ n \in in_run
  /\ at_read' = at_read \cup {n}
  /\ UNCHANGED <<downstream_buffer, upstream_buffer, frames_to_come, in_run, tunnel_in, tunnel_out>>

-----------------------------------------------------------------------------
(* Run *)

\* SendDownstream, with the lock held.
BeginRun(n) ==
  /\ Alive(n) /\ n \notin in_run
  /\ downstream_buffer[n] # <<>>
  /\ FragmentationReceiveFromUpstream(n, Head(downstream_buffer[n]))
  /\ in_run' = in_run \cup {n}
  /\ UNCHANGED <<downstream_buffer, upstream_buffer, at_read, frames_to_come, tunnel_in, tunnel_out>>

WriteToTunnel(n) ==
  IF upstream_buffer[n] = <<>>
  THEN UNCHANGED <<upstream_buffer, tunnel_out>>
  ELSE /\ tunnel_out' = [tunnel_out EXCEPT ![n] = Append(@, Head(upstream_buffer[n]))]
       /\ upstream_buffer' = [upstream_buffer EXCEPT ![n] = Tail(@)]

\* pop_front and WriteToTunnel, after a frame was sent or without one.
EndRun(n) ==
  /\ Alive(n)
  /\ \/ /\ n \in in_run
        /\ downstream_buffer' = [downstream_buffer EXCEPT ![n] = Tail(@)]
     \/ /\ n \notin in_run
        /\ downstream_buffer[n] = <<>> /\ upstream_buffer[n] # <<>>
        /\ UNCHANGED downstream_buffer
  /\ in_run' = in_run \ {n}
  /\ WriteToTunnel(n)
  /\ UNCHANGED <<at_read, frames_to_come, tunnel_in>>

\* A message comes up.
TunnelReceiveFromDownstream(n, data) ==
  /\ upstream_buffer' = [upstream_buffer EXCEPT ![n] = Append(@, data)]
  /\ UNCHANGED <<downstream_buffer, at_read, frames_to_come, in_run, tunnel_in, tunnel_out>>
=============================================================================
