------------------------------ MODULE PollLink ------------------------------
(* The poll link: a primary and a secondary that exchange the frames of     *)
(* their tunnels over the air.                                              *)
EXTENDS PrimaryRadioInterface, SecondaryRadioInterface

vars == <<linkVars, radioVars, historyVars, stable, primaryVars, secondaryVars>>

Init == RadioInit /\ PrimaryInit /\ SecondaryInit

-----------------------------------------------------------------------------

\* The secondary has nothing to do and no answer waits for the primary.
Answered == rx["secondary"] = <<>> /\ reply = <<>>

\* Without the fault "late" an answer is on the air before the primary gives
\* up on it, and a request is dealt with before the primary polls again.
Prompt == ~May("late") => Answered

Poll == (ConnectionReset \/ PerformTunnelTransfer) /\ Prompt /\ UNCHANGED secondaryVars

Timeout == ReceiveTimeout /\ Prompt /\ UNCHANGED secondaryVars

Answer ==
  (ConnectionResetAnswer \/ PerformTunnelTransferAnswer) /\ UNCHANGED secondaryVars

Primary == Poll \/ Timeout \/ Answer

Secondary == (HandleRequest \/ SendReply) /\ UNCHANGED primaryVars

\* Who holds the lock of the read buffer keeps the tunnel thread out.
Unlocked(s) == IF s = "primary" THEN phase = "sleeping" ELSE ~SecondaryLocked

ReadTunnel(s) ==
  Unlocked(s) /\ TunnelThread(s) /\ UNCHANGED <<primaryVars, secondaryVars>>

Crash == \/ PrimaryRestart /\ UNCHANGED secondaryVars
         \/ SecondaryRestart /\ UNCHANGED primaryVars

\* From here on the air is quiet, both hosts are prompt and nobody crashes.
Stabilise ==
  /\ ~stable
  /\ stable' = TRUE
  /\ UNCHANGED <<linkVars, radioVars, historyVars, primaryVars, secondaryVars>>

Next == \/ Primary
        \/ Secondary
        \/ \E s \in Side : ReadTunnel(s)
        \/ Crash
        \/ Stabilise

Spec == Init /\ [][Next]_vars

\* Each process keeps running and the environment settles in the end.
FairSpec == Spec /\ WF_vars(Primary) /\ WF_vars(Secondary) /\ WF_vars(Stabilise)

-----------------------------------------------------------------------------
(* What must hold *)

\* Every variable keeps its type: ids stay in 1..kIDMask when AdvanceID wraps,
\* queues hold well-formed frames and packets.
TypeOK == RadioTypeOK /\ PrimaryTypeOK /\ SecondaryTypeOK

\* TunnelThread lets the read buffer grow by at most one frame beyond its limit,
\* whatever the resets and retransmissions of the other thread do.
BufferBound == \A s \in Side : Len(read_buffer[s]) <= kMaxBufferedFrames + 1

\* While payload_in_flight_ is set there is a frame to acknowledge: the secondary
\* never drops the chunk of a frame that arrived after the response was sent.
InFlightHasFrame == payload_in_flight => read_buffer["secondary"] # <<>>

IsLastByte(s, byte) == byte[2] = tunnel_in[s][byte[1]]

\* A frame is written when, and only when, the last byte of a frame read at the
\* other end has arrived: bytes_left of a packet never ends a frame early, and
\* no end is swallowed, even when resets, late answers or restarts mix chunks.
FrameEndsKept ==
  \A s \in Side : \A i \in 1..Len(tunnel_out[s].frame) :
    IsLastByte(Peer(s), tunnel_out[s].frame[i]) <=> i = Len(tunnel_out[s].frame)

\* Without late answers, request and response alternate: at most one packet is
\* on its way, so no answer is taken for the answer to another request.
OneInFlight ==
  "late" \notin Faults =>
    Len(rx["primary"]) + Len(rx["secondary"]) + Len(reply) <= 1

\* No exchange is under way.
Quiet == phase = "sleeping" /\ Answered

\* The id one end sends next and the id the other end accepted last.
InStep(next, last) ==
  \/ last = None /\ next = 1
  \/ last = next
  \/ AdvanceID(last) = next

\* In a session, each end is at most one packet ahead of what the other end has
\* accepted, whichever packets were lost on the way and across the wrap of ids:
\* a retransmission is always recognised as one, and a new packet never is.
IdsInStep ==
  Quiet /\ ~connection_reset_required =>
    /\ InStep(next_id["primary"], last_ack_id["secondary"])
    /\ InStep(next_id["secondary"], last_ack_id["primary"])

Written(s) == tunnel_out[s].frame # <<>>

\* The bytes of frame n of side s from the k-th on.
FrameFrom(s, n, k) == [i \in 1..tunnel_in[s][n] - k + 1 |-> <<n, i + k - 1>>]

\* frame_buffer_ is "written out to the tunnel interface when completely
\* received" (radio_interface.h:106): every frame written is a whole frame.
WrittenComplete ==
  \A s \in Side : Written(s) =>
    \E n \in 1..Len(tunnel_in[Peer(s)]) :
      tunnel_out[s].frame = FrameFrom(Peer(s), n, 1)

\* The primary writes the frames of the secondary whole, in order, each once and
\* none left out: what payload_in_flight_ and the ids are for.
DownlinkComplete ==
  [][tunnel_out["primary"]' # tunnel_out["primary"] =>
       LET n == IF Written("primary") THEN tunnel_out["primary"].frame[1][1] ELSE 0
       IN  /\ n < Len(tunnel_in["secondary"])
           /\ tunnel_out["primary"].frame' = FrameFrom("secondary", n + 1, 1)]_vars

Tunnel == INSTANCE FrameTunnel
  WITH in <- tunnel_in, out <- tunnel_out,
       fresh <- [s \in Side |-> last_ack_id[s] = None]

\* The link implements FrameTunnel: frames come out in order, each at most once
\* in a session, and a session repeats at most the last frame of the one before.
ImplementsTunnel == Tunnel!Spec

-----------------------------------------------------------------------------
(* What must happen *)

\* Once the environment has settled, the read buffers become empty: no sequence of
\* losses and resets leaves the ids of the two ends in a state where a chunk is
\* retransmitted for ever.  A chunk may leave its buffer without getting across
\* (WrittenComplete).
Drained == <>[](\A s \in Side : read_buffer[s] = <<>>)

\* Once the environment has settled, polls stop failing and the backoff, "when
\* the secondary radio is not responding" (primary_radio_interface.h:46), ends.
LinkRecovers ==
  <>[](poll_fail_count = 0 /\ current_poll_interval = PollInterval)
=============================================================================
