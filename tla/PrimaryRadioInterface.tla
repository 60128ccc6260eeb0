------------------------ MODULE PrimaryRadioInterface ------------------------
(* The primary end of the poll link (src/primary_radio_interface.{h,cc}):   *)
(* the loop of Run, which opens a connection or exchanges one packet with   *)
(* the secondary in each turn, and its backoff.  Run holds the lock of the  *)
(* read buffer for a whole turn, so the tunnel thread adds a frame only     *)
(* while Run sleeps.                                                        *)
EXTENDS RadioInterface

CONSTANTS
  PollInterval,   \* poll_interval_us_
  ResetInterval,  \* the poll interval (1000000 us) from which failures reset
  FailLimit       \* the failures in a row (10) beyond which Run backs off

ASSUME PrimaryAssumption ==
  /\ PollInterval \in Nat
  /\ ResetInterval \in Nat
  /\ FailLimit \in Nat

VARIABLES
  phase,                     \* where Run is: asleep, or in Receive of a request
  connection_reset_required,
  poll_fail_count,           \* counted up to FailLimit + 1, all that is tested
  current_poll_interval

backoffVars == <<connection_reset_required, poll_fail_count, current_poll_interval>>
primaryVars == <<phase, backoffVars>>

\* The constructor leaves poll_fail_count_ uninitialised.
PrimaryInit ==
  /\ phase = "sleeping"
  /\ connection_reset_required = TRUE
  /\ poll_fail_count \in 0..FailLimit + 1
  /\ current_poll_interval = PollInterval

\* Faulty: backs off further and further instead of asking for a reset.
HandleFailureNoReset ==
  /\ poll_fail_count' =
       IF poll_fail_count > FailLimit THEN poll_fail_count ELSE poll_fail_count + 1
  /\ current_poll_interval' =
       IF poll_fail_count' > FailLimit /\ current_poll_interval < ResetInterval
       THEN current_poll_interval * 2 ELSE current_poll_interval
  /\ UNCHANGED connection_reset_required

HandleTransactionFailure ==
  /\ poll_fail_count' =
       IF poll_fail_count > FailLimit THEN poll_fail_count ELSE poll_fail_count + 1
  /\ \/ /\ poll_fail_count' <= FailLimit
        /\ UNCHANGED <<current_poll_interval, connection_reset_required>>
     \/ /\ poll_fail_count' > FailLimit
        /\ current_poll_interval < ResetInterval
        /\ current_poll_interval' = current_poll_interval * 2
        /\ UNCHANGED connection_reset_required
     \/ /\ poll_fail_count' > FailLimit
        /\ current_poll_interval >= ResetInterval
        /\ connection_reset_required' = TRUE
        /\ UNCHANGED current_poll_interval

\* The branch of Run for a transfer that succeeded.
TransferSucceeded ==
  /\ poll_fail_count' = 0
  /\ current_poll_interval' = PollInterval
  /\ UNCHANGED connection_reset_required

\* Send, and then either wait for the answer or count a failure.  The radio
\* is back in receive mode only when Receive is reached.
Request(packet, waiting) ==
  /\ phase = "sleeping"
  /\ \E success \in BOOLEAN :
       /\ Send("secondary", packet, success)
       /\ listening' = success
       /\ IF success
          THEN phase' = waiting /\ UNCHANGED backoffVars
          ELSE UNCHANGED phase /\ HandleTransactionFailure

\* ConnectionReset up to its Receive.
ConnectionReset ==
  /\ connection_reset_required
  /\ OpenSession("primary")
  /\ Request(ResetPacket, "resetting")
  /\ UNCHANGED <<read_buffer, historyVars, stable>>

\* PerformTunnelTransfer up to its Receive.
PerformTunnelTransfer ==
  /\ ~connection_reset_required
  /\ Request(EncodeTunnelTxRxPacket(next_id["primary"], last_ack_id["primary"],
                                    read_buffer["primary"]), "transferring")
  /\ UNCHANGED <<linkVars, historyVars, stable>>

\* Faulty: looks at the clock before it looks at the radio.
GiveUpEarly == phase # "sleeping"

\* Receive gives up only when no packet is available.
GiveUp == phase # "sleeping" /\ rx["primary"] = <<>>

\* The timeout of the Receive of either request.
ReceiveTimeout ==
  /\ GiveUp
  /\ phase' = "sleeping"
  /\ HandleTransactionFailure
  /\ UNCHANGED <<linkVars, radioVars, historyVars, stable>>

\* ConnectionReset from its Receive: whatever packet is read is the answer.
ConnectionResetAnswer ==
  /\ phase = "resetting"
  /\ Receive("primary")
  /\ phase' = "sleeping"
  /\ LET response == Head(rx["primary"])
     IN  IF response.id = None /\ response.ack = None
         THEN /\ connection_reset_required' = FALSE
              /\ UNCHANGED <<poll_fail_count, current_poll_interval>>
         ELSE HandleTransactionFailure
  /\ UNCHANGED <<linkVars, listening, historyVars, stable>>

\* The acknowledgement in an answer: it drops the chunk at the front of the
\* buffer, whether or not the request that is acknowledged carried it.
HandleAck(response) ==
  IF response.ack # next_id["primary"]
  THEN UNCHANGED <<next_id, read_buffer>>
  ELSE /\ next_id' = [next_id EXCEPT !["primary"] = AdvanceID(@)]
       /\ read_buffer' = [read_buffer EXCEPT
            !["primary"] = IF @ = <<>> THEN @ ELSE EraseChunk(@)]

\* PerformTunnelTransfer from its Receive.
PerformTunnelTransferAnswer ==
  /\ phase = "transferring"
  /\ Receive("primary")
  /\ phase' = "sleeping"
  /\ LET response == Head(rx["primary"])
     IN  IF response.id = None \/ response.ack = None
         THEN /\ UNCHANGED <<linkVars, tunnel_out>>
              /\ HandleTransactionFailure
         ELSE /\ HandleAck(response)
              /\ AcceptPayload("primary", response)
              /\ IF /\ response.ack = next_id["primary"]
                    /\ ValidateID(last_ack_id["primary"], response.id)
                 THEN TransferSucceeded
                 ELSE HandleTransactionFailure
  /\ UNCHANGED <<listening, tunnel_in, stable>>

PrimaryRestart ==
  /\ May("restart_primary")
  /\ Restart("primary")
  /\ listening' = FALSE
  /\ phase' = "sleeping"
  /\ connection_reset_required' = TRUE
  /\ poll_fail_count' \in 0..FailLimit + 1
  /\ current_poll_interval' = PollInterval

PrimaryTypeOK ==
  /\ phase \in {"sleeping", "resetting", "transferring"}
  /\ connection_reset_required \in BOOLEAN
  /\ poll_fail_count \in 0..FailLimit + 1
  /\ current_poll_interval \in Nat
=============================================================================
