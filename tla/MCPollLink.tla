----------------------------- MODULE MCPollLink -----------------------------
(* The faults of the runs of PollLink.                                      *)
EXTENDS PollLink

NoRestart == {"loss", "ack_loss"}
PrimaryRestarts == {"loss", "ack_loss", "restart_primary"}
BothRestart == {"loss", "restart_primary", "restart_secondary"}
LateAnswers == {"loss", "late"}
=============================================================================
