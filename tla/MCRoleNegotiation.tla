-------------------------- MODULE MCRoleNegotiation --------------------------
(* The nodes and the faults of the runs of RoleNegotiation.                 *)
EXTENDS RoleNegotiation

EveryFault == AllFaults
=============================================================================
