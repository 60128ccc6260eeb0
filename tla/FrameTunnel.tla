---------------------------- MODULE FrameTunnel ----------------------------
(* What the poll link promises to the two hosts whose tunnels it joins.     *)
EXTENDS Integers, Sequences

CONSTANT FrameLengths

VARIABLES
  in,    \* the lengths of the frames each host has put into its tunnel
  out,   \* the last frame each host got out of its tunnel
  fresh  \* the host got nothing yet in this session

vars == <<in, out, fresh>>

Side == {"primary", "secondary"}
Peer(s) == IF s = "primary" THEN "secondary" ELSE "primary"

Init ==
  /\ in = [s \in Side |-> <<>>]
  /\ out = [s \in Side |-> [frame |-> <<>>, parity |-> 0]]
  /\ fresh = [s \in Side |-> TRUE]

Put(s) ==
  /\ \E length \in FrameLengths : in' = [in EXCEPT ![s] = Append(@, length)]
  /\ UNCHANGED <<out, fresh>>

\* The number of the last frame host s got, 0 if none.
LastGot(s) == IF out[s].frame = <<>> THEN 0 ELSE out[s].frame[1][1]

\* A host gets the frames of the other in order.  Frames may be missing, and
\* so may the beginning of a frame.  What starts a session may repeat the
\* last frame of the one before.
Get(s) ==
  /\ \E n \in 1..Len(in[Peer(s)]) : \E k \in 1..in[Peer(s)][n] :
       /\ n > LastGot(s) \/ (fresh[s] /\ n = LastGot(s))
       /\ out' = [out EXCEPT
            ![s] = [frame  |-> [i \in 1..in[Peer(s)][n] - k + 1 |-> <<n, i + k - 1>>],
                    parity |-> 1 - @.parity]]
  /\ fresh' = [fresh EXCEPT ![s] = FALSE]
  /\ UNCHANGED in

\* A packet of the session arrives that completes no frame.
Hear(s) == fresh' = [fresh EXCEPT ![s] = FALSE] /\ UNCHANGED <<in, out>>

Reopen(s) == fresh' = [fresh EXCEPT ![s] = TRUE] /\ UNCHANGED <<in, out>>

Next == \E s \in Side : Put(s) \/ Get(s) \/ Hear(s) \/ Reopen(s)

Spec == Init /\ [][Next]_vars
=============================================================================
