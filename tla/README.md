# Verification of nrfnet

nrfnet joins Linux hosts by nRF24L01 radios. Each host has a tunnel device (TUN);
a frame that the kernel writes to it crosses the air in packets of 32 bytes and
comes out of the tunnel device of another host. `/etc/nrfnet/nrfnet.conf` selects
one of four modes:

- **Primary** / **Secondary**: two hosts. The primary polls, the secondary answers.
- **Automatic**: the two hosts first negotiate who is the primary.
- **Mesh**: any number of hosts find one another on a common channel and give
  themselves node ids.

This directory holds TLA+ models of the protocols of these modes, the TLC runs that
check them and the TLAPS proofs about them. `PROJECT.json` maps every definition to
the lines of the source that it models; paths below are relative to `src/src/`.

## 1. Components

### Poll link (`radio_interface`, `primary_radio_interface`, `secondary_radio_interface`)

*State.* Both ends: `next_id_` (id of the next packet, 1..15), `last_ack_id_` (the id
accepted last), `read_buffer_` (frames read from the tunnel, shared by two threads
under `read_buffer_mutex_`), `frame_buffer_` (the frame being received). Primary:
`poll_fail_count_`, `current_poll_interval_us_`, `connection_reset_required_`.
Secondary: `payload_in_flight_`.

*Operations.* `TunnelThread` queues frames. The primary's `Run` sleeps for the poll
interval, then, with the mutex held, either resets the connection or exchanges one
packet (`PerformTunnelTransfer`): it sends id, acknowledgement and up to 30 bytes of
its first frame and waits up to 100 ms for a packet of the same form.
`HandleTransactionFailure` counts failures, doubles the interval beyond ten, and asks
for a reset once the interval is a second. The secondary handles one request at a
time (`HandleNetworkTunnelReset`, `HandleNetworkTunnelTxRx`) and sends a response.

*Hard behaviours.* Lost packets, and lost hardware acknowledgements of packets that
arrived; retransmissions under the same id; ids that wrap; a frame that joins the
buffer between a request and its retransmission; answers that come after the timeout
and stay in the RX FIFO; resets in the middle of a frame; restarts of one end.

*Correct when* the ids of the ends stay in step, frames come out in order, whole and
at most once, buffers stay bounded, and after the last fault the link transfers again
and the read buffers drain.

### Negotiation of the roles (`AutoNegotiateRadioInterface` in `nerfnet_main.cc`)

*State.* Where the function is, and the RX FIFO. *Operations.* Write one discovery
packet; listen; on an answer return Primary; on a discovery answer it and return
Secondary. *Hard behaviours.* Both write before either listens; a process that is
started again while packets of its former self are around. *Correct when* the roles
differ and the negotiation ends.

### Mesh radio (`layers/mesh_radio_interface`)

*State.* `node_id_`, `comms_state_`, `radio_state`, `neighbor_node_ids_`,
`number_of_discovery_messages_sent_`, `discovery_message_timer_`,
`discovery_ack_received_time_us_`, `packets_to_send_`. *Operations.* `Run` is called
in a loop: it receives or sends according to `radio_state` and runs `DiscoveryTask`.
A new node has a random id from 101 on; it sends a discovery packet every second; a
running node answers with its id and its neighbors; a second after the first answer
the node takes the smallest id that is not in its neighbor list; without an answer it
takes 0 after four messages, but a discovery packet of a lower random id sets that
count to 0. *Hard behaviours.* Nodes that start together; broadcasts without
acknowledgement; announcements that wait in the send queue; restarts, after which old
ids stay in the lists of the others. *Correct when* nodes take free ids, as far as they
can know, those with different ids know one another, neighbor lists hold ids of other
running nodes only, and every node comes to run.

### Data plane of the mesh (`layers/tunnel_interface`, `layers/message_fragmentation_layer`, `layers/ack_handling_layer`, `utils/ILayer.h`, `utils/message_definitions.h`)

*State.* Two frame buffers with a mutex each, shared by the tunnel thread and the main
loop; the fragments received so far; packets waiting and packets pending. *Operations.*
A frame goes down through the layers by direct calls: it is cut into packets of
payload, (if enabled) each is sent until it is acknowledged, and the mesh radio
addresses it to the first of its neighbors; upwards, fragments are collected until one
is marked as the last, and the message is written to the tunnel. *Hard behaviours.*
Fragments of several senders, lost last fragments, packets repeated because their
acknowledgement was late, acknowledgements that go to the first neighbor instead of the
sender, a first neighbor that changes between two fragments, neighbors that are
gone, a size that is read without its lock. *Correct when* chunks come in order, a
message ends where a frame ends, what was acknowledged has arrived and equals what is
dropped for it, nothing stays on the way for ever, and everything arrives where nothing
can get lost.

### Logger (`utils/log.h`)

*State.* `log_queue_`, `stats`, `dataChanged`, `stop_thread_`, and the screen.
*Operations.* `LOG` queues a message under the lock, then sets `dataChanged` and
notifies without it; `INCREMENT_STATS` does all without the lock; `log_thread` waits for
`dataChanged` or 1.5 seconds, clears it and prints; `CHECK` logs and calls `exit`, which
destroys the logger and joins the thread. *Hard behaviours.* Changes between the test
and the wait, or between clearing and printing; `exit` while the thread waits.
*Correct when* no change is forgotten, the screen comes to show the last state, and
`exit` ends with the message on the screen.

### Other parts

`main` opens the tunnel device by system calls and wires the layers: the wiring and the
loop are in `MeshStack`, the system calls are not modelled. `ConfigParser` (text
parsing before anything runs; its values are the constants) and `nrftime` (wrappers of
the clock) are not modelled.

## 2. Modules

| Module | Models |
| --- | --- |
| `RadioInterface` | what both ends of the poll link share, and the radio under it |
| `PrimaryRadioInterface`, `SecondaryRadioInterface` | the two ends (both extend `RadioInterface`) |
| `PollLink` | the composition: two processes, two tunnel threads, crashes, fairness, properties |
| `FrameTunnel` | abstract specification: what the link promises to the two hosts |
| `PollLinkProofs` | types of `PollLink` and what holds under every fault |
| `PollLinkSessionProofs`, `PollLinkTunnelProofs`, `PollLinkDownlinkProofs` | the ids of a session; the refinement of `FrameTunnel`; whole frames of the secondary |
| `RoleNegotiation`, `RoleNegotiationProofs` | the negotiation of the roles and a theorem about it |
| `MeshRadioInterface`, `MeshRadioInterfaceProofs` | discovery and node ids in the mesh, and theorems about them |
| `MeshDataPackets` | data packets of the mesh radio, and its calls from and to the layers above |
| `AckLayer`, `MessageFragmentationLayer`, `TunnelInterface` | one layer each, each extending the one below |
| `MeshStack` | mesh mode on several nodes: the layers, the main loop, the tunnel thread, nodes that start |
| `MeshStackProofs` | theorems about `MeshStack` |
| `Logger`, `LoggerProofs` | the logger, and theorems about it |
| `MCPollLink`, `MCRoleNegotiation`, `MCMeshRadioInterface`, `MCMeshStack` | sets of faults, situations and symmetry for TLC |

Operators whose comment begins with "Faulty" are variants of the operator that follows
them, with a plausible mistake. No action uses them: a property is trusted only when TLC
finds it violated with the variant in the operator's place.

### How the poll link is modelled

A turn of the primary's `Run` is cut where another process can intervene: at its
`Receive`. `ConnectionReset` and `PerformTunnelTransfer` run up to there (`phase`
becomes `resetting` or `transferring`), the `...Answer` actions from there, and
`ReceiveTimeout` is the timeout. `Run` holds the mutex for the whole turn, so the tunnel
thread of the primary adds frames only while `phase` is `sleeping`. The secondary has
two steps per request, `HandleRequest` and `SendReply`; its mutex is held in between
except for a reset.

The tunnel thread of either end checks the bound, reads a frame and appends it in one
action, `TunnelThread`. In the code it takes the lock once for the check and once for the
append, but nothing else adds a frame, so a frame that was read while there was room still
has room when it is appended.

A byte of a frame is a pair: the number of the frame and the position in it. So
properties can tell frames, their beginnings and their ends apart, and no payload is
needed. A packet is the decoded `TunnelTxRxPacket`.

`write()` of the RF24 library succeeds only when the other chip acknowledged; the chip
acknowledges when it is in receive mode and its RX FIFO has room. The secondary is
treated as always able to hear, because it leaves receive mode only to send. The
primary is in receive mode (`listening`) from a successful `Send` until the next one;
after a failed `Send` it stays out of it, as in the code, where `startListening` is
called only by `Receive`. Nothing but `read()` (and `begin()` of a new process) empties
an RX FIFO.

The poll interval and the limits (`PollInterval`, `ResetInterval`, `FailLimit`)
are constants. `poll_fail_count_` has no initial value in the code: the model takes any.

### How the negotiation is modelled

One action per step of the function that the other node can see: write the discovery,
listen, read a packet, write the answer. The loop does not leave receive mode between
reading a discovery and `stopListening` for long enough to matter: both are one step.
Without the fault `slow`, a node has begun to listen by the time an answer to its
discovery is on the air; with it, it may still be on its way from `write` to
`startListening`.

### How discovery is modelled

Time passes by `Tick`, one second: the period of discovery messages and the wait after
the first answer. The packets and timers of one second are dealt with before the
next, which holds by three orders of magnitude unless the fault `late` is allowed.
`Sender` and `Receiver` take turns (`EndTurn`), `ContinuousSenderReceiver` does both.
`Send` takes up to three packets to the same address, as the code does. A packet
reaches the nodes that have its address when it is sent; packets to the random id of a
node that has settled meanwhile reach nobody. The constructor does not call
`startListening`, so a new node (`Opened`) hears nothing before its first `Send` is over.
A response lists as many neighbors as fit, in any order (the set is unordered). Its count
is a byte, the size of the set modulo 256, and may exceed them: then the receiver
reads bytes beyond the packet, any values in the model. A node whose wait is over takes an
id at once (`SettleAmongNeighbors`), also while the announcement of another node that did
so in the same moment is on its way to it. `CHECK(false)` for lack of
an id ends the process (`Abort`), which may be started again.

Without the fault `loss` a sender is held up until the recipients' FIFOs have room, so
that nothing is lost by overflow either. The code sends regardless: what it loses that
way is what `loss` allows.

### How the mesh stack is modelled

The modules follow the layers from the radio up: `MeshRadioInterface`,
`MeshDataPackets`, `AckLayer`, `MessageFragmentationLayer`, `TunnelInterface`, each
extending the one below, so that a call of the code is a use of an operator
(`SendDownstream` of the tunnel is `FragmentationReceiveFromUpstream`, and so on).
`MeshStack` has one action per call that the main loop makes: `TunnelRun`, `LayerRun`
(`ack_layer.Run`), and those of `radio_interface.Run`: `RadioSends`, `RadioRun` (timers
and turns), `RadioLearns` (a packet of the discovery) and `RadioHandsUp` (a data packet,
which climbs through all layers in one step, as nothing else can see it on its way).
The order of the calls in the loop is kept where it matters: a message that came up is
written before the next one comes, and no other call happens within `Run` of the tunnel.

`Run` of the tunnel is cut in two, because it holds `downstream_buffer_mutex_` from the
call of the lower layers to `pop_front`: the tunnel thread cannot append then, but it can
read the size, which is without the lock; it may read any value. So the thread has two
steps, `CheckRoom` and `ReadFrame`.

A byte is followed by the triple node, number of the frame, position, so that properties
can say where it went. What it contains is `Value` of the triple, a constant operator, and
the layers compare contents only (`SameContents`): the packet number, which the code only
logs, is left out. So the acknowledgement of one packet may be taken for that of
another with equal contents. In the run all bytes are zero, as in zero-filled frames,
and it is: the two fragments of a frame are equal, and a late acknowledgement of the first
removes the second.

The first element of `neighbor_node_ids_`, an unordered set, is a variable: an
insertion may put any of the elements in front. A packet is addressed when it is
queued. A resend needs 80 ms; without the fault `late` it happens only when neither the
packet nor its acknowledgement is on its way any more. `enabled` of `AckLayer` is chosen
at the start; `main` sets it to false, where the layer only passes packets on.

Discovery from nothing takes many steps that do not matter to data, so the stack starts
in one of several *situations* (`Scenarios`): nodes that run and know one another, and
perhaps nodes that are still to start. Each is a state that the discovery of
`MeshRadioInterface` leads to: the ids are different, which they are unless nodes settle
in the same moment, and ids that belong to nobody are those of nodes that have gone.

### How the logger is modelled

`log_thread` has one step for each point between which another thread can intervene:
lock, test of the predicate, wait (which releases the lock), timeout, clearing of
`dataChanged` with the test of `stop_thread_`, output, end of the turn. The other threads
keep the lock for one step only. A message is its number; all counters are one.
`UPDATE_STATS` sets a field without a notification, but an `INCREMENT_STATS` follows
it at its only use, so it is left out, like the error rate. A wait may also end without
a notification; that is the timeout here, which does the same.

## 3. Faults and fairness

`Faults` lists what the environment may do until `Stabilise`; a run chooses a set.

| Module | Fault | Meaning |
| --- | --- | --- |
| poll link | `loss`, `ack_loss` | a packet, or only the acknowledgements of its arrival, are lost |
| | `late` | the secondary may take longer than the primary's timeout and poll interval |
| | `restart_primary`, `restart_secondary` | the process dies; `install.sh:66-67` has systemd start it again |
| negotiation | `loss`, `slow`, `restart` | as above; a node held up before it listens |
| mesh | `loss` | a broadcast reaches some nodes or none (automatic acknowledgement is off) |
| | `late` | packets or timers outlast a second |
| | `same_id`, `restart` | equal random ids (`srand(time)`); a process ends and starts again |
| mesh stack | `loss`, `late` | as above; `late` also lets a resend come before the acknowledgement |

Safety runs use `Spec`, where `Stabilise` need not happen. Liveness runs use `FairSpec`:
weak fairness of each process (its loop has no way to stop; the scheduler runs it),
of the clock, and of `Stabilise` ("the faults end"). In the mesh, sending
and receiving alternate in turns of 5 ms that last for many rounds of the loop, so a
packet that can be sent or received again and again, will be: strong fairness of
`Send` and `Receive`. In the stack the main loop of each node is fair in the same
way (`TunnelRun`, `LayerRun`, timers weakly; sending and receiving strongly), the tunnel
thread and the start of a node are not. In the logger, `log_thread` is weakly fair, and
the threads within a macro or `exit` are strongly fair, because `log_thread` takes the
lock again and again and a mutex does not keep one thread out for ever.
Reading a tunnel, logging, starting, faults and crashing are never fair.

## 4. Runs

All bounds are in the `.cfg` files. Poll link: payload of 1 byte, size field up to 2
(frames of 3 bytes exceed it), ids up to 3 (they wrap within a frame or two),
frames of 1 to 3 bytes, one or two frames per side, a queue limit of 0 or 1, FIFO of 1
or 2 packets (more is needed only with late answers), reset after one doubling, backoff
after the second failure. These are small, but every comparison in the code goes both
ways: chunks that end a frame and chunks that do not, sizes above and below the field's
maximum, full and empty queues, wrapped ids, backoff and reset.

| Run | Question | Properties |
| --- | --- | --- |
| `link_lossy` | Losses and restarts of the primary: do the ids stay in step, frames in order and buffers bounded? | `TypeOK`, `OneInFlight`, `IdsInStep`, `FrameEndsKept`, `BufferBound`, `InFlightHasFrame`, `ImplementsTunnel` |
| `link_no_reset` | Are frames of the secondary complete while no reset happens? | `DownlinkComplete` |
| `link_settles` | Do the read buffers drain and does the backoff end after the last fault? | `Drained`, `LinkRecovers` |
| `roles_settle` | Do two nodes take different roles, and does a discovery that is heard settle them? | `TypeOK`, `RolesDiffer`, `HeardPairs` |
| `mesh_three` | Three nodes that start at any time: when do two take the same id, and are neighbor lists right and complete? | `TypeOK`, `NeighborsAreOthers`, `KnowOneAnother`, `TakenUnheard` |
| `mesh_restarts` | Does every node come to run after losses, restarts and equal random ids? | `AllRun` |
| `mesh_stack` | Frames through all layers with losses, late packets, several senders and nodes that join: order, arrival, progress? | `StackTypeOK`, `DownstreamBound`, `EndsKept`, `InOrder`, `AckedArrived`, `Delivered`, `StackDrained` |
| `logger_shows` | Is no change forgotten, is the last state shown, does `exit` end? | `TypeOK`, `StaleFlagged`, `ScreenCatchesUp`, `ExitEnds` |

`link_lossy` has no late answers and no restart of the secondary, because the ids do get out
of step then. What holds under every fault (`FrameEndsKept`, `BufferBound`,
`InFlightHasFrame`) is proved for every set of faults (section 5).

`Drained` says that no chunk is retransmitted for ever. It does not say that every chunk gets
across: one that joins a retransmitted request leaves its buffer without doing so
(`link_uplink_hole` below, which needs nothing that `link_settles` excludes).

`ImplementsTunnel` is the refinement: `PollLink` implements `FrameTunnel` with
`in <- tunnel_in`, `out <- tunnel_out` and "fresh" for a side that has accepted no id in
this session. `FrameTunnel` promises order and no repetition within a session, that a
new session repeats at most the last frame of the one before, and that what comes out is a
frame or the end of one. It does not promise that frames are whole: they are not.

The negotiation is finite (222 states); its FIFO holds three packets, as the
chip's. In the mesh, three nodes are the least for which one learns of
another from a third; two nodes and two ids of each kind suffice for the liveness run.
`max_discovery_messages` is 3, as in the code, for the safety run and 1 for the liveness
run, which does not depend on who wins. Late packets (`late`) together with restarts are
too many states for a liveness run of discovery; `mesh_stack` has them for data.

`mesh_stack` begins in five situations: `Pair` (two nodes on a bad channel, which know of
a third that is gone), `Trio` (three nodes on a quiet channel, two of which send, with the
first neighbors in any order), `Second` and `Third` (a node joins one, or two, that read
frames), `Full` (a node finds no free id and ends). `AckLayer` is enabled or not in
each, except while nodes join. A payload has two bytes, all bytes are zero; a
frame of four bytes makes two equal packets, and one of one byte a packet that is not
full. `FifoDepth` is 3, as in the chip, because up to three packets leave together; a queue limit of 0 frames makes
the tunnel thread wait after each. A packet is given up after the second time it was sent
(`kMaxTimesSent = 1`). The run was repeated with other lengths (three or four
bytes and two; four bytes, and two or three) without a different result. `logger_shows` has
two threads, two lines and four changes: lines are dropped, and both threads may be
between their change and their notification.

What `mesh_stack` does not promise is as telling as what it does: fragments of two
senders may be written as one message, a message may lack its beginning, a repeated
chunk is written twice, a frame may be split between two nodes, and where packets get
lost without `AckLayer` so do frames. Nothing in the code is meant to prevent these.

Deadlock is checked in all runs but those of the negotiation, where the function
returns, and of the logger, where `exit` ends the process and the number of changes is
bounded.

### Disagreements between the code and what is said of it

These runs check one property each, and TLC finds it violated. The counterexamples
are behaviours of the code as it is.

| Run | Said | Shown |
| --- | --- | --- |
| `link_uplink_hole` | `radio_interface.h:106`: `frame_buffer_` is "written out ... when completely received" | A request without payload arrives and its answer is lost. A frame is read from the tunnel; the retransmission, under the same id, carries its first chunk. The secondary ignores it as a repetition and acknowledges the id; the primary drops the chunk. |
| `link_stale_answer` | `primary_radio_interface.h:46`: backoff "when the secondary radio is not responding" | One late answer stays in the FIFO. From then on every answer is read one request too late, resets included, and polls fail for ever although the secondary answers each. |
| `roles_together` | `nerfnet_main.cc:266`: "Failed to negotiate radio roles" | Two nodes that write before either listens wait for ever; the function never returns without a role. |
| `logger_fatal_lost` | `log.h:235`: "quit if it evaluates to false with an error log" | The message of the failed `CHECK` is queued, `exit` sets `stop_thread_`, and `log_thread` tests it before it prints: the message is never shown. |

Two more were met that no run repeats. A reset in the middle of a frame (or a restart of
its receiver) loses the first chunks, which the sender has already erased, and the rest of the
frame is written, against `radio_interface.h:106` again: `FrameTunnel` therefore promises
ends of frames only. And with the faults `loss` and `late` a node that got no response takes
id 0 although an announcement has put 0 into its neighbor list, against "making sure to
not assign one in the neighbor list" (`mesh_radio_interface.cc:300`).

Nor do ids stay unique, which no comment claims. A discovery packet of a lower id makes
the others send theirs at once (`mesh_radio_interface.cc:333`), so that nodes which start at
different times fall into step, are answered in the same moment and take an id when the
same second is over, before either has heard the announcement of the other. `mesh_three`,
without any fault, contains this: two nodes come to share an id, ignore each other's
announcement because it is their own id, and may be told of it by a third. What
the run shows is that nothing else leads there (`TakenUnheard`), that a node has its own id
in its list only if another one runs with it (`NeighborsAreOthers`), and that nodes with
different ids still come to know one another (`KnowOneAnother`). `TakenUnheard` and
`KnowOneAnother` are for a quiet channel: with lost packets, late timers or equal random ids
a node may take an id without any announcement under way. `TakenUnheard` also needs
`max_discovery_messages` of at least 2.

## 5. Proofs

TLAPS proves what follows for all values of the constants that satisfy the named
assumptions (sizes are positive, a payload is smaller than the largest size field, two
nodes in the negotiation, at least one line on the screen) and the hypotheses given.

### Poll link, under every fault (`PollLinkProofs`)

- `TypeCorrect`: `Spec => []TypeOK`. Inductive as it stands; one lemma per action.
- `FrameEnds`: `Spec => []FrameEndsKept`. Not inductive, because the frame written was in
  a packet, and before it in a buffer. The strengthening `FramesTracked` follows every
  byte: queued frames end with their last byte and have none before it
  (`BuffersTracked`), packets in the FIFOs and the response carry the end of a frame
  exactly if their size fits the payload (`RxTracked`, `ReplyTracked`), and what is
  being reassembled holds no end yet (`ReassemblyTracked`).
- `BufferBounded`: `Spec => []BufferBound`. Inductive given types: only the tunnel thread
  adds a frame (`OthersNotLonger`, `EraseNotLonger`).
- `InFlightFrame`: `Spec => []InFlightHasFrame`. Inductive given types.
- `Alternates`: `Spec => []OneInFlight`. The strengthening `Alternate` adds
  that a sleeping primary has an empty FIFO, and that if its radio is in receive mode
  nothing is on its way: without it, an answer could cross the next request.

### Poll link, within a session

Hypotheses: no late answers, no restarts of the secondary. They are needed: with late
answers every later answer is taken for another (`link_stale_answer`), and a secondary
that restarted takes any first id. Losses of packets and of acknowledgements, resets and
restarts of the primary are all allowed.

- `IdsStayInStep` (`PollLinkSessionProofs`): `Spec => []IdsInStep`. `IdsInStep` speaks of
  the time between exchanges only. The invariant `Session` says for each place an
  exchange can be in (request on its way, being handled, response on its way) which of
  the four ids have advanced: at most one packet is on its way (`Alternate`), and it
  carries either the id that the receiver expects or the one it accepted last.
- `LinkImplementsTunnel` (`PollLinkTunnelProofs`): `Spec => ImplementsTunnel`. Initial
  states map to initial states, and each action to `Put`, `Get`, `Hear`, `Reopen` or a stutter.
  The invariant `FramesInOrder` places what a side has written, what it
  reassembles, the packet on its way and the buffer of the other side on one line of
  frames that never runs backwards; a chunk that was accepted but not acknowledged is
  in the buffer still, which is why the ids (`Session`) are needed.
- `DownlinkWholeInSession`, `DownlinkLeavesNothingOut` (`PollLinkDownlinkProofs`): while the
  connection is not opened a second time, `DownlinkComplete`. The invariant `OneSession
  /\ DownlinkWhole` says that what the primary has written and reassembles is all that
  the secondary has erased from its buffer, plus the chunk in flight if it arrived. The second theorem
  replaces the condition on the behaviour by one on the settings: a poll interval of 0,
  which never backs off to a reset, and no restarts. Under resets `DownlinkComplete` does
  not hold (section 4).

### Negotiation (`RoleNegotiationProofs`)

- `NoCommonRole`: `Spec => [](TypeOK /\ RolesDiffer)`. The
  strengthening `RolesInv` says of the packets what `RolesDiffer` says of the
  roles: only nodes that listen have packets (`HearsLate`), at most one of the two has
  heard a discovery (`OneDiscovers`) or an answer (`OneAnswers`), and an answer is never
  behind a discovery (`AnswerFirst`).
- `NegotiationTypes`: `Spec => []TypeOK`, a part of the same.

### Discovery in the mesh (`MeshRadioInterfaceProofs`)

- `DiscoveryTypes`: `Spec => []TypeOK`, for every set of faults. `TypeOK` bounds the packets
  of all nodes together; `QueueTypes` says the same of each queue, for any set
  of packets that contains the ids of the actions, so that the stack, whose queues hold
  data too, uses the same lemmas. That a smallest free id exists rests on `LeastElement`: a set of
  naturals has a least element.
- `IdsTakenUnheard` and `NeighborsKnown`: `Spec => TakenUnheard` and `Spec => []KnowOneAnother`,
  if `Faults = {}` and `max_discovery_messages >= 2` (3 in the code; with 1 TLC finds the first
  violated). Without
  faults means that packets and timers are done within a second, that nodes which look for an
  id at the same time drew different random ids, that no process ends and that no FIFO
  overflows. The number of nodes, the moments at which they start and those at which they take
  an id are free: any number may settle in the same moment. The invariant `LearnInv` has two
  parts. While nobody runs, the lowest random id wins (`LowerWins`): whoever has a higher one
  is told so at least once a second and cannot count beyond two messages. Once somebody
  runs, a node that looks for an id is answered before it has counted too far (`NoneAlone`),
  and it knows every node that runs, or its question, an answer or an announcement is
  still under way (`HearsAll`); of nodes that run with different ids the same holds with
  announcements only (`AllLearn`). When the wait of a node is over, question and answers are
  dealt with: it takes an id that another one has only if the announcement is still to come. That a
  radio hears nothing until it has sent once costs an invariant of its own (`BeforeListening`): its
  first message is still before it.
- `OthersAreNeighbors`: `Spec => []NeighborsAreOthers`, with lost, late and doubly drawn ids, if
  no process ends (`restart` is not among the faults: ids of those that ended stay in the lists)
  and `Cardinality(Node) <= kNeighborsInPacket + 1` (30 nodes): beyond it a response says that
  it has more neighbors than it carries, and its reader may take any id from the memory behind
  it. `OthersInv` says of each packet what the property says of the lists: who sends it runs,
  and what it names are ids of nodes other than the one that holds or reads it
  (`HonestlySent`, `HonestlyHeard`). It holds because a node does not hear itself and
  responses go to random ids, which no node has that runs.

### Mesh stack (`MeshStackProofs`)

No theorem restricts the faults, the sizes of frames and payloads or who is there at the
start, and only `AcknowledgedArrived` bounds the number of ids.

- `DownstreamBounded`: `StackSpec => []DownstreamBound`. The thread decides by a size that
  may be stale whether it may read a frame, and appends later. The strengthening
  `BufferInv` says where that leaves it: a thread that is to read finds at most
  `kMaxBufferedFrames` frames, or one more during a `Run` that has still a frame to pop
  (`RunHasFrame`) and keeps the lock until then (`RoomToRead`).
- `StackTypesKept` and `MessagesEndWithFrames`: `StackSpec => []StackTypeOK` and
  `StackSpec => []EndsKept`. One invariant, `StackTypes`, serves both. It is stated for
  a set of chunks and a set of messages (`Typed(C, M)`): every layer of every node holds
  chunks of `C`, and messages of `M` come out. The actions keep it for any `C` and `M`
  into which frames can be cut and of which messages can be made (`Cuttable`,
  `Carriable`). With all well-formed chunks it gives the types; with the chunks that tell
  the truth about the ends of frames (`ReadChunk`), it gives `EndsKept`.
- `ChunksInOrder`: `StackSpec => []InOrder` if `MaxNumberOfPackets = 1`, the
  constant of the code. What is on the way from one node to another stands in a
  line: messages written, messages to write, chunks collected, the FIFO; at the
  sender the queue to the air, the pending packet, the queue of `AckLayer`, the frames
  that wait. `OrderInv` says that both parts of the line are in order and
  that every byte a node has got is followed by all that any other node has still to send
  of the same origin. With two packets pending a repetition of the first comes after the
  second, and `InOrder` does not hold (`AdmitsOneMore` is its mutant).

Two theorems follow the bytes from node to node. A place is the set of its packets or
bytes: `StackMoves` says, once for all actions, what a step may add to each queue
(`Moves`) and `StackIdsMove` what it may change in the ids and the neighbor lists
(`IdsMove`). From these two follow `RadioInv` (a node that looks for an id has a random
one, a node that runs has taken one, announcements name running nodes) and `Origins` (a
node holds its own bytes to send and receives only bytes of others), and the following.

- `EveryByteArrives`: `StackSpec => []Delivered`. `NothingLost` says where a byte that
  was read is: still to send at its node, or in the FIFO of another node, or kept there
  (being collected, to be written, or written). A byte gets lost when it is sent to nobody
  or collected by a node that ends. In a situation without losses neither happens: a node
  that reads frames runs and knows running nodes only (`ReadersServed`), so that who gets
  data runs (`StrayFree`), listens (`RadioOn`) and keeps it (`CollectedKept`), and each step
  moves a byte onward (`Onward`). What is pending does not count: the first copy of a packet arrives, so
  that it does no harm to take its acknowledgement for another or to give it up.
- `AcknowledgedArrived`: `StackSpec => AckedArrived`, for every fault, any number of pending
  packets and any `Value`, under `RoomForAll`: a response of the discovery has room for all ids
  that are ever known (29 in the code, or all ids there are in the instance that TLC checks). The
  packet that stops being pending has the contents of the acknowledgement, which is what the
  code compares; what has to be followed is the packet that was acknowledged, which may be an
  equal one. Who sends an acknowledgement has collected its bytes and keeps them, and on its
  way it is read by another node only (`AcksTrue`). A node keeps what it collected because it
  runs: data is sent to ids that are taken (`DataToTaken`), since neighbors are (`FewKnown`).
  Without room the reader of a response takes any id for a neighbor, also the random one of a
  node that still looks: that node can collect a chunk, acknowledge
  it and end for lack of an id. TLC confirms the violation from a state with such a neighbor.

The messages of `EndsKept` and `InOrder` are put together by `FlattenSeq`, a fold, about
which the library has no theorems that the provers could use. `MeshStackProofs` proves
what is needed (`FlattensFlattenSeq`, `FlattenPlaces`: where each byte of the result comes from) with `LeastElement`: the recursive function is shown to
exist, and to yield what is claimed, by looking at the least number for which it would not.

- `FramesComeOutWhole` is about the operators alone: a frame of any length, cut into payloads
  of any size (`Fragments`), comes out of `Message` as it was when its fragments are collected
  in order, and its last fragment is the only final one. The places from which `FlattenSeq`
  takes its bytes ascend (`FlattenPlaces`) and leave none out (`FragmentsCover`), and so are
  the places of the frame (`IncreasingOntoIdentity`). TLC meets only frames of a few fragments.

### Logger (`LoggerProofs`)

- `LoggerTypes` and `NothingForgotten`: `Spec => []TypeOK` and `Spec => []StaleFlagged`.
  The screen is in order because the queue is and its messages are not newer than the
  count of changes (`QueueInOrder`); after an output the screen is up to date because
  cutting the queue to its last lines a second time changes nothing (`LastLinesAgain`).

### Only model-checked

Liveness (`Drained`, `LinkRecovers`, `HeardPairs`, `AllRun`, `StackDrained`,
`ScreenCatchesUp`, `ExitEnds`), which the provers do not treat. Every safety property
that a passing run checks is proved.

## 6. Limits of the models

- Bits and bytes: a packet of 32 bytes is a record, the checksum of mesh packets
  is left out (a packet it rejects is a lost one; the flush that goes with it loses more).
- A failing `read()` or `write()` of the tunnel is only logged by the code; the
  model has no such failure. Frames of 0 bytes do not occur.
- The start of the tunnel thread in the initialiser list of `RadioInterface`, before the
  mutex and the buffer it uses are constructed, is a race that is not modelled.
- `MeshRadioInterface::Reset` is never called, `TimingTask` never reached.
- A poll interval of 0 never backs off to the interval that asks for a reset
  (`primary_radio_interface.cc:212-215`), and `ValidateID` takes any first id, so
  that a secondary which restarted may continue a frame of the session before
  (`radio_interface.cc:125`). The model has both behaviours; no run is about them, except
  that `ImplementsTunnel` is checked without restarts of the secondary for the second reason.
- A response of the mesh that counts more neighbors than it carries
  (`mesh_radio_interface.cc:347-360`) is modelled, but the runs have too few ids for it.
- FIFO overflow in the mesh without the fault `loss` (section 2); mesh data with other than
  equal bytes is covered by the proofs only, which hold for every `Value`.
- The send queues of the mesh have no limit in the code; the model holds a layer up when
  `MaxQueued` packets wait.
- In `MeshStack` no process that runs is stopped from outside, and a node that ended for
  lack of an id is not started again; restarts are in `mesh_restarts`, without data.
- The packet number of data packets (section 2), which nothing compares.
- `error_times_` of the logger, which is pruned only when a wait times out.

## 7. Plan

In this order; the first ten are done.

1. Poll link: `RadioInterface`, both ends, `PollLink`, `FrameTunnel`.
2. Proofs of its type invariant and safety invariants.
3. `RoleNegotiation` and its proof.
4. `MeshRadioInterface`: discovery.
5. The data plane of the mesh: `MeshDataPackets`, `AckLayer`, `MessageFragmentationLayer`,
   `TunnelInterface`, composed with discovery in `MeshStack`; proof of `DownstreamBound`.
6. `Logger` and its proofs.
7. Proofs: `IdsInStep` by an invariant on the four ids and the packets on their way;
   `ImplementsTunnel` from it; `DownlinkComplete`.
8. Proofs: type correctness of the mesh and of its stack; `EndsKept` and `InOrder`.
9. Proofs: `TakenUnheard` and `KnowOneAnother` without faults, `NeighborsAreOthers` without restarts.
10. Proofs: `Delivered` and `AckedArrived`.
11. Construction of `RadioInterface`: the thread against the members it uses.
