------------------------------- MODULE TxPath -------------------------------
(***************************************************************************)
(* The transmit path.  dpdkx::sink chooses, at its first enque, a tx queue *)
(* of its own (device::tx_queue) or the shared ring (device::tx_ring); UDP *)
(* channels (UdpTx) always use the ring, and device::tx_job::process       *)
(* drains it into the NIC queue it serves.  Channels are constructed       *)
(* (UdpChannels) beside all this.  Ring and NIC are external:              *)
(* rte_ring_mp_enqueue_burst takes as many packets as fit,                 *)
(* rte_eth_tx_burst takes a prefix and the driver frees it later.          *)
(***************************************************************************)
EXTENDS UdpTx, FiniteSets

CONSTANTS
  Sinks,      \* threads with a sink
  Builders, FirstPorts, PortWrap,  \* of UdpChannels
  Loads,      \* what each thread may have to send or construct: a set of functions
  TxQueues,   \* the initial tx_queues_: NIC queues without a ring
  Burst       \* burst_size_ of the tx job

Threads == Sinks \cup UdpSenders \cup Builders

ASSUME TxPathAssumption ==
  /\ Loads \subseteq [Threads -> Nat] /\ Sinks \cap UdpSenders = {}
  /\ Builders \cap (Sinks \cup UdpSenders) = {}
  /\ TxQueues \in Nat /\ Burst \in Nat \ {0}
  /\ PortWrap \in Nat \ {0} /\ FirstPorts \subseteq 0..(PortWrap - 1)

VARIABLES
  txQueues,  \* tx_queues_
  read,      \* the value of tx_queues_ a sink read
  target,    \* NIC queue of a sink, or Ring
  batch,     \* buffers_[0 .. n_) of the tx job
  enqueued,  \* packets the ring accepted, in order
  nic,       \* packets each NIC queue accepted, in order
  done,      \* how many of the ring's queue the driver has freed
  raced,     \* two sinks were in tx_queue at the same time
  cut        \* the NIC took only part of a batch

VARIABLES first, next, at, res, made, named, channels, clashed, wrapped  \* of UdpChannels

Channels == INSTANCE UdpChannels

newVars == <<first, next, at, res, made, named, channels, clashed, wrapped>>
sinkVars == <<txQueues, read, target, raced>>
jobVars == <<batch, nic, done, cut>>
vars == <<udpVars, sinkVars, jobVars, enqueued, newVars>>

Ring == -1
RingQueue == TxQueues         \* tx_jobs_ have the queues from tx_queues_ on
NicQueues == 0..RingQueue

Init ==
  /\ UdpInit /\ Channels!Init
  /\ todo \in Loads
  /\ pc = [s \in Threads |-> IF s \in Sinks THEN "setup" ELSE "idle"]
  /\ txQueues = TxQueues /\ raced = FALSE
  /\ read = [s \in Sinks |-> 0] /\ target = [s \in Sinks |-> Ring]
  /\ batch = <<>> /\ enqueued = <<>> /\ done = 0 /\ cut = FALSE
  /\ nic = [q \in NicQueues |-> <<>>]

-----------------------------------------------------------------------------
\* res = --tx_queues_
\* Mutant: not decremented.
NotTaken(q) == q
StillFree(q) == q - 1
Chosen(q) == q - 1

\* setup_sink and device::tx_queue: tx_queues_ is read, and written in a later
\* step; per_core_queue_ always holds no_txq.
SetupRead(s) ==
  /\ pc[s] = "setup" /\ todo[s] > 0
  /\ raced' = (raced \/ \E t \in Sinks : pc[t] = "assign")
  /\ read' = [read EXCEPT ![s] = txQueues]
  /\ Goto(s, "assign")
  /\ UNCHANGED <<txQueues, target, todo, size, left, head, free, ring, jobVars, enqueued, newVars>>

SetupAssign(s) ==
  /\ pc[s] = "assign"
  /\ IF read[s] # 0
     THEN txQueues' = StillFree(read[s]) /\ target' = [target EXCEPT ![s] = Chosen(read[s])]
     ELSE UNCHANGED <<txQueues, target>>
  /\ Goto(s, "ready")
  /\ UNCHANGED <<read, raced, todo, size, left, head, free, ring, jobVars, enqueued, newVars>>

\* The next n packets of s, from a pool of its own.
Packets(s, n) == [x \in 1..n |-> [from |-> s, n |-> todo[s] - x, chain |-> <<>>]]

Fits(n) == Min({n, RingSize - Len(ring)})

\* sink::ring_enque (tx_ring::enque): the ring takes what fits; the caller
\* keeps the rest.
RingEnque(s, n) ==
  /\ pc[s] = "ready" /\ target[s] = Ring /\ n <= todo[s]
  /\ LET taken == Packets(s, Fits(n))
     IN /\ ring' = ring \o taken
        /\ enqueued' = enqueued \o taken
        /\ todo' = [todo EXCEPT ![s] = @ - Len(taken)]
  /\ UNCHANGED <<pc, size, left, head, free, sinkVars, jobVars, newVars>>

\* sink::tx_burst: the NIC takes a prefix; the caller keeps the rest.
TxBurst(s, n) ==
  /\ pc[s] = "ready" /\ target[s] # Ring /\ n <= todo[s]
  /\ nic' = [nic EXCEPT ![target[s]] = @ \o Packets(s, n)]
  /\ todo' = [todo EXCEPT ![s] = @ - n]
  /\ UNCHANGED <<pc, size, left, head, free, ring, sinkVars, batch, done, cut, enqueued, newVars>>

SinkNext(s) ==
  \/ SetupRead(s) \/ SetupAssign(s)
  \/ \E n \in 1..2 : RingEnque(s, n) \/ TxBurst(s, n)

\* A call of updtx_channel::send, whose datagram goes to the ring.
ChannelNext(s) ==
  /\ UdpNext(s)
  /\ enqueued' = enqueued \o SubSeq(ring', Len(ring) + 1, Len(ring'))
  /\ UNCHANGED <<sinkVars, jobVars, newVars>>

\* A thread constructs channels.
NewChannel ==
  /\ Channels!Next
  /\ UNCHANGED <<pc, size, left, head, free, ring, sinkVars, jobVars, enqueued>>

-----------------------------------------------------------------------------
\* What stays in buffers_[0 .. n_ - sent) after copy_backward: the FIRST
\* buffers of the burst, as the copy ends at the end of the burst.
\* Mutant: nothing.
RemainingNone(b, sent) == <<>>
Remaining(b, sent) == SubSeq(b, 1, Len(b) - sent)

\* burst_size_ - n_ packets are asked of the ring.
Dequeued == Min({Burst - Len(batch), Len(ring)})

\* n_ != 0 after the dequeue
\* Mutant: only a full batch is sent.
BatchFull(n) == n = Burst
BatchReady(n) == n # 0

\* tx_job::process: fill up the batch from the ring, hand it to the NIC.
Process ==
  LET full == batch \o SubSeq(ring, 1, Dequeued)
  IN /\ BatchReady(Len(full))
     /\ ring' = SubSeq(ring, Dequeued + 1, Len(ring))
     /\ \E sent \in 0..Len(full) :
          /\ nic' = [nic EXCEPT ![RingQueue] = @ \o SubSeq(full, 1, sent)]
          /\ batch' = Remaining(full, sent)
          /\ cut' = (cut \/ sent \notin {0, Len(full)})
     /\ UNCHANGED <<pc, todo, size, left, head, free, sinkVars, done, enqueued, newVars>>

\* process() returns idling.
Idle == ~BatchReady(Len(batch) + Dequeued) /\ UNCHANGED vars

\* The driver frees the next packet of the ring's queue.
TxComplete ==
  /\ done < Len(nic[RingQueue])
  /\ done' = done + 1 /\ free' = Freed(nic[RingQueue][done + 1].chain)
  /\ UNCHANGED <<pc, todo, size, left, head, ring, sinkVars, batch, nic, cut, enqueued, newVars>>

Next ==
  \/ Process \/ Idle \/ TxComplete \/ NewChannel
  \/ \E s \in Sinks : SinkNext(s)
  \/ \E s \in UdpSenders : ChannelNext(s)

\* A call of send once begun goes on, the tx job keeps running, and a NIC whose
\* link is up takes packets sooner or later.
Spec ==
  /\ Init /\ [][Next]_vars
  /\ \A s \in UdpSenders : WF_vars(UdpStep(s) /\ ChannelNext(s))
  /\ WF_vars(Process /\ nic' # nic)

-----------------------------------------------------------------------------
TypeOK ==
  /\ UdpTypeOK /\ Channels!TypeOK
  /\ todo \in [Threads -> Nat] /\ \A s \in Sinks : pc[s] \in {"setup", "assign", "ready"}
  /\ txQueues \in 0..TxQueues
  /\ read \in [Sinks -> 0..TxQueues] /\ target \in [Sinks -> {Ring} \cup NicQueues]
  /\ Len(batch) <= Burst /\ done \in 0..Len(nic[RingQueue])
  /\ raced \in BOOLEAN /\ cut \in BOOLEAN

\* As long as the NIC takes whole batches, what the tx job hands to it is what
\* the ring accepted, each packet once and in order, however the calls of
\* sinks and channels and the job's retries interleave; the rest is in the
\* batch and the ring.
RingToNicFifo == ~cut => enqueued = nic[RingQueue] \o batch \o ring

\* As long as sinks are set up one at a time, a NIC queue has one user: no two
\* sinks have the same queue, as rte_eth_tx_burst requires of its callers.
QueueHasOneSink ==
  ~raced => \A s, t \in Sinks : target[s] # Ring /\ target[s] = target[t] => s = t

\* Even if sinks are set up at the same time, without a lock around
\* tx_queues_, none of them gets the queue the tx job of the ring serves.
SinkAvoidsRingQueue == \A s \in Sinks : target[s] # RingQueue

\* No two users share a NIC queue, sinks or the tx job; two sinks may if they
\* were set up at the same time.
QueueHasOneUser == QueueHasOneSink /\ SinkAvoidsRingQueue

\* However the NIC cuts the batches, n_ stays the number of packets the ring
\* gave and the NIC did not take (which packets they are is another matter:
\* Remaining keeps the wrong ones).
BatchAccounting == Len(enqueued) = Len(nic[RingQueue]) + Len(batch) + Len(ring)

\* The tx job hands to the NIC as many packets as the ring accepted, and as long
\* as batches are taken whole exactly those, in order.
RingToNic == RingToNicFifo /\ BatchAccounting

\* As long as the NIC takes whole batches, each buffer of a UDP channel is in
\* its pool or in exactly one datagram: no path through send, the ring, the
\* tx job or the driver loses a buffer or frees one twice.
BuffersAccounted ==
  ~cut => \A p \in DOMAIN Pools :
    LET inNic == SubSeq(nic[RingQueue], done + 1, Len(nic[RingQueue]))
    IN free[p] + MapThenSumSet(LAMBDA s : Uses(head[s])[p], UdpSenders)
         + Queued(ring \o batch \o inNic, p) = Pools[p]

\* The datagrams of updtx_channel::send are sound: their lengths agree with
\* their buffers, no buffer is lost, shared or freed twice, and no two channels
\* send from one port.
DatagramsSound == LengthsAgree /\ BuffersAccounted /\ Channels!SrcPortsSound

\* Whatever the ring accepted is followed, sooner or later, by as many packets
\* handed to the NIC.
RingDrains ==
  \A k \in 1..Max({MapThenSumSet(LAMBDA s : l[s], Sinks \cup UdpSenders) : l \in Loads}) :
    Len(enqueued) >= k ~> Len(nic[RingQueue]) >= k

\* Calls of send return and the ring is drained, whatever runs out.
SendersProgress == SendReturns /\ RingDrains
=============================================================================
