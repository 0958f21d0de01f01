------------------------------- MODULE UdpTx -------------------------------
(***************************************************************************)
(* dpdkx::updtx_channel::send: a datagram that fits one buffer of          *)
(* packet_pool_ is copied behind its headers; a longer one becomes a chain *)
(* of a buffer of header_pool_ with the headers and of buffers of          *)
(* packet_pool_ with the payload.  It goes to the tx ring, which module    *)
(* TxPath drains.  Several threads may use one channel: the pools and the  *)
(* ring are safe for that and packet_id_ is atomic.  A buffer is the pool  *)
(* it belongs to and its data_len; lengths are in units of the model.      *)
(***************************************************************************)
EXTENDS Integers, Sequences, SequencesExt, FiniteSetsExt

CONSTANTS
  UdpSenders, \* threads that call send
  Pools,      \* number of buffers of the pools "packet" and "header"
  Room,       \* packet_buf_size_
  Headers,    \* headers_size
  Udp,        \* sizeof(rte_udp_hdr)
  Payloads,   \* the payload sizes senders use
  LenWrap,    \* number of values of dgram_len (2^16)
  RingSize    \* capacity of the tx ring

\* The sender of a payload has to know that dgram_len holds its length.
ASSUME UdpTxAssumption ==
  /\ Pools \in [{"packet", "header"} -> Nat]
  /\ Headers \in Nat /\ Room \in Nat /\ Headers < Room /\ Udp \in 0..Headers
  /\ Payloads \subseteq Nat /\ \A p \in Payloads : Udp + p < LenWrap
  /\ RingSize \in Nat \ {0} /\ LenWrap \in Nat \ {0}

VARIABLES
  pc,     \* each thread; here "idle", "chain" or "enque"
  todo,   \* what each thread has still to send
  size,   \* payload_size
  left,   \* payload not copied yet
  head,   \* the buffers of the chain so far
  free,   \* buffers in each pool
  ring    \* packets in the tx ring

udpVars == <<pc, todo, size, left, head, free, ring>>

UdpInit ==
  /\ size = [s \in UdpSenders |-> 0]
  /\ left = [s \in UdpSenders |-> 0] /\ head = [s \in UdpSenders |-> <<>>]
  /\ free = Pools /\ ring = <<>>

Buffer(pool, len) == [pool |-> pool, len |-> len]

\* Buffers of each pool in a chain.
Uses(chain) == [p \in DOMAIN Pools |-> Cardinality({x \in DOMAIN chain : chain[x].pool = p})]

\* rte_pktmbuf_free: every buffer of the chain goes to its pool.
Freed(chain) == [p \in DOMAIN Pools |-> free[p] + Uses(chain)[p]]

\* rte_pktmbuf_alloc
Alloc(pool) == free[pool] > 0 /\ free' = [free EXCEPT ![pool] = @ - 1]

Goto(s, l) == pc' = [pc EXCEPT ![s] = l]

\* packet_buf_size_ < total_size
TooLong(p) == Room < Headers + p

\* A buffer for the headers, or one for the whole datagram.
Send(s, p) ==
  /\ pc[s] = "idle" /\ todo[s] > 0
  /\ todo' = [todo EXCEPT ![s] = @ - 1]
  /\ size' = [size EXCEPT ![s] = p] /\ left' = [left EXCEPT ![s] = p]
  /\ IF TooLong(p)
     THEN /\ Alloc("header") /\ Goto(s, "chain")
          /\ head' = [head EXCEPT ![s] = <<Buffer("header", Headers)>>]
     ELSE /\ Alloc("packet") /\ Goto(s, "enque")
          /\ head' = [head EXCEPT ![s] = <<Buffer("packet", Headers + p)>>]
  /\ UNCHANGED ring

SendFails(s, p) ==
  /\ pc[s] = "idle" /\ todo[s] > 0
  /\ free[IF TooLong(p) THEN "header" ELSE "packet"] = 0
  /\ todo' = [todo EXCEPT ![s] = @ - 1]
  /\ UNCHANGED <<pc, size, left, head, free, ring>>

\* last->data_len
\* Mutant: more than the buffer holds.
CopiedAll(n) == n
Copied(n) == IF n > Room THEN Room ELSE n

\* One round of the loop: another buffer, filled with payload.
AddSegment(s) ==
  /\ pc[s] = "chain" /\ Alloc("packet")
  /\ LET n == Copied(left[s])
     IN /\ head' = [head EXCEPT ![s] = Append(@, Buffer("packet", n))]
        /\ left' = [left EXCEPT ![s] = @ - n]
        /\ Goto(s, IF left[s] = n THEN "enque" ELSE "chain")
  /\ UNCHANGED <<size, todo, ring>>

\* Mutant: only the head is freed.
FreedHead(s) == [free EXCEPT ![head[s][1].pool] = @ + 1]
FreedChain(s) == Freed(head[s])

\* No buffer is left: the chain so far is freed and send returns false.
AddFails(s) ==
  /\ pc[s] = "chain" /\ free["packet"] = 0
  /\ free' = FreedChain(s) /\ head' = [head EXCEPT ![s] = <<>>]
  /\ Goto(s, "idle")
  /\ UNCHANGED <<size, left, todo, ring>>

Datagram(s) ==
  [from |-> s, n |-> todo[s], chain |-> head[s], size |-> size[s], segs |-> Len(head[s]),
   pktLen |-> Headers + size[s], dgramLen |-> (Udp + size[s]) % LenWrap]

\* The headers are written and the datagram is enqueued, or freed.
Enque(s) ==
  /\ pc[s] = "enque"
  /\ IF Len(ring) < RingSize
     THEN ring' = Append(ring, Datagram(s)) /\ UNCHANGED free
     ELSE free' = Freed(head[s]) /\ UNCHANGED ring
  /\ head' = [head EXCEPT ![s] = <<>>]
  /\ Goto(s, "idle")
  /\ UNCHANGED <<size, left, todo>>

UdpStep(s) == AddSegment(s) \/ AddFails(s) \/ Enque(s)
UdpNext(s) == (\E p \in Payloads : Send(s, p) \/ SendFails(s, p)) \/ UdpStep(s)

-----------------------------------------------------------------------------
UdpTypeOK ==
  /\ \A s \in UdpSenders : pc[s] \in {"idle", "chain", "enque"}
  /\ size \in [UdpSenders -> Payloads \cup {0}]
  /\ \A s \in UdpSenders : left[s] \in 0..size[s]
  /\ \A s \in UdpSenders : \A x \in DOMAIN head[s] : head[s][x].len \in 0..Room
  /\ free \in [DOMAIN Pools -> Nat] /\ Len(ring) <= RingSize

\* Buffers of a pool in the packets of a queue.
Queued(queue, p) == MapThenSumSet(LAMBDA x : Uses(queue[x].chain)[p], DOMAIN queue)

\* The lengths in a datagram agree with its buffers: nb_segs counts them,
\* pkt_len is the sum of their data_len, no buffer holds more than its room,
\* and the UDP header gives the whole payload.
LengthsAgree ==
  \A d \in {ring[x] : x \in {x \in DOMAIN ring : ring[x].from \in UdpSenders}} :
       /\ d.segs = Len(d.chain)
       /\ d.pktLen = FoldLeft(LAMBDA sum, b : sum + b.len, 0, d.chain)
       /\ \A y \in DOMAIN d.chain : d.chain[y].len <= Room
       /\ d.dgramLen = Udp + d.size

\* Every call of send returns, whatever the pools and the ring do: the loop
\* over the segments ends.
SendReturns == \A s \in UdpSenders : pc[s] # "idle" ~> pc[s] = "idle"
=============================================================================
