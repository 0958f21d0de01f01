----------------------------- MODULE Throughput -----------------------------
(***************************************************************************)
(* The sender of the throughput test: tx_job::process of sockperf_cli with *)
(* its tx_timestamps.  The job fills a burst of B buffers, hands it to the *)
(* NIC, moves what the NIC did not take to the front of buffers_ and fills *)
(* up the rest.  A burst of which the NIC takes nothing is tried again,    *)
(* with the same timestamp slot.  Buffers come from a pool; the driver     *)
(* gives them back, with what they hold, only when rte_eth_tx_burst is     *)
(* called, and nothing else of process() calls it.  Packets has the        *)
(* contents.                                                               *)
(* Assertions are off, as in a release build.                              *)
(***************************************************************************)
EXTENDS Packets, FiniteSets

CONSTANTS
  Queue,        \* queue_id_
  N,            \* packets2send given to the constructor
  B,            \* burst_size_
  ExtraBursts,  \* extra_packets: bursts sent beyond N (5)
  Pools,        \* how many buffers of packet_pool_ this job may have
  TxRing        \* descriptors of the NIC queue (default_txportconf.ring_size)

ASSUME ThroughputAssumption ==
  /\ N \in Nat \ {0} /\ B \in Nat \ {0} /\ ExtraBursts \in Nat
  /\ Pools \subseteq Nat /\ \A n \in Pools : n >= B
  /\ TxRing \in Nat \ {0}
  /\ Queue \in Nat /\ (Queue + 1) * QueueShift <= WarmupMask

VARIABLES
  pc,      \* "alloc", "burst", "done", or "overrun" after a slot too many
  seqn,    \* the last sequence number used
  offset,  \* buffers kept from the last burst
  offloads, \* the checksums device.tx_offloads() leaves to the NIC
  buf,     \* buffers_: what each buffer holds
  slots,   \* timestamps_: the key of every slot handed out
  wire,    \* packets the NIC took: what it holds, and the slot stamped before it
  nic,     \* buffers the NIC queue still holds, sent or not
  pool,    \* buffers of the pool, never changed
  free     \* those in the pool now

vars == <<pc, seqn, offset, offloads, buf, slots, wire, nic, pool, free>>

Target == N + ExtraBursts * B
Capacity == N + B + ExtraBursts * B

Init ==
  /\ pc = "alloc" /\ seqn = 1 /\ offset = 0
  /\ offloads \in SUBSET {"ipv4", "udp"}
  /\ buf = [x \in 1..B |-> FakeBuffer]
  /\ slots = <<>> /\ wire = <<>> /\ nic = 0
  /\ pool \in Pools /\ free = pool

\* tx_timestamps::slot, and what follows it.
Slot(first, next) ==
  IF Len(slots) < Capacity
  THEN slots' = Append(slots, first) /\ pc' = next
  ELSE pc' = "overrun" /\ UNCHANGED slots

\* Mutant: one less than the first number of the burst.
KeyOneLess(s) == IF s > B THEN s - B - 1 ELSE 0
SlotKey(s) == s - B

More(s) == s < Target + 1

\* Mutant: a whole burst.
NeedsBurst == B
Needs == B - offset

\* What a buffer of the pool may hold: the template, a packet of the warm-up or
\* one that the NIC has sent.
Pooled ==
  {Template(offloads), PreparePacket(Template(offloads), WarmupSeqn(1), Flags(offloads))}
    \cup {wire[x].packet : x \in 1..(Len(wire) - nic)}

\* A buffer taken from the pool with what it held, and given the number s.
Prepared(old, s) == PreparePacket(Allocated(old), MakeSeqn(Queue, s), Flags(offloads))

\* Allocate and prepare the missing buffers, take a timestamp slot.  Buffers are
\* prepared one by one, so one old content stands for that of each.
AllocAndPrepare ==
  /\ pc = "alloc" /\ More(seqn)
  /\ free >= Needs /\ free' = free - Needs
  /\ \E old \in Pooled :
       buf' = [x \in 1..B |-> IF x <= offset THEN buf[x] ELSE Prepared(old, seqn + x - offset)]
  /\ seqn' = seqn + B - offset
  /\ Slot(SlotKey(seqn'), "burst")
  /\ UNCHANGED <<offset, offloads, wire, nic, pool>>

\* The bulk allocation fails and is tried again, without a call of the driver.
Starved == pc = "alloc" /\ More(seqn) /\ free < Needs
AllocFails == Starved /\ UNCHANGED vars

\* for ix in [0, sent): buffers_[sent - ix - 1] = buffers_[burst_size_ - ix - 1]
\* Mutant: nothing is moved.
ShiftNothing(b, sent) == b
Shift(b, sent) ==
  LET after[ix \in 0..sent] ==
        IF ix = 0 THEN b
        ELSE [after[ix - 1] EXCEPT ![sent - ix + 1] = after[ix - 1][B - ix + 1]]
  IN after[sent]

\* Mutant: one buffer too many is kept.
KeptOneMore(sent) == B - sent + 1
Kept(sent) == B - sent

\* rte_eth_tx_burst and what follows it.  The driver first frees some of the
\* buffers that have been sent, in their order, and then takes the first "sent"
\* of the burst as far as it has descriptors; they are stamped with the latest
\* slot.  Where it takes none the call is repeated.
TxBurst(freed, sent) ==
  /\ pc = "burst"
  /\ freed <= nic /\ nic - freed + sent <= TxRing
  /\ nic' = nic - freed + sent /\ free' = free + freed
  /\ wire' = wire \o [x \in 1..sent |-> [packet |-> buf[x], slot |-> Len(slots)]]
  /\ \/ sent = 0 /\ UNCHANGED <<pc, offset, buf, slots>>
     \/ sent = B /\ pc' = "alloc" /\ offset' = Kept(sent) /\ UNCHANGED <<buf, slots>>
     \/ /\ sent \in 1..(B - 1)
        /\ offset' = Kept(sent) /\ Slot(SlotKey(seqn), "alloc") /\ buf' = Shift(buf, sent)
  /\ UNCHANGED <<seqn, offloads, pool>>

Finish ==
  /\ pc = "alloc" /\ ~More(seqn)
  /\ pc' = "done"
  /\ UNCHANGED <<seqn, offset, offloads, buf, slots, wire, nic, pool, free>>

Terminated == pc \in {"done", "overrun"} /\ UNCHANGED vars

Next ==
  \/ AllocAndPrepare \/ AllocFails \/ Finish \/ Terminated
  \/ \E freed \in 0..nic, sent \in 0..B : TxBurst(freed, sent)

\* The lcore keeps running the job.  A NIC whose link is up sends what it holds,
\* so that a call of the driver that is repeated takes some packet in the end.
Spec ==
  /\ Init /\ [][Next]_vars
  /\ WF_vars(AllocAndPrepare \/ Finish)
  /\ WF_vars(\E freed \in 0..nic, sent \in 1..B : TxBurst(freed, sent))

-----------------------------------------------------------------------------
TypeOK ==
  /\ pc \in {"alloc", "burst", "done", "overrun"}
  /\ seqn \in Nat /\ offset \in 0..(B - 1) /\ offloads \subseteq {"ipv4", "udp"}
  /\ DOMAIN buf = 1..B /\ \A x \in 1..B : DOMAIN buf[x] = DOMAIN FakeBuffer
  /\ slots \in Seq(Nat) /\ \A x \in DOMAIN wire : wire[x].slot \in DOMAIN slots
  /\ pool \in Pools /\ nic \in 0..TxRing /\ free \in 0..pool

\* The number the receiver finds in a packet.
Number(b) == SplitSeqn(Seqn(b.payload)).seqn

Sent == {Number(wire[x].packet) : x \in DOMAIN wire}
Held == {Number(buf[x]) : x \in 1..(IF pc = "burst" THEN B ELSE offset)}

\* However the NIC cuts the bursts, every packet numbered so far has been sent
\* exactly once or is still in buffers_: moving the rest of a burst to the
\* front, element by element in place, loses and repeats none.
EachPacketOnce ==
  pc # "overrun" =>
    /\ Sent \cap Held = {} /\ Sent \cup Held = 2..seqn
    /\ Cardinality(Sent) = Len(wire)
    /\ Cardinality(Held) = IF pc = "burst" THEN B ELSE offset

\* The packets left in buffers_ when process() returns are never sent, but the
\* extra bursts make up for them: the test sends at least what was asked for.
EnoughPacketsSent == pc = "done" => Len(wire) >= N

\* The NIC is told which checksums to compute as it needs to know it: for that
\* of UDP it must also know that the packet is IPv4.
FlagsComplete(b) == "udp_cksum" \in b.flags => "ipv4" \in b.flags

\* Whatever a buffer of the pool held before, whichever checksums are left to
\* the NIC, a host accepts the packet prepare_packet makes of it: the lengths
\* agree and the checksums are those of this packet; and from the reply the
\* channel of the receiver reads a packet of this queue, none of the warm-up.
PacketsWellFormed ==
  \A x \in DOMAIN wire :
    /\ FlagsComplete(wire[x].packet) => Accepted(OnWire(wire[x].packet))
    /\ MessageOf(Reply(wire[x].packet.payload)) =
         [class |-> "test", packet |-> [queue |-> Queue, seqn |-> Number(wire[x].packet)]]

\* However the NIC cuts the bursts, process() loses and repeats no packet, sends
\* only packets the other host accepts, and when it returns it has sent what
\* was asked for.
PacketsAccounted == EachPacketOnce /\ EnoughPacketsSent /\ PacketsWellFormed

\* What std::ranges::upper_bound in statistics::process needs of the slots:
\* their keys are sorted, and every packet on the wire has one below its
\* number, so that assert(ts != begin(...)) holds.
StampsCoverWire ==
  /\ \A a, b \in DOMAIN slots : a < b => slots[a] <= slots[b]
  /\ \A x \in DOMAIN wire : slots[1] <= Number(wire[x].packet) - 1

\* The slot statistics::process takes for a packet: the one before the first
\* with a larger key.
LookUp(s) == Cardinality({a \in DOMAIN slots : slots[a] <= s - 1})

\* The NIC has taken every burst whole: one slot each, and all its packets.
Whole == Len(wire) = B * (Len(slots) - IF pc = "burst" THEN 1 ELSE 0)

\* As long as the NIC takes whole bursts, the round trip of a packet is
\* measured from the timestamp that was taken for its own burst.
RttUsesOwnStamp == Whole => \A x \in DOMAIN wire : LookUp(Number(wire[x].packet)) = wire[x].slot

\* As long as the NIC takes whole bursts, both assertions of
\* tx_timestamps::slot hold: the keys of its slots increase strictly and the
\* slots do not run out.
SlotAssertions ==
  Whole => pc # "overrun" /\ \A a \in 2..Len(slots) : slots[a - 1] < slots[a]

\* The timestamps are fit for the report: statistics::process finds one for
\* every packet, and as long as bursts are taken whole it is the right one.
StampsFound == StampsCoverWire /\ RttUsesOwnStamp /\ SlotAssertions

\* assert(std::distance(memory_.get(), next_) < capacity()) of
\* tx_timestamps::slot, however the NIC cuts the bursts.
SlotsSuffice == pc # "overrun"

\* process() has returned, or has used up its slots.
Returned == pc \in {"done", "overrun"}

\* However the NIC cuts the bursts and however late the driver frees what was
\* sent, process() returns where the pool holds a burst more than the NIC queue
\* has descriptors.  With a smaller pool it may also fail to allocate for ever:
\* the buffers it waits for come back only with the next burst.  Nothing else
\* keeps it from returning.
SenderReturns ==
  /\ pool >= TxRing + B => <>Returned
  /\ <>(Returned \/ Starved)
=============================================================================
