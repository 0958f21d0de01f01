----------------------------- MODULE RxDispatch -----------------------------
(***************************************************************************)
(* dpdkx::device::rx_job::process (dpdkx/device.cpp) and the part of       *)
(* device::process_rx_packets that decides what becomes of a buffer.       *)
(*                                                                         *)
(* One call polls a burst of mbufs into buffers_[0..n), splits it into     *)
(* runs of consecutive packets for the same rx_channel, hands every run    *)
(* over with one rx_channel::enqueue call, and moves everything else to    *)
(* the region that starts at buffers_[n], which process_rx_packets answers *)
(* (ARP request, ICMP echo) or gives back for recycling.  A step of the    *)
(* module is one iteration of one of the two loops, so that the loop       *)
(* invariants of the function are invariants of the specification.         *)
(*                                                                         *)
(* Positions count from 1: "i" packets of rx are done, the pending run is  *)
(* rx[i - ready + 1 .. i], and post lists the positions of rx that were    *)
(* copied to the region behind the burst.                                  *)
(***************************************************************************)
EXTENDS Integers, Sequences, FiniteSets

CONSTANTS
  Mbufs,      \* the buffers of rx_mbuf_pool_
  Ports,      \* UDP destination ports
  Channels,   \* rx_channel objects
  Null,       \* the null rx_channel pointer
  Refusing,   \* the channels whose enqueue may return a number other than 0
  Burst,      \* burst_size_
  ArraySize,  \* the size of buffers_ (2 * max_pkt_burst)
  Hint,       \* reload_checkpoint_
  Start,      \* the initial checkpoint_ (1001)
  Wrap,       \* the number of values of checkpoint_ (2^16)
  SvcCap      \* room in the ring of service_tx

\* burst_size_ is bounded by the whole array although the array has to hold
\* the burst twice: the code relies on the configuration for 2 * Burst.
ASSUME BurstAssumption == Burst \in Nat \ {0} /\ ArraySize \in Nat /\ 2 * Burst <= ArraySize
\* Hint > 0 rules out that find_rx_channel reloads sinks_ within a burst.
ASSUME CheckpointAssumption == Hint \in Nat \ {0} /\ Wrap \in Nat \ {0} /\ Start \in 0..(Wrap - 1) /\ SvcCap \in Nat
ASSUME ChannelAssumption == Null \notin Channels /\ Refusing \subseteq Channels
ASSUME PortAssumption == Ports \cap {"broken", "short", "answerable", "other"} = {}

VARIABLES
  pc,          \* "poll", "loop" or "post"
  sinks,       \* the snapshot sinks_: the channel of each port
  checkpoint,  \* checkpoint_
  rx,          \* buffers_[0 .. n)
  frames,      \* what each of them holds
  i,           \* packets of the burst done
  ready,       \* length of the pending run
  channel,     \* its channel
  post,        \* positions copied to buffers_[n ..)
  k,           \* how many of them process_rx_packets has handled
  kept,        \* positions compacted to the front for recycling
  owner,       \* who has to free each buffer; "lost": nobody will
  dlv          \* the channels each packet of this burst was handed to

vars == <<pc, sinks, checkpoint, rx, frames, i, ready, channel, post, k, kept, owner, dlv>>

\* What the two switch statements tell apart: no ethertype, a UDP packet that
\* is shorter than its headers say, a UDP packet (its port), an ARP request
\* for this device or an ICMP echo request, and any other frame.
Frames == {"broken", "short", "answerable", "other"} \cup Ports
Owners == {"pool", "job", "channel", "service", "lost"}

Owned(o) == {m \in Mbufs : owner[m] = o}
Give(own, S, to) == [m \in Mbufs |-> IF m \in S THEN to ELSE own[m]]

Init ==
  /\ pc = "poll"
  /\ sinks = [p \in Ports |-> Null]
  /\ checkpoint = Start
  /\ rx = <<>> /\ frames = <<>> /\ i = 0
  /\ ready = 0 /\ channel = Null
  /\ post = <<>> /\ k = 0 /\ kept = <<>>
  /\ owner = [m \in Mbufs |-> "pool"]
  /\ dlv = [j \in 1..Burst |-> <<>>]

-----------------------------------------------------------------------------
\* try_reload_sinks: any set of attached channels may have been published.
Reloaded == checkpoint >= Hint
TryReloadSinks == sinks' \in IF Reloaded THEN [Ports -> Channels \cup {Null}] ELSE {sinks}
CheckpointNow == IF Reloaded THEN 0 ELSE checkpoint

\* rte_eth_rx_burst returned no packet.
Idle ==
  /\ pc = "poll"
  /\ TryReloadSinks
  /\ checkpoint' = (CheckpointNow + 2 * Burst + 1) % Wrap
  /\ UNCHANGED <<pc, rx, frames, i, ready, channel, post, k, kept, owner, dlv>>

\* rte_eth_rx_burst returned n packets in n buffers of the pool.
Poll ==
  /\ pc = "poll"
  /\ TryReloadSinks
  /\ checkpoint' = CheckpointNow
  /\ \E n \in 1..Burst :
       /\ rx' \in {s \in [1..n -> Owned("pool")] : \A a, b \in 1..n : s[a] = s[b] => a = b}
       /\ frames' \in [1..n -> Frames]
  /\ owner' = Give(owner, {rx'[j] : j \in DOMAIN rx'}, "job")
  /\ dlv' = [j \in 1..Burst |-> <<>>]
  /\ i' = 0 /\ ready' = 0 /\ channel' = Null
  /\ post' = <<>> /\ k' = 0 /\ kept' = <<>>
  /\ pc' = "loop"

-----------------------------------------------------------------------------
\* channel->enqueue for the pending run: it takes all but the first r buffers
\* and returns r (rx_channel::enqueue, external to this module).
Answers == IF channel \in Refusing THEN 0..ready ELSE {0}
Refused(r) == {rx[j] : j \in (i - ready + 1)..(i - ready + r)}
\* Mutant: the run is counted one packet too long.
TakenTooMany(r) == {rx[j] : j \in (i - ready + r + 1)..(IF i < Len(rx) THEN i + 1 ELSE i)}
Taken(r) == {rx[j] : j \in (i - ready + r + 1)..i}
HandedOver(r, to) == Give(Give(owner, Taken(r), "channel"), Refused(r), to)
\* Mutant: the run starts one packet too early.
DeliveredTooEarly == [j \in 1..Burst |-> IF j \in (i - ready)..i
                                         THEN Append(dlv[j], channel) ELSE dlv[j]]
Delivered == [j \in 1..Burst |-> IF j \in (i - ready + 1)..i
                                 THEN Append(dlv[j], channel) ELSE dlv[j]]

\* find_rx_channel for the next packet.
Route(f) == IF f \in Ports THEN sinks[f] ELSE Null
\* Mutant: the port of the packet before.
ChOfPrevious == Route(frames[IF i = 0 THEN 1 ELSE i])
Ch == Route(frames[i + 1])

\* A packet without ethertype, or a truncated UDP packet, is freed; the run
\* before it is handed over, and what enqueue returns is not looked at.
Discard ==
  /\ pc = "loop" /\ i < Len(rx)
  /\ frames[i + 1] \in {"broken", "short"}
  /\ \E r \in Answers : owner' = Give(HandedOver(r, "lost"), {rx[i + 1]}, "pool")
  /\ dlv' = Delivered
  /\ i' = i + 1 /\ ready' = 0 /\ channel' = Null
  /\ UNCHANGED <<pc, sinks, checkpoint, rx, frames, post, k, kept>>

\* Where the region behind the burst starts: buffers_[n].
Region == Len(rx)

\* buffers_[n + post++] = buffers_[i]
Behind == Append(post, i + 1)

\* A packet nobody is attached for goes behind the burst; the run before it is
\* handed over, and what enqueue returns is not looked at.
Postpone ==
  /\ pc = "loop" /\ i < Len(rx)
  /\ frames[i + 1] \notin {"broken", "short"} /\ Ch = Null
  /\ post' = Behind
  /\ \E r \in Answers : owner' = HandedOver(r, "lost")
  /\ dlv' = Delivered
  /\ i' = i + 1 /\ ready' = 0 /\ channel' = Null
  /\ UNCHANGED <<pc, sinks, checkpoint, rx, frames, k, kept>>

\* A packet for the channel of the pending run.
Extend ==
  /\ pc = "loop" /\ i < Len(rx)
  /\ Ch # Null /\ Ch = channel
  /\ i' = i + 1 /\ ready' = ready + 1
  /\ UNCHANGED <<pc, sinks, checkpoint, rx, frames, channel, post, k, kept, owner, dlv>>

\* A packet for another channel: the run before it is handed over and what the
\* channel refuses is freed.
Switch ==
  /\ pc = "loop" /\ i < Len(rx)
  /\ Ch # Null /\ Ch # channel
  /\ \E r \in Answers : owner' = HandedOver(r, "pool")
  /\ dlv' = Delivered
  /\ i' = i + 1 /\ ready' = 1 /\ channel' = Ch
  /\ UNCHANGED <<pc, sinks, checkpoint, rx, frames, post, k, kept>>

\* The end of the loop: the last run is handed over, and what enqueue returns
\* is not looked at.
Finish ==
  /\ pc = "loop" /\ i = Len(rx)
  /\ \E r \in Answers : owner' = HandedOver(r, "lost")
  /\ dlv' = Delivered
  /\ ready' = 0
  /\ pc' = "post"
  /\ UNCHANGED <<sinks, checkpoint, rx, frames, i, channel, post, k, kept>>

-----------------------------------------------------------------------------
\* process_rx_packets: an answered packet leaves through the service ring...
Answer ==
  /\ pc = "post" /\ k < Len(post)
  /\ frames[post[k + 1]] = "answerable"
  /\ Cardinality(Owned("service")) < SvcCap
  /\ owner' = Give(owner, {rx[post[k + 1]]}, "service")
  /\ k' = k + 1
  /\ UNCHANGED <<pc, sinks, checkpoint, rx, frames, i, ready, channel, post, kept, dlv>>

\* buffers[used++] = buffers[i]
\* Mutant: "used" is not increased.
CompactNothing == kept
Compact == Append(kept, post[k + 1])

\* ... and every other one, or one the ring has no room for, is kept.
Keep ==
  /\ pc = "post" /\ k < Len(post)
  /\ frames[post[k + 1]] = "answerable" => Cardinality(Owned("service")) >= SvcCap
  /\ kept' = Compact
  /\ k' = k + 1
  /\ UNCHANGED <<pc, sinks, checkpoint, rx, frames, i, ready, channel, post, owner, dlv>>

\* The kept packets are freed and process() returns; its locals are cleared.
Recycle ==
  /\ pc = "post" /\ k = Len(post)
  /\ owner' = Give(owner, {rx[kept[j]] : j \in 1..Len(kept)}, "pool")
  /\ checkpoint' = (checkpoint + 1 + IF Len(rx) = Len(post) /\ Len(post) # Burst
                                     THEN 2 * Burst ELSE 0) % Wrap
  /\ pc' = "poll"
  /\ rx' = <<>> /\ frames' = <<>> /\ i' = 0 /\ ready' = 0 /\ channel' = Null
  /\ post' = <<>> /\ k' = 0 /\ kept' = <<>>
  /\ dlv' = [j \in 1..Burst |-> <<>>]
  /\ UNCHANGED sinks

Step == Discard \/ Postpone \/ Extend \/ Switch \/ Finish \/ Answer \/ Keep \/ Recycle

\* A channel frees a packet it has consumed.
ChannelFree(m) ==
  /\ owner[m] = "channel"
  /\ owner' = [owner EXCEPT ![m] = "pool"]
  /\ UNCHANGED <<pc, sinks, checkpoint, rx, frames, i, ready, channel, post, k, kept, dlv>>

\* The tx job of the service ring sends an answer and the driver frees it.
ServiceSent(m) ==
  /\ owner[m] = "service"
  /\ owner' = [owner EXCEPT ![m] = "pool"]
  /\ UNCHANGED <<pc, sinks, checkpoint, rx, frames, i, ready, channel, post, k, kept, dlv>>

Next == Idle \/ Poll \/ Step \/ \E m \in Mbufs : ChannelFree(m) \/ ServiceSent(m)

Spec == Init /\ [][Next]_vars

-----------------------------------------------------------------------------
TypeOK ==
  /\ pc \in {"poll", "loop", "post"}
  /\ sinks \in [Ports -> Channels \cup {Null}]
  /\ checkpoint \in 0..(Wrap - 1)
  /\ rx \in Seq(Mbufs) /\ frames \in Seq(Frames)
  /\ Len(frames) = Len(rx) /\ Len(rx) <= Burst
  /\ i \in 0..Len(rx) /\ ready \in 0..i
  /\ channel \in Channels \cup {Null}
  /\ post \in Seq(1..Len(rx)) /\ k \in 0..Len(post) /\ kept \in Seq(1..Len(rx))
  /\ owner \in [Mbufs -> Owners]
  /\ dlv \in [1..Burst -> Seq(Channels)]

\* While process() handles a burst, every packet before the pending run has
\* been handed to the channel its port is attached to, to no other and only
\* once, or to none if there is no such channel; and no later packet has been
\* handed to anyone.  Runs are handed over front to back, so a channel also
\* sees its packets in the order of arrival.
DeliveredOnceInOrder ==
  pc # "poll" => \A j \in 1..Len(rx) :
    dlv[j] = IF j <= i - ready /\ Route(frames[j]) # Null
             THEN <<Route(frames[j])>> ELSE <<>>

\* Every buffer process() may still free or hand over is its own: the packets
\* of the pending run and those not looked at yet, the postponed packets that
\* process_rx_packets has not handled and the ones it kept.  A use after free
\* or a double free would break it.
HeldBuffersOwned ==
  /\ \A j \in (i - ready + 1)..Len(rx) : owner[rx[j]] = "job"
  /\ \A j \in (k + 1)..Len(post) : owner[rx[post[j]]] = "job"
  /\ \A j \in 1..Len(kept) : owner[rx[kept[j]]] = "job"

\* The region behind the burst holds each postponed packet once, and the
\* compaction of process_rx_packets neither repeats a packet nor keeps one
\* that it answered, so rte_pktmbuf_free_bulk frees no buffer twice.
RecycledOnce ==
  /\ \A a, b \in 1..Len(post) : a < b => post[a] < post[b]
  /\ \A a, b \in 1..Len(kept) : a < b => kept[a] < kept[b]
  /\ \A a \in 1..Len(kept), b \in (k + 1)..Len(post) : kept[a] < post[b]

\* The postponed packets fit behind the burst in buffers_, and overwrite none
\* of its packets.
PostponedFits == Len(rx) <= Region /\ Region + Len(post) <= ArraySize

\* process() only ever touches buffers and array elements it may: what it will
\* still free or hand over is its own, nothing is freed twice, and the region
\* behind the burst stays inside buffers_.
BuffersSafe == HeldBuffersOwned /\ RecycledOnce /\ PostponedFits

\* When process() returns it has handed on, freed or lost every buffer of the
\* burst: no path through the two loops forgets one.
NoLeak == pc = "poll" => Owned("job") = {}

\* What a channel gives back is recycled, as the documentation of
\* rx_channel::enqueue says ("The number of packet has to be recycled from
\* start of buffers").
RefusedIsRecycled == Owned("lost") = {}
=============================================================================
