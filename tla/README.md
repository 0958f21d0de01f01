# dpdk-tools in TLA+

`dpdk-tools` is a small library over DPDK (`src/dpdkx`), the wire format of
sockperf (`src/sockperf`) and a sockperf client that measures latency and
throughput of a NIC (`src/sockperf_cli`).  Almost everything that is hard to
test in it lies between threads: lcores that poll queues, a main thread that
attaches channels, launches and stops jobs and destroys what they use, and a
NIC and a network that take part of what they are given.  The modules here
model that control; text and times are abstracted to what the properties tell
apart, and packets have contents where a property is about them (`Packets`).

`PROJECT.json` lists the components, the runs with their properties, a mutant
for each property, the source lines of every definition, the findings, the
hazards and the theorems.

To check a run: `tlc -workers 4 -config rx_dispatch.cfg MCRxDispatch`.
To check the proofs of a module: `tlapm RxDispatchProofs.tla` (`SinksProofs` takes
a quarter of an hour, the others less).

## The system and how its parts interact

| Part | Source | Module |
| --- | --- | --- |
| Receive job: bursts, channels, postponed packets | `dpdkx/device.cpp` `rx_job`, `process_rx_packets` | `RxDispatch` |
| Attach, detach, multicast groups, cached lookup | `dpdkx/device.cpp`, `dpdkx/mcast.cpp` | `Sinks` |
| Flow queues with a NIC rule each | `dpdkx/flow/*`, `dpdkx/jobs.cpp` | `FlowQueue` |
| Job runner and sentry | `dpdkx/jobs.cpp` | `Jobs` |
| Source ports | `device::next_src_port` | `SrcPort` (actions) |
| UDP channels: port and pools | `dpdkx/udptx_channel.cpp`, constructor | `UdpChannels` (instantiates `SrcPort`) |
| UDP datagrams as chains of buffers | `dpdkx/udptx_channel.cpp`, `send` | `UdpTx` |
| Sinks, tx ring, tx job | `dpdkx/sink.*`, `dpdkx/detail/tx_ring.*`, `device::tx_job` | `TxPath` (extends `UdpTx`, instantiates `UdpChannels`) |
| Address resolution | `device::ether_address`, `dpdkx/jobs.cpp` | `Arp`, which implements `Resolution` |
| Test packets: headers, checksums, numbers | `sockperf/*.hpp`, `dpdkx/mbuf.cpp`, `sockperf_cli/utils.cpp` | `Packets` (operators) |
| Throughput sender and its timestamps | `sockperf_cli/utils.cpp`, `stats.cpp` | `Throughput` (extends `Packets`) |
| Receiver and report | `sockperf_channel`, `statistics` | `Stats` |
| Warm-up and latency test | `sockperf_cli/utils.cpp` | `Latency` |
| Options of the EAL and of devices | `dpdkx/config/program_options.cpp` | `Options` (operators) |
| Lcores of a socket | `dpdkx/config/socket.cpp` | `SocketConfig` (operators) |
| Device: constructor, start, link, destructor | `dpdkx/device.cpp` | `DeviceSetup` (actions) |
| A whole test | `sockperf_cli/sockperf.cpp` `run()` | `Session` (extends `SocketConfig`, `Options`; instantiates `DeviceSetup`, `SrcPort`) |

`XProofs` has the theorems about module `X` (Proofs, below).

`run()` reads the options, finds the lcores of the NIC's socket, builds and starts a device,
creates a channel and attaches it, launches the receive job, resolves the
destination, warms up, runs the latency test and then the senders, waits for
the receiver, stops all jobs, joins them, reports, and destroys its objects.
The receive job hands runs of packets to the channel (`RxDispatch`), which
records them (`Stats`) or keeps the newest warm-up reply (`Latency`).  ARP and
ICMP packets go to `process_rx_packets`, which answers through the service ring
(`TxPath`) and fills the ARP table (`Arp`).

## Modules, their state and their actions

**RxDispatch.**  One call of `rx_job::process`, one loop iteration per step:
`Idle` and `Poll` (reload, `rte_eth_rx_burst`), `Discard`, `Postpone`, `Extend` and
`Switch` (the branches of the first loop), `Finish` (behind it), `Answer` and
`Keep` (`process_rx_packets`) and `Recycle`.  `i`, `ready` and `channel` are the
variables of the loop; `post` and `kept` are the region behind the burst before
and after its compaction, as positions in the burst; `owner` says where each
buffer is (pool, job, channel, service, lost), and `dlv` is a history
variable with the channels each packet was handed to.  A frame is its class:
broken, too short, a UDP port, answerable, other.

**Sinks.**  Callers of `attach_rx` (load, copy, compare-exchange, join, report)
and `detach_rx` (load and erase, exchange, leave, report) interleave with the
receiving core.  `published[h]` is the h-th vector of sinks; the erase of a
detach changes its vector in place, as in the code.  The reader has its own
snapshot, the cached index `last_` and the 16 bit `checkpoint_` (`Wrap` values),
which starts again at a reload.

**Jobs.**  Each lcore has a list of jobs, a position in the round, the cycle and
idle counters.  `process()` of a job may report busy, idling or done, or throw.
The flag `running` is read between batches of rounds only.

**UdpTx / TxPath.**  A datagram is a chain of buffers of two pools.  Each
allocation, the copy and the enqueue are steps; pools and ring run out.
`TxPath` adds sinks, which take a NIC queue of their own through the
unsynchronised `tx_queue()` or else the ring, and the tx job, whose NIC takes
any prefix of a batch.  `Remaining` keeps the packets `copy_backward` really
keeps.  Beside them threads construct channels (`UdpChannels`): each takes a
port from the counter of `SrcPort` and makes two pools named after it.

**SrcPort.**  The atomic increment and the exchange are steps of their own.  The
exchange compares the counter with the value taken from it one step before, so it
fails unless all ports were taken in between, and then it replaces the result by
the counter: a port handed out to the next caller as well.

**Arp.**  Resolvers poll the table, ask once, run the tx jobs and check the time;
a receiving core enters answers and questions into the table at any moment;
frames are lost.  `Resolution` says what this amounts to for a caller: hosts
announce themselves, a call succeeds with an announced address or fails, once.
`Arp` implements it with `known` the addresses whose record is filled and `answer`
the result of each call.

**FlowQueue.**  `attach_rx` on flow queues: scan, `reset`, destroying the old
rules, storing the channel, creating the rule, joining the group.  Every rule
operation may fail.  An lcore waits for an assignment, asks the channel for its
`enqueue_proxy` and then polls.  That of `rx_channel` throws, and no class of the
repository overrides it: of the channels in the repository none is ever served
by a flow queue, whose lcore returns instead.  `Proxies` are channels of a class
that has one, as a user of `dpdkx` would add; what they give back is lost
(`lost`), since `run_exclusive` ignores the result, and they may throw.

**Throughput, Stats, Latency.**  The sender with partial bursts, the in-place
move of the rest, the timestamp slots, and a driver that frees sent buffers only
when `rte_eth_tx_burst` is called; the receiver with its slots and both loops of
the report, over packets of the test and strays, where an access outside a vector
leads to the phase `"undefined"`; the warm-up and latency loops with the shared
newest reply, `TestRetry` being the iterations that send nothing.

**Packets.**  A buffer is a record of its headers, its payload as a sequence of
bytes, and the lengths and flags of its `rte_mbuf`; `Store` and `Load` are the
big-endian accesses of `sockperf.hpp`.  A checksum is the tuple of what it
covers, so that a stale one differs.  `Template` is what
`configure_sockperf_packet_pool` writes into every buffer, `PreparePacket` what a
sender does to one; in `Throughput` a buffer comes from the pool with whatever it
held last.  `OnWire` (a NIC with checksum offload), `Accepted` (a host) and `Reply`
(the server) are external.

**Options.**  The arguments made for the EAL, `get_nic_info`, and the
configuration of a device from the default, the section of its driver and the
section of the NIC; a value that does not parse is `Bad`.

**SocketConfig, DeviceSetup, Session.**  The insertion of lcores into groups; the
division of receive and transmit queues, the estimate of the clock, every step of
the constructor that may throw, `start`, `link_status` and `~device`; and `run()`
around them from the options on, with its early returns, exceptions, SIGINT,
launches, waits and the destruction of its locals in reverse order.  Options that
leave no service ring or no frequency make a receiving lcore divide by zero:
`JobKilled`.

## Runs

Each run is one question; its properties are those of its `.cfg`.  A property
that is a conjunction of named parts, such as `OutcomesHold` or `DeviceSound`,
stands below its parts in the module, each part with a comment of its own.

| Run | What it shows | States |
| --- | --- | --- |
| `rx_dispatch` | However a burst is composed and whatever channels give back: delivered once, in order, to the right channel; no use after hand-over, no double free, nothing forgotten, the postponed packets fit. | 95,000 |
| `rx_leak` (violation) | What `enqueue` returns is lost at two of its three calls. | |
| `sinks` | Attach and detach of three callers beside the reader: no lost update, exact group counts, a fresh cached lookup, an attached channel is seen in the end. | 377,000 |
| `jobs` | Erasing done jobs in a round skips and repeats none; a stop takes effect within `cycle_threshold` rounds; the sentry returns. | 564,000 |
| `throughput` | However the NIC cuts bursts and whichever checksums it computes, no packet is lost or repeated and each is accepted and counted by those who receive it, enough are sent, their timestamps are found; the sender returns if the pool is larger than the NIC queue by a burst, and otherwise only a failing allocation can keep it. | 56,000 |
| `throughput_slots` (violation) | Partial bursts use up the timestamp slots. | |
| `stats` | The records span the test, and missing and late packets are counted exactly under the conditions below; the loops stay within their vectors but for two cases. | 4,296,000 |
| `tx_path` | Buffers and lengths are accounted for through channel, ring, job and NIC; order is kept; a NIC queue has one user, a source port one channel. | 99,000 |
| `arp` | Only announced addresses are returned, each resolver asks once, the table implements `Resolution`; without trouble all resolve. | 284,000 |
| `flow_queue` | However rule operations fail, rules match the owner of a queue; an attached channel is served if its class has an `enqueue_proxy`, and costs its lcore otherwise; lcores return after a stop. | 216,000 |
| `latency` | No null message is read, each number is measured and reported once at most; on a calm network by its own reply; the test ends. | 386,000 |
| `session` | Options have their precedence and reach the device; cores, queues and rings are divided completely; every sender runs once; no job outlives its objects; the report follows the jobs; `run()` returns with nothing alive. | 110,000 |

The properties by run:

* `rx_dispatch`: `DeliveredOnceInOrder`, `BuffersSafe` (`HeldBuffersOwned`,
  `RecycledOnce`, `PostponedFits`), `NoLeak`.
* `sinks`: `OutcomesHold` (`AttachedIsPublished`, `LostAttachLeavesNoTrace`,
  `DetachedStaysOut`), `UseCountExact`, `CachedLookupIsFresh`, `AttachedIsSeen`.
* `jobs`: `RoundsAreSound` (`RoundHasJobs`, `RoundRunsEachJobOnce`,
  `DoneStaysDone`), `StopIsBounded`, `SentryReturns`.
* `throughput`: `PacketsAccounted` (`EachPacketOnce`, `EnoughPacketsSent`,
  `PacketsWellFormed`),
  `StampsFound` (`StampsCoverWire`, `RttUsesOwnStamp`, `SlotAssertions`),
  `SenderReturns`.
* `stats`: `ReportIsExact` (`RecordsSpanTest`, `PrevIsHighest`, `MissingIsExact`,
  `DefinedUnless`).
* `tx_path`: `RingToNic` (`RingToNicFifo`, `BatchAccounting`), `DatagramsSound`
  (`LengthsAgree`, `BuffersAccounted`, and `SrcPortsSound` of `UdpChannels`:
  `OwnPorts`, `PortsFromConfigured`), `QueueHasOneUser` (`QueueHasOneSink`,
  `SinkAvoidsRingQueue`), `SendersProgress` (`SendReturns`, `RingDrains`).
* `arp`: `ResolutionSound` (`ResolvedIsAnnounced`, `AskedOncePerResolver`),
  `ImplementsResolution`, `ReachableIsResolved`.
* `flow_queue`: `QueuesMatchChannels` (`FlowsMatchOwner`, `OneQueuePerChannel`,
  `AttachedHasFlow`, `OnlyRequestedDelivered`), `AttachedIsServed`.
* `latency`: `SamplesSound` (`NoNullMessage`, `SamplesIncrease`,
  `SamplesReported`), `CalmIsMeasured` (`SampleIsOwn`, `EveryPacketSampled`),
  `TestReturns`.
* `session`: `CoresDivided` (`LcoresGrouped`, `AssertionFails`, `EverySenderRuns`), `DeviceSound`
  (`ServicePoolFound`, `KilledByOptions`, `QueuesPartitioned`, `ServiceRings`,
  `StartedIsComplete`, `NothingLeftRunning`, `DownWaitedOut`, `ClockUsable`),
  `JobsOutlived`, `OptionsApplied` (`SectionsApplied`, `EalOptionsRead`,
  `RepliesReachChannel`), `RunEnds` (`ReportAfterJobs`, `RunReturns`).

Every passing run but `stats` also checks the type invariant `TypeOK` of its
module.

### Conditions in properties

Some properties hold only as long as something has not happened; a history
variable or a definition names it, and the run includes the cases where it does
happen, for the other properties.

* `RingToNicFifo`, `BuffersAccounted` hold until the NIC cuts a batch (`cut`):
  after that `device::tx_job` keeps the packets that were sent instead of the
  rest (`device.cpp:66`).  `BatchAccounting` and `RingDrains` have no condition.
* `QueueHasOneSink` holds unless two sinks are set up at once (`raced`):
  `tx_queues_` is decremented without synchronisation (`device.cpp:354-356`).
  `SinkAvoidsRingQueue` has no condition.
* `DetachedStaysOut` excepts a detach whose vector an attach had copied before
  the erase (`stale`): that attach publishes the entry again.  A detach that has
  erased its entry, lost the exchange and no longer finds the entry reports success
  too; what it does not find may be hidden behind another channel of the port that
  was detached and came back in that way, so that this case is stated for ports of
  which no other channel was detached (`device.cpp:461`).
* `PacketsWellFormed` leaves out a NIC that offers the UDP checksum and not that of
  IPv4: `configure_sockperf_packet_pool` sets `RTE_MBUF_F_TX_IPV4` together with the
  latter only (`FlagsComplete`).  `ThroughputAssumption` and `PacketAssumption`:
  queues below 128, since the top bit of a number means warm-up, and payloads whose
  lengths fit 16 bits.
* `PortsFromConfigured` holds until the counter of ports wraps around.
* `RepliesReachChannel` excepts a configured first port of 65535: the channel's
  port is computed as the next one plus 1, in 16 bits (`sockperf.cpp:163`).
* `AttachedIsSeen` is stated for reload hints that leave room for one step of the
  counter below 2^16 (`RoomForHint`).  The code does not check this: the counter
  grows by up to twice the burst and one, and passes over a larger hint for ever
  (`device.cpp:168`).
* `CachedLookupIsFresh` holds until the first detach: an erase in place under a
  running reader is a data race.
* `MissingIsExact` needs that nothing was duplicated, every packet had a slot
  and the first packet of the queue was not overtaken; otherwise `missing` may be
  decremented below 0 (`stats.cpp:121`).
* `DefinedUnless` names the cases in which `statistics::process` leaves its vectors:
  a packet of another test with the queue number `txq_n_`, which the comparison
  `stats.size() < queue` lets through (`stats.cpp:95`), and a queue of which nothing
  was recorded, whose `prev` is still `not_set` at `stats.cpp:136`.
* `SenderReturns` has two parts.  Where the pool holds a burst more than the NIC queue
  has descriptors (`TxRing`), the sender returns.  With a smaller pool, all free
  buffers may be in the NIC queue when an allocation fails; that branch
  (`utils.cpp:282-284`) does not call the driver, which is what would free them, and
  the loop may go on for ever.  The default is such a pool: 255 buffers for each
  sender (`sockperf.cpp:196`), against 1024 descriptors where the NIC has no preference
  (`device.cpp:255-256`).  The second part says that nothing else keeps the sender.
* `AttachedIsServed` distinguishes channels with and without an `enqueue_proxy`
  (`Proxies`).  All channels of the repository are of the second kind, so that
  `OnlyRequestedDelivered` too says something of channels a user adds.
* `TestReturns` and `RunEnds` take packets to be sent in the end, see Fairness.
* `SlotAssertions`, `RttUsesOwnStamp` hold while bursts are taken whole.
* `SampleIsOwn`, `EveryPacketSampled` hold on a calm network: the latency test
  reuses the numbers of the warm-up, so a late reply may be taken for another.
* `ServiceRings` needs `svc_tx_n > 0`: `service_tx` computes a remainder by it.
  `KilledByOptions` shows that only options lead there.
* `ReachableIsResolved` needs that nothing was lost and nobody timed out or
  stopped the jobs: a question is never sent again.

### Findings

* `rx_leak`: `rx_channel.hpp:25-28` documents the result of `enqueue` as the
  number of packets to recycle; `device.cpp:152` and `158` ignore it.
* `throughput_slots`: the assertion at `stats.cpp:27` fails when partial bursts
  take more than one slot each.
* The assertion at `socket.cpp:61-63` says that `socket_configuration` returns the
  sockets sorted by their number of lcores, the largest first.  Nothing sorts them:
  they come in the order of their lowest lcores, as `LcoresGrouped` states.  With
  lcore 1 on one socket and lcores 2 and 3 on another the assertion fails, and a
  release build goes on with the smaller socket first; `run()` uses that one where
  the socket of the NIC has no lcore (`sockperf.cpp:71-73`).  `AssertionFails`, a part
  of `CoresDivided` in run `session`, states that such a topology is among those of
  the run.

### Bounds

* Receive path: bursts of three packets, two ports, two channels.  Three packets
  are the least with a run, a change of channel and a postponed packet in one
  burst; the array has exactly twice the burst, so an overflow by one shows.
* `sinks`: three callers (a winner, a loser and a third that copies between a
  detach's erase and exchange), two of which share a port and a group and
  detach; `Wrap` is the least that satisfies `RoomForHint`, so that the counter
  reaches its last value, and does not wrap.  With one value less, and without
  the condition, TLC finds `AttachedIsSeen` violated.
* `jobs`: one lcore with three jobs (first, middle and last can be erased), one
  with a single job (`run_exclusive`); the thresholds 33, 2 and 2^8 become 3, 1
  and 4, so that every counter reaches its limit and the idle counter wraps.
* `throughput`: bursts of four, all prefixes; two extra bursts instead of five; a
  NIC queue of five descriptors, with a pool of nine buffers, the least that never
  starves, and one of five; buffers are used again in both; bytes of 4 bits and a header of four
  of them, so that every field has a width of its own.
* `stats`: two queues, three numbers with a gap in them, one duplicate; two
  strays, on either side of the comparison at `stats.cpp:95`.
* `tx_path`: payloads that fit exactly, exceed a buffer by one, and need three
  segments; pools and ring smaller than the load; three ports for four channels,
  counted from each of the three.
* `arp`: two resolvers of one address, one of another, one of a loopback
  address.
* `flow_queue`: two queues for three channels, one of which asks twice and
  has an `enqueue_proxy`; one packet may wait in each queue.
* `latency`: three warm-up packets instead of 16, three packets, an array of two
  latencies, one retry; at least three warm-up packets are needed so that the
  last warm-up reply does not have the first number of the test.
* `session`: up to four lcores on three sockets; every option alone in either
  section or both, at 0, at 1, at the limit, beyond it and not to be parsed, and
  rings, flow queues and service queues together.

Counters that the code leaves unbounded are bounded by named constants
(`MaxCalls`, `MaxQueued`, `MaxNet`, `MaxWarmup`, `MaxDuplicates`).  Symmetry is
used for buffers (`rx_dispatch`), in a run without liveness.

### Fairness

Weak fairness is assumed of each lcore that polls (it never blocks), of the main
thread within a call and, in `Arp`, of hosts that answer.  Of the NIC it is assumed
that it sends what it holds while its link is up, so that a driver that is given
packets again and again takes some in the end; that it frees buffers without being
called is not assumed.  Nobody is obliged to call `stop_jobs`, attach or
send.  `Latency` also has strong fairness of the warm-up's timeout: the loop
tests the clock again and again, and time passes.  Its `TestSend` is taken to
succeed in the end, against `TestRetry`: one packet is sent at a time, the pool
holds buffers the NIC queue does not, or else the loop starves like the sender
above.  In `Session` a receive job is
only required to return after a stop, while senders return by themselves, which
`SenderReturns` shows for pools that are large enough: `RunEnds` is about such pools.

## Proofs

Six modules hold theorems; each result is for every value of the constants that
satisfies the named assumptions, and states a property that a run also checks.

| Module | Theorem | Property |
| --- | --- | --- |
| `RxDispatchProofs` | `TypeCorrect`, `DeliveryCorrect`, `BuffersCorrect`, `NothingForgotten` | `TypeOK`, `DeliveredOnceInOrder`, `BuffersSafe`, `NoLeak` |
| `SinksProofs` | `Outcomes`, `UseCount` | `OutcomesHold`, `UseCountExact` |
| `JobsProofs` | `RoundsSound`, `StopBounded` | `RoundsAreSound`, `StopIsBounded` |
| `TxPathProofs` | `RingToNicHolds`, `QueueUsers` | `RingToNic`, `QueueHasOneUser` |
| `ArpProofs` | `ResolutionIsSound`, `ArpImplementsResolution` | `ResolutionSound`, `ImplementsResolution` |
| `FlowQueueProofs` | `QueuesMatch` | `QueuesMatchChannels` |

All follow the same course: an inductive invariant (`IInv`; in `SinksProofs`
`VectorInv` and `CountInv`), which TLC also finds invariant in the instance of the
run, one lemma or step per action, lemmas about the operators on sequences the
actions use, and a last temporal step.

### RxDispatchProofs

For every pool of buffers, set of ports and channels,
burst size, array size and reload hint that satisfy the assumptions,

* `TypeCorrect`, `DeliveryCorrect`, `BuffersCorrect` and `NothingForgotten`: the
  invariants `TypeOK`, `DeliveredOnceInOrder`, `BuffersSafe` and `NoLeak` of run
  `rx_dispatch` always hold;
* `NoneLostWhenNoneRefused`: if no channel gives packets back, no buffer is lost
  (the counterpart of the finding `rx_leak`; the channels of `sockperf_cli`
  return 0).

Assumptions: `BurstAssumption` (`2 * Burst <= ArraySize`: the code checks the
burst size against the whole array, so the configuration has to provide this),
`CheckpointAssumption`, `ChannelAssumption` and `PortAssumption`.

None of the properties is inductive alone.  That a run is handed over rightly
needs that all its packets are for the current channel (`RunRouted`); that the
second loop frees nothing twice needs that postponed packets have no channel and
come once each (`PostUnrouted`), that a burst holds no buffer twice (`Distinct`)
and what each loop may assume of the other's variables (`Phase`); that nothing is
forgotten needs that every buffer of the job is at a place it will still look at
(`Accounted`).  `IInv` is their conjunction.  TLC finds it invariant in the
instance of `rx_dispatch`.  There is one lemma per action, and lemmas about handing a run over
(`HandOver`) and about the ownership of buffers on which they rest.

### SinksProofs

`UseCount`: the count of a group is the cardinality of its users, so each step
adds or removes one element of a finite set; the assumption is that the callers are
fewer than the values of a count (`SinksAssumption`).

`Outcomes` needs more, because vectors are erased from in place while others hold
copies of them.  `VectorInv` says where the entry of each caller may be, among the
published vectors and the copies whose exchange may still succeed: nowhere before
it is attached, `Everywhere` while it is, `Nowhere` after a detach that met no copy.
A retry of a detach must find the caller's entry behind `find_sink`, which returns
the first one of the port (`FindsFirst`, from the well-ordering of the naturals);
hence `Ordered`: entries occur once, and all vectors agree whether x comes before t
as long as x has not been detached.  Where the entry was first of its port once, and
no other channel of the port was detached (`Alone`), it is first in every vector.

### JobsProofs

`RoundOf` says that the jobs in front of the iterator are those that ran, `OneList`
that no job is in a list twice or in two lists, which makes done jobs stay away;
`LateOf` counts the rounds since the stop against the position in the batch.

### TxPathProofs

The concatenation of NIC, batch and ring is what was enqueued; with the types of
the packets in each (a packet of a channel is a chain of buffers) the steps are
facts about sequences.  `SinkInv` says what a sink that has read `tx_queues_` and
not yet decremented it knows if nobody raced it.

### ArpProofs

`TableInv` (a record is unset or what the host announced) and `ResultInv` carry
both the invariant and the refinement: `known` is the set of filled records and
`answer` the results.  `AskedInv` bounds the questions for an address by the
resolvers that have passed the question (`Settled`).

### FlowQueueProofs

`CallInv` says what the call in progress has established at each of its places,
`QueueInv` that packets wait only in the queue of a channel that asked for them,
and that an lcore that polls has the channel of its queue; which channels have an
`enqueue_proxy` is arbitrary (`Proxies`).

### Only model-checked

Everything about liveness (fairness and `ENABLED` are beyond the prover), what
recursively defined functions compute (induction over data: `Throughput`, `Stats`,
`Options`, `SocketConfig`), the remaining properties of the modules above,
`Latency` and `Session`, and the two violations.

## Not modelled

* The contents of packets other than test packets: ARP, ICMP and IGMP packets and
  the datagrams of `updtx_channel` have a class, a length or an effect.
* Parsing and printing: `io.*`, `x3-parser.hpp`, logs, the text and the histograms
  of the report, error tables, the command line.
* The arithmetic of clocks: `mul_div`, `ns_timer` and the quotient that
  `estimate_clock_freq` computes are 64 and 128 bit arithmetic without state, of
  which an instance at a small width would say nothing about the width.  What a
  frequency leads to is in `DeviceSetup` and `Session`; times occur as "a timeout
  may have been reached".
* Sizes of pools in bytes: `run()` makes the packet pool with room for the payload
  (`sockperf.cpp:204`), buffers of which `Packets` takes to be large enough.
* Torn reads in a data race on the vector of sinks; the runs state what holds
  without them.
* Several devices in one process: the client uses one.
* Threads that are not lcores: `rte_lcore_id()` is then `LCORE_ID_ANY`, which
  `sink.cpp:7-8` passes on as an index outside `per_core_queue_` (`device.cpp:354`).
  All sinks of `TxPath` are used on lcores.
* `detail/tx_queue.*`, which nothing refers to, and `detach_rx(ch)`, which is
  declared and not defined.
