---------------------------- MODULE DeviceSetup ----------------------------
(***************************************************************************)
(* A dpdkx::device from its constructor to its destructor: its clock, the *)
(* division of the receive queues between rx_job and flow::rx_queue and of *)
(* the transmit queues between direct users and tx_job, the steps of the   *)
(* constructor (most of which may throw), start(), link_status() and       *)
(* ~device().  Session calls them with a configuration made by Options.    *)
(***************************************************************************)
EXTENDS Integers, FiniteSets, FiniteSetsExt

CONSTANTS
  MaxRx, MaxTx,   \* queues of the NIC
  DefaultTimeout, \* of retry, in time units
  ClockHz,        \* what estimate_clock_freq may find, 0 for no clock
  NsPerS

VARIABLES
  dpc,        \* "none", the next step of the constructor, "idle" between calls, ...
  config,     \* config_
  rss, flow,  \* queues of rx_jobs_ and of fqueues_
  rings,      \* queues of tx_jobs_
  tx_queues,  \* tx_queues_: queues below it are used directly
  rxReady, txReady,  \* queues set up in the NIC
  pool,       \* rx_mbuf_pool_: "none", "alive" or "freed"
  port,       \* "new", "configured", "started", "stopped" or "closed"
  ruled,      \* flow queues whose flows_ is not empty
  start,      \* how the last start() ended
  link        \* link_status in progress, and how the last one ended

vars == <<dpc, config, rss, flow, rings, tx_queues, rxReady, txReady, pool, port, ruled, start, link>>

Min2(a, b) == IF a < b THEN a ELSE b

\* The members of config::device that the device reads, and whether its
\* socket_id is that of a service pool.  Offloads and frequencies are abstracted
\* to what the properties tell apart.
NoConfig == [nbRx |-> 0, nbTx |-> 0, rx_flow_queues |-> 0, tx_rings |-> 0, svc_tx_n |-> 0,
             next_src_port |-> 0, clock_hz |-> 0, offload |-> {}, features |-> {}, svc_mempool |-> FALSE]

NoLink == [timeout |-> 0, delay |-> 0, left |-> 0, waited |-> 0, end |-> "none"]

Init ==
  /\ dpc = "none" /\ config = NoConfig
  /\ rss = {} /\ flow = {} /\ rings = {}
  /\ tx_queues = 0 /\ rxReady = {} /\ txReady = {}
  /\ pool = "none" /\ port = "new" /\ ruled = {} /\ start = "none" /\ link = NoLink

At(from, to) == dpc = from /\ dpc' = to

\* With the feature dev_clock the frequency of the NIC's clock is estimated; a
\* configured one prevails.  Without a clock (0) the feature is switched off and
\* timestamps are taken for nanoseconds.
ClockEstimated(hz) ==
  IF "dev_clock" \notin config.features THEN config
  ELSE IF hz = 0 THEN [config EXCEPT !.features = @ \ {"dev_clock"}, !.clock_hz = NsPerS]
  ELSE [config EXCEPT !.clock_hz = IF @ = 0 THEN hz ELSE @]

EstimateClock(hz) ==
  /\ At("clock", "lookup") /\ config' = ClockEstimated(hz)
  /\ UNCHANGED <<rss, flow, rings, tx_queues, rxReady, txReady, pool, port, ruled, start, link>>

\* The service pool is found, and tx_queues_ is what tx_rings leaves.
Lookup ==
  /\ At("lookup", "split") /\ config.svc_mempool
  /\ tx_queues' = IF config.tx_rings > config.nbTx THEN 0 ELSE config.nbTx - config.tx_rings
  /\ UNCHANGED <<config, rss, flow, rings, rxReady, txReady, pool, port, ruled, start, link>>

\* No more flow queues than there are queues.
FlowLimited == Min2(config.rx_flow_queues, config.nbRx)

\* The last receive queues are flow queues, the others share by RSS; the last
\* transmit queues have a ring and a job.
SplitQueues ==
  /\ At("split", "configure")
  /\ config' = [config EXCEPT !.rx_flow_queues = FlowLimited]
  /\ flow' = (config.nbRx - config'.rx_flow_queues)..(config.nbRx - 1)
  /\ rss' = 0..(config.nbRx - config'.rx_flow_queues - 1)
  /\ rings' = tx_queues..(config.nbTx - 1)
  /\ UNCHANGED <<tx_queues, rxReady, txReady, pool, port, ruled, start, link>>

\* rte_eth_dev_configure refuses more queues than the NIC has.
Configure ==
  /\ At("configure", "pool") /\ config.nbRx <= MaxRx /\ config.nbTx <= MaxTx
  /\ port' = "configured"
  /\ UNCHANGED <<config, rss, flow, rings, tx_queues, rxReady, txReady, pool, ruled, start, link>>

MakePool ==
  /\ At("pool", "rx") /\ pool' = "alive"
  /\ UNCHANGED <<config, rss, flow, rings, tx_queues, rxReady, txReady, port, ruled, start, link>>

\* Mutant: only the queues that share by RSS are set up.
RxQueuesRss == rss
RxQueues == 0..(config.nbRx - 1)

RxSetup ==
  /\ dpc = "rx"
  /\ IF rxReady = RxQueues
     THEN dpc' = "tx" /\ UNCHANGED rxReady
     ELSE rxReady' = rxReady \cup {Cardinality(rxReady)} /\ UNCHANGED dpc
  /\ UNCHANGED <<config, rss, flow, rings, tx_queues, txReady, pool, port, ruled, start, link>>

\* svc_tx_n is limited again to the rings.
SvcLimited == Min2(config.svc_tx_n, Cardinality(rings))

TxSetup ==
  /\ dpc = "tx"
  /\ IF txReady = 0..(config.nbTx - 1)
     THEN /\ dpc' = "idle" /\ UNCHANGED txReady
          /\ config' = [config EXCEPT !.svc_tx_n = SvcLimited]
     ELSE txReady' = txReady \cup {Cardinality(txReady)} /\ UNCHANGED <<dpc, config>>
  /\ UNCHANGED <<rss, flow, rings, tx_queues, rxReady, pool, port, ruled, start, link>>

\* The constructor throws: its members are destroyed, ~device does not run.
Throw ==
  /\ dpc \in {"lookup", "split", "configure", "pool", "rx", "tx"} /\ dpc' = "gone"
  /\ dpc = "lookup" => ~config.svc_mempool
  /\ pool' = IF pool = "alive" THEN "freed" ELSE pool
  /\ rss' = {} /\ flow' = {} /\ rings' = {}
  /\ UNCHANGED <<config, tx_queues, rxReady, txReady, port, ruled, start, link>>

\* start(): rte_eth_dev_start, then a rule for each flow queue without one.
StartPort ==
  /\ dpc = "idle" /\ port = "configured" /\ start = "none"
  /\ \/ dpc' = "flows" /\ port' = "started" /\ start' = "running"
     \/ start' = "failed" /\ UNCHANGED <<dpc, port>>
  /\ UNCHANGED <<config, rss, flow, rings, tx_queues, rxReady, txReady, pool, ruled, link>>

\* flow::rx_queue::start for the next queue; creating the rule may throw.
StartFlow ==
  /\ dpc = "flows"
  /\ IF flow \subseteq ruled
     THEN dpc' = "idle" /\ start' = "ok" /\ UNCHANGED ruled
     ELSE \/ ruled' = ruled \cup {Min(flow \ ruled)} /\ UNCHANGED <<dpc, start>>
          \/ dpc' = "idle" /\ start' = "thrown" /\ UNCHANGED ruled
  /\ UNCHANGED <<config, rss, flow, rings, tx_queues, rxReady, txReady, pool, port, link>>

\* retry: how long to wait between polls, and how many.
Retry(t) == IF t <= DefaultTimeout THEN <<t, 1>>
            ELSE <<DefaultTimeout, (t + DefaultTimeout - 1) \div DefaultTimeout>>

LinkStatus(t) ==
  /\ dpc = "idle" /\ port = "started" /\ dpc' = "link"
  /\ link' = [timeout |-> t, delay |-> Retry(t)[1], left |-> Retry(t)[2], waited |-> 0, end |-> "none"]
  /\ UNCHANGED <<config, rss, flow, rings, tx_queues, rxReady, txReady, pool, port, ruled, start>>

\* One poll: the link is up, or the delay passes and the retries are counted.
LinkPoll ==
  /\ dpc = "link"
  /\ \/ link' = [link EXCEPT !.end = "up"] /\ dpc' = "idle"
     \/ LET left == link.left - 1
        IN /\ link' = [link EXCEPT !.waited = @ + link.delay, !.left = left,
                                   !.end = IF left = 0 THEN "down" ELSE @]
           /\ dpc' = IF left = 0 THEN "idle" ELSE "link"
  /\ UNCHANGED <<config, rss, flow, rings, tx_queues, rxReady, txReady, pool, port, ruled, start>>

\* stop() of a port that was not started does nothing.
Stop ==
  /\ At("idle", "closing")
  /\ port' = IF port = "started" THEN "stopped" ELSE port
  /\ UNCHANGED <<config, rss, flow, rings, tx_queues, rxReady, txReady, pool, ruled, start, link>>

\* ~device after stop(): close, then the members: the flow queues (whose rules a
\* closed port no longer destroys), the rings, and the pool last.
Destroy ==
  /\ At("closing", "gone")
  /\ port' = "closed" /\ pool' = "freed"
  /\ flow' = {} /\ rss' = {} /\ rings' = {}
  /\ UNCHANGED <<config, tx_queues, rxReady, txReady, ruled, start, link>>

\* service_tx's index, counted from the first ring.
ServiceIx(hint) == (hint % config.svc_tx_n) + Cardinality(rings) - config.svc_tx_n

Construct ==
  \/ \E hz \in ClockHz : EstimateClock(hz)
  \/ Lookup \/ SplitQueues \/ Configure \/ MakePool \/ RxSetup \/ TxSetup

-----------------------------------------------------------------------------
TypeOK ==
  /\ dpc \in {"none", "clock", "lookup", "split", "configure", "pool", "rx", "tx",
              "idle", "flows", "link", "closing", "gone"}
  /\ rss \subseteq 0..(MaxRx - 1) /\ flow \subseteq 0..(MaxRx - 1) /\ rings \subseteq 0..(config.nbTx - 1)
  /\ tx_queues \in 0..config.nbTx /\ rxReady \subseteq 0..(MaxRx - 1) /\ txReady \subseteq 0..(MaxTx - 1)
  /\ pool \in {"none", "alive", "freed"}
  /\ port \in {"new", "configured", "started", "stopped", "closed"} /\ ruled \subseteq 0..(MaxRx - 1)

Built == dpc \in {"idle", "flows", "link"}

\* Whatever the options say, each receive queue of a device is polled by one
\* job, an rx_job or a flow::rx_queue, and each transmit queue either has a
\* ring or is handed out by tx_queue, never both.
QueuesPartitioned ==
  Built => /\ rss \cap flow = {} /\ rss \cup flow = rxReady
           /\ rings \cap 0..(tx_queues - 1) = {} /\ rings \cup 0..(tx_queues - 1) = txReady

\* While svc_tx_n is not 0, service_tx finds a ring for every hint, and the
\* hints reach all of the last svc_tx_n rings.
ServiceRings ==
  Built /\ config.svc_tx_n > 0 =>
    LET n == Cardinality(rings)
        found == {ServiceIx(h) : h \in 0..(2 * MaxTx)}
    IN found \subseteq 0..(n - 1) /\ found = (n - config.svc_tx_n)..(n - 1)

\* A port that runs has all its queues and the pool they take buffers from;
\* when start() succeeded, each flow queue has a rule.
StartedIsComplete ==
  port = "started" =>
    /\ pool = "alive" /\ rxReady = 0..(config.nbRx - 1) /\ txReady = 0..(config.nbTx - 1)
    /\ start = "ok" => ruled = 0..(config.nbRx - 1) \ rss

\* However the constructor or the device ends, the port is not left running
\* on a pool that was freed.
NothingLeftRunning == dpc = "gone" => port \notin {"started", "stopped"} /\ pool # "alive"

\* link_status reports a link that is down only after it has waited for the
\* whole timeout, and no longer than one delay more.
DownWaitedOut ==
  link.end = "down" => link.timeout <= link.waited /\ link.waited < link.timeout + DefaultTimeout

\* A clock that is read has a frequency to divide by, estimated or configured.
ClockUsable == Built /\ "dev_clock" \in config.features => config.clock_hz # 0

\* A device from its constructor to its destructor: its queues are divided
\* between jobs, a running port is complete, and a gone one does not run.
DeviceSound ==
  /\ QueuesPartitioned /\ ServiceRings /\ StartedIsComplete /\ NothingLeftRunning
  /\ DownWaitedOut /\ ClockUsable
=============================================================================
