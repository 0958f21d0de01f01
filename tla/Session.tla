------------------------------ MODULE Session ------------------------------
(***************************************************************************)
(* run() of sockperf_cli: how the main thread initialises the EAL, reads   *)
(* the options of a device (Options), finds the cores of a socket          *)
(* (SocketConfig), makes and starts the device (DeviceSetup), divides the  *)
(* cores between the receiver and the senders, takes ports for both        *)
(* (SrcPort), launches jobs on the cores, waits for them, and destroys     *)
(* what they use, on every path out of the function: an error return, an   *)
(* exception, SIGINT or the normal end.  An integer divided by 0 kills the *)
(* process.  The jobs themselves are RxDispatch, Stats and Throughput;     *)
(* here they only run and return.                                          *)
(***************************************************************************)
EXTENDS SocketConfig, Options

CONSTANTS
  MaxLcores, SocketIds,     \* lcores 1 .. n, n up to MaxLcores, on these sockets
  MaxRx, MaxTx,             \* queues of the NIC
  Nics,                     \* what the first port may be, see Options
  EalOptions,               \* sequences of options "eal.<name>"
  OptionMaps,               \* sections of options: of the driver, drv, and of the NIC, nic
  MaxTxq,                   \* the option txq: 0 to MaxTxq
  Timeouts, DefaultTimeout, \* of link_status and of retry, in time units
  ClockHz, NsPerS,          \* estimated frequencies, and that of nanoseconds
  PortWrap                  \* number of UDP ports

ASSUME SessionAssumption ==
  /\ MaxLcores \in Nat \ {0} /\ IsFiniteSet(SocketIds) /\ SocketIds # {}
  /\ MaxRx \in Nat \ {0} /\ MaxTx \in Nat \ {0} /\ MaxTxq \in Nat /\ Most \in Nat
  /\ \A n \in Nics : n.maxRx \in 1..MaxRx /\ n.maxTx \in 1..MaxTx /\ n.socket \in SocketIds
  /\ \A o \in OptionMaps : DOMAIN o = {"drv", "nic"}
  /\ Timeouts \subseteq Nat /\ DefaultTimeout \in Nat \ {0}
  /\ ClockHz \subseteq Nat /\ NsPerS \in Nat \ {0} /\ PortWrap \in Nat \ {0} /\ DefaultPort < PortWrap

VARIABLES
  dpc, config, rss, flow, rings, tx_queues, rxReady, txReady,  \* of DeviceSetup
  pool, port, ruled, start, link

Device == INSTANCE DeviceSetup

VARIABLES next, at, res  \* of SrcPort

Port == INSTANCE SrcPort WITH Callers <- {"main"}, first <- config.next_src_port

VARIABLES
  given,     \* the Divisors that the options give
  cores,     \* socket_config->cores: "worker" or "main" each
  latency,   \* latency_n_packets != 0
  through,   \* throughput_n_packets != 0
  rxPort,    \* the port the channel is attached to
  srcPort,   \* the port packets are sent from
  pc,        \* main thread
  running,   \* the flag of the job runner
  lcore,     \* what each core runs: "WAIT", "rx", "latency" or "send"
  launched,  \* senders handed to a core or run by main so far
  ran,       \* how often each sender was really started
  alive      \* the objects of run() that exist, oldest first

device == <<dpc, config, rss, flow, rings, tx_queues, rxReady, txReady, pool, port, ruled, start, link>>
deviceButConfig == <<dpc, rss, flow, rings, tx_queues, rxReady, txReady, pool, port, ruled, start, link>>
counter == <<next, at, res>>
input == <<given, cores, latency, through>>
ports == <<counter, rxPort, srcPort>>
session == <<running, lcore, launched, ran>>
vars == <<device, input, ports, pc, session, alive>>

NRx == Cardinality(rss)     \* rx_jobs.size()
NTx == Cardinality(rings)   \* tx_jobs.size(), send_jobs.size()
NextCore == NRx + 1         \* next_core, after the receivers were launched
MainIsBack == Last(cores) = "main"  \* cores.back() == rte_get_main_lcore()

Topologies ==
  {t \in [socketOf : UNION {[1..n -> SocketIds] : n \in 1..MaxLcores}, main : 1..MaxLcores] :
     t.main \in DOMAIN t.socketOf}

\* The socket run() selects for a device of socket id.
Selection(t, id) ==
  LET socket == SelectSocket(t, id)
  IN [id |-> socket.id,
      cores |-> [c \in DOMAIN socket.cores |-> IF socket.cores[c] = t.main THEN "main" ELSE "worker"]]
Selections(id) == {Selection(t, id) : t \in Topologies}

\* What the options make of the port: its configuration, and which of the keys
\* that may end up in a division were given.
Divisors == {"svc_tx_n", "tx_rings", "features"}
Configurations ==
  {[dev |-> DeviceConfiguration(n, o.drv, n.mac :> o.nic),
    keys |-> Divisors \cap (DOMAIN o.drv \cup DOMAIN o.nic)] :
     <<n, o>> \in {x \in Nics \X OptionMaps : ~LoadThrows(x[1], x[2].drv, x[1].mac :> x[2].nic)}}

Init ==
  /\ Device!Init
  /\ given = {} /\ cores = <<>> /\ latency = FALSE /\ through = FALSE
  /\ next = 0 /\ at = [c \in {"main"} |-> "idle"] /\ res = [c \in {"main"} |-> 0]
  /\ rxPort = 0 /\ srcPort = 0
  /\ pc = "eal" /\ running = TRUE
  /\ lcore = <<>> /\ launched = 0 /\ ran = [s \in 1..MaxTxq + 1 |-> 0]
  /\ alive = <<>>

Goto(l) == pc' = l
Construct(objects) == alive' = alive \o objects

\* A destination that is no address returns, an EAL that fails throws; the EAL
\* is cleaned up when all else is destroyed.
InitEal ==
  /\ pc = "eal"
  /\ \/ Goto("returned") /\ UNCHANGED alive
     \/ Goto("options") /\ Construct(<<"eal">>)
  /\ UNCHANGED <<device, input, ports, session>>

\* devices_configuration throws if a port cannot be read or an option not be
\* parsed; without a port run() throws.
LoadOptions ==
  /\ pc = "options"
  /\ \/ Goto("unwind") /\ UNCHANGED <<config, given>>
     \/ \E c \in Configurations : Goto("sockets") /\ given' = c.keys /\ config' = c.dev
  /\ UNCHANGED <<deviceButConfig, cores, latency, through, ports, session, alive>>

\* Mutant: zero queues stay zero.
QueuesNoFloor(n) == Min({n, Len(cores') - 1})
\* The txq option (0 is 1), and one core per sender besides the receiver's.
Queues(n) == Min({Max({n, 1}), Len(cores') - 1})

\* What the device is made of: a single rx queue, the workarounds; it finds the
\* service pool by the socket after which run() names it.
DeviceOf(dev, socket, txq) ==
  LET adjusted == ApplyWorkarounds([AdjustToSocket(dev, socket) EXCEPT !.nbTx = Queues(txq)])
  IN [key \in DOMAIN Device!NoConfig |->
        CASE key = "svc_mempool" -> adjusted.socket_id = socket.id
          [] key = "nbRx" -> Limited(adjusted.nbRx, 1)
          [] OTHER -> adjusted[key]]

\* The cores of the socket, of which there have to be two.  Without a socket, or
\* memory for the list, run() throws.
ConfigureSocket ==
  /\ pc = "sockets"
  /\ \/ Goto("unwind") /\ UNCHANGED <<config, cores, lcore>>
     \/ \E socket \in Selections(config.socket_id), txq \in 0..MaxTxq :
          /\ cores' = socket.cores /\ lcore' = [c \in DOMAIN cores' |-> "WAIT"]
          /\ IF Len(cores') < 2 THEN Goto("unwind") /\ UNCHANGED config
             ELSE Goto("svc_mempool") /\ config' = DeviceOf(config, socket, txq)
  /\ UNCHANGED <<deviceButConfig, given, latency, through, ports, running, launched, ran, alive>>

MakeSvcMempool ==
  /\ pc = "svc_mempool"
  /\ \/ Goto("unwind") /\ UNCHANGED alive
     \/ Goto("device") /\ Construct(<<"svc_mempool", "mempool">>)
  /\ UNCHANGED <<device, input, ports, session>>

BeginDevice ==
  /\ pc = "device" /\ dpc = "none"
  /\ dpc' = "clock" /\ next' = config.next_src_port
  /\ UNCHANGED <<config, rss, flow, rings, tx_queues, rxReady, txReady, pool, port, ruled, start, link,
                 input, at, res, rxPort, srcPort, pc, session, alive>>

\* The constructor, step by step; it may throw in most.
ConstructDevice ==
  /\ pc = "device"
  /\ \/ Device!Construct /\ UNCHANGED <<pc, alive>>
     \/ Device!Throw /\ Goto("unwind") /\ UNCHANGED alive
     \/ dpc = "idle" /\ Goto("start") /\ Construct(<<"device">>) /\ UNCHANGED device
  /\ UNCHANGED <<input, ports, session>>

StartDevice ==
  /\ pc = "start"
  /\ \/ (Device!StartPort \/ Device!StartFlow) /\ UNCHANGED pc
     \/ /\ dpc = "idle" /\ start # "none" /\ UNCHANGED device
        /\ Goto(IF start = "ok" THEN "link" ELSE "unwind")
  /\ UNCHANGED <<input, ports, session, alive>>

\* A link that stays down is only reported.
WaitForLink ==
  /\ pc = "link" /\ link.end = "none"
  /\ (\E t \in Timeouts : Device!LinkStatus(t)) \/ Device!LinkPoll
  /\ UNCHANGED <<input, ports, pc, session, alive>>

\* Mutant: the sentry is declared after the channel and the jobs.
LocalsSentryLate == <<"rx_channel", "send_jobs", "job_sentry">>
Locals == <<"job_sentry", "rx_channel", "send_jobs">>

\* Which tests are wanted; the job_sentry; the port of the channel is asked for.
ChooseTests ==
  /\ pc = "link" /\ link.end # "none" /\ link' = Device!NoLink
  /\ latency' \in BOOLEAN /\ through' \in BOOLEAN /\ (latency' \/ through')
  /\ Goto("channel") /\ Construct(SubSeq(Locals, 1, 1))
  /\ UNCHANGED <<dpc, config, rss, flow, rings, tx_queues, rxReady, txReady, pool, port, ruled,
                 start, given, cores, rxPort, srcPort, session>>
  /\ Port!Call("main")

TakePort ==
  /\ pc \in {"channel", "packets"}
  /\ UNCHANGED <<device, input, rxPort, srcPort, pc, session, alive>>
  /\ Port!Step("main")

\* Mutant: the channel gets the port taken for it, which no packet is sent from.
ChannelPortTaken(n) == n
\* rte_cpu_to_be_16(device.next_src_port() + 1), the port that will be taken next.
ChannelPort(n) == (n + 1) % PortWrap

\* The channel, whose attach may throw.
MakeChannel ==
  /\ pc = "channel"
  /\ rxPort' = ChannelPort(res["main"])
  /\ \/ Goto("unwind") /\ UNCHANGED alive
     \/ Goto("launchRx") /\ Construct(SubSeq(Locals, 2, 2))
  /\ UNCHANGED <<device, input, srcPort, session>>
  /\ Port!Return("main")

\* rte_eal_remote_launch: refused, and the refusal ignored, unless the core is
\* a worker that waits.
Launch(c, job) ==
  IF c <= Len(cores) /\ cores[c] # "main" /\ lcore[c] = "WAIT"
  THEN lcore' = [lcore EXCEPT ![c] = job] ELSE UNCHANGED lcore

LaunchRx ==
  /\ pc = "launchRx" /\ Goto("address")
  /\ IF NRx = 0 THEN UNCHANGED lcore ELSE Launch(1, "rx")
  /\ UNCHANGED <<device, input, ports, running, launched, ran, alive>>

\* service_tx: the hint modulo svc_tx_n, which is 0 where options say so or no
\* queue has a ring.
NoServiceRing == config.svc_tx_n = 0

\* The destination's address is given or resolved, unless that fails.  To ask
\* for one takes a service ring.
FindAddress ==
  /\ pc = "address"
  /\ \/ Goto("unwind") \/ Goto("pool")
     \/ "arp_table" \in config.features /\ NoServiceRing /\ Goto("killed")
  /\ UNCHANGED <<device, input, ports, session, alive>>

\* The pool is made for at least one sender, and the port the packets are sent
\* from is asked for.
MakePackets ==
  /\ pc = "pool"
  /\ UNCHANGED <<device, input, rxPort, srcPort, session, alive>>
  /\ \/ Goto("unwind") /\ UNCHANGED counter
     \/ NTx > 0 /\ Goto("packets") /\ Port!Call("main")

\* configure_sockperf_packet_pool, which may throw, the send jobs, and the check
\* of the number of cores.
MakeSenders ==
  /\ pc = "packets"
  /\ srcPort' = res["main"]
  /\ \/ Goto("unwind") /\ UNCHANGED alive
     \/ /\ Goto(IF Min({Len(cores) - NRx, NTx}) < NTx THEN "unwind" ELSE "warmup")
        /\ Construct(SubSeq(Locals, 3, 3))
  /\ UNCHANGED <<device, input, rxPort, session>>
  /\ Port!Return("main")

\* Without an answer to its packets a warmup fails.
Warmup ==
  /\ pc = "warmup"
  /\ Goto("unwind") \/ Goto("latency")
  /\ UNCHANGED <<device, input, ports, session, alive>>

\* The latency test runs on next_core, or here if main has the last core.
StartLatency ==
  /\ pc = "latency"
  /\ IF ~latency \/ MainIsBack
     THEN Goto("senders") /\ UNCHANGED <<lcore, alive>>
     ELSE Goto("waitLatency") /\ Launch(NextCore, "latency") /\ Construct(<<"latency_job">>)
  /\ UNCHANGED <<device, input, ports, running, launched, ran>>

WaitLatency ==
  /\ pc = "waitLatency" /\ lcore[NextCore] = "WAIT"
  /\ Goto("senders") /\ alive' = Front(alive)
  /\ UNCHANGED <<device, input, ports, session>>

-----------------------------------------------------------------------------
\* send_cores: one core per sender from next_core on, one less if main runs
\* the last sender itself.
\* Mutant: main's own core is not taken into account.
SendCoresAll == NTx
SendCores == IF MainIsBack THEN NTx - 1 ELSE NTx
Started(s) == ran' = [ran EXCEPT ![s] = IF lcore' # lcore THEN @ + 1 ELSE @]

LaunchSender ==
  /\ pc = "senders" /\ through /\ launched < SendCores
  /\ launched' = launched + 1
  /\ Launch(NextCore + launched, "send")
  /\ Started(launched')
  /\ UNCHANGED <<device, input, ports, pc, running, alive>>

RunOwnSender ==
  /\ pc = "senders" /\ through /\ launched = SendCores
  /\ launched' = NTx
  /\ ran' = IF launched < NTx THEN [ran EXCEPT ![NTx] = @ + 1] ELSE ran
  /\ Goto("waitSenders")
  /\ UNCHANGED <<device, input, ports, running, lcore, alive>>

WaitSenders ==
  /\ pc = "waitSenders"
  /\ \A c \in NextCore..(NextCore + SendCores - 1) : lcore[c] = "WAIT"
  /\ Goto("waitReceiver")
  /\ UNCHANGED <<device, input, ports, session, alive>>

\* The first core is waited for: the receiver returned by itself, or the time to wait for it is over.
WaitReceiver ==
  /\ pc = "waitReceiver"
  /\ Goto("stop")
  /\ running' \in (IF lcore[1] = "WAIT" THEN {running} ELSE {FALSE})
  /\ UNCHANGED <<device, input, ports, lcore, launched, ran, alive>>

Stop ==
  /\ pc = "stop" \/ (pc = "senders" /\ ~through)
  /\ running' = FALSE /\ Goto("joinRx")
  /\ UNCHANGED <<device, input, ports, lcore, launched, ran, alive>>

ReceiverDone == \A c \in 1..NRx : lcore[c] = "WAIT"

\* rte_eal_wait_lcore of the receiver, then the report.
JoinRx ==
  /\ pc = "joinRx" /\ ReceiverDone
  /\ Goto("unwind")
  /\ UNCHANGED <<device, input, ports, session, alive>>

-----------------------------------------------------------------------------
\* Locals are destroyed in reverse order of construction; ~job_sentry stops
\* the jobs and waits for every lcore.
Destroy ==
  /\ pc = "unwind" /\ alive # <<>> /\ Last(alive) \notin {"job_sentry", "device"}
  /\ alive' = Front(alive)
  /\ UNCHANGED <<device, input, ports, pc, session>>

DestroyDevice ==
  /\ pc = "unwind" /\ alive # <<>> /\ Last(alive) = "device"
  /\ \/ Device!Stop /\ UNCHANGED alive
     \/ Device!Destroy /\ alive' = Front(alive)
  /\ UNCHANGED <<input, ports, pc, session>>

\* Mutant of SentryStop: the flag is left alone.
SentryOnlyWaits ==
  /\ pc = "unwind" /\ alive # <<>> /\ Last(alive) = "job_sentry"
  /\ Goto("sentryWait")
  /\ UNCHANGED <<device, input, ports, session, alive>>

SentryStop ==
  /\ pc = "unwind" /\ alive # <<>> /\ Last(alive) = "job_sentry"
  /\ running' = FALSE /\ Goto("sentryWait")
  /\ UNCHANGED <<device, input, ports, lcore, launched, ran, alive>>

SentryWait ==
  /\ pc = "sentryWait" /\ \A c \in DOMAIN lcore : lcore[c] = "WAIT"
  /\ Goto("unwind") /\ alive' = Front(alive)
  /\ UNCHANGED <<device, input, ports, session>>

Return ==
  /\ pc = "unwind" /\ alive = <<>>
  /\ Goto("returned")
  /\ UNCHANGED <<device, input, ports, session, alive>>

Configure == InitEal \/ LoadOptions \/ ConfigureSocket

SetUp ==
  \/ MakeSvcMempool \/ BeginDevice \/ ConstructDevice \/ StartDevice \/ WaitForLink
  \/ ChooseTests \/ TakePort \/ MakeChannel

Test ==
  \/ LaunchRx \/ FindAddress \/ MakePackets \/ MakeSenders \/ Warmup \/ StartLatency \/ WaitLatency
  \/ LaunchSender \/ RunOwnSender \/ WaitSenders \/ WaitReceiver \/ Stop \/ JoinRx

Unwind == Destroy \/ DestroyDevice \/ SentryStop \/ SentryWait \/ Return

Main == Configure \/ SetUp \/ Test \/ Unwind

-----------------------------------------------------------------------------
\* The receiver's channel stops the jobs after the last packet; SIGINT does
\* once its handler is set.
StopJobs ==
  /\ (\E c \in DOMAIN lcore : lcore[c] = "rx") \/ "send_jobs" \in Range(alive)
     \/ pc \in {"address", "pool", "packets"}
  /\ pc # "killed" /\ running /\ running' = FALSE
  /\ UNCHANGED <<device, input, ports, pc, lcore, launched, ran, alive>>

\* A job returns: the receiver when the jobs are stopped or it fails, a sender
\* or the latency test after its last packet.
JobReturns(c) ==
  /\ pc # "killed" /\ lcore[c] # "WAIT"
  /\ lcore' = [lcore EXCEPT ![c] = "WAIT"]
  /\ UNCHANGED <<device, input, ports, pc, running, launched, ran, alive>>

\* timestamp_fix of a packet of the throughput test that the NIC has stamped.
NoFrequency == through /\ "timestamp" \in config.offload /\ config.clock_hz = 0

\* The receiver divides by 0: it answers an ARP or ICMP request, or records a
\* timestamp.
JobKilled(c) ==
  /\ pc # "killed" /\ lcore[c] = "rx" /\ (NoServiceRing \/ NoFrequency)
  /\ Goto("killed")
  /\ UNCHANGED <<device, input, ports, session, alive>>

Returned == pc \in {"returned", "killed"} /\ UNCHANGED vars

Next == Main \/ StopJobs \/ (\E c \in DOMAIN lcore : JobReturns(c) \/ JobKilled(c)) \/ Returned

\* The main thread makes progress; a stopped receiver returns after a bounded
\* number of rounds (Jobs), and a sender when it has sent its packets, which takes
\* a pool that holds a burst more than the NIC queue has descriptors (SenderReturns
\* of Throughput).  Nothing obliges a receiver to return before it is stopped.
Spec ==
  /\ Init /\ [][Next]_vars /\ WF_vars(Main)
  /\ \A c \in 1..MaxLcores :
       WF_vars(c \in DOMAIN lcore /\ (lcore[c] = "rx" => ~running) /\ JobReturns(c))

-----------------------------------------------------------------------------
Objects == {"eal", "svc_mempool", "mempool", "device", "job_sentry", "rx_channel", "send_jobs", "latency_job"}

TypeOK ==
  /\ Device!TypeOK /\ at["main"] # "idle" => Port!TypeOK
  /\ cores \in Seq({"worker", "main"}) /\ lcore \in [DOMAIN cores -> {"WAIT", "rx", "latency", "send"}]
  /\ dpc # "none" => config.nbTx \in 1..(Len(cores) - 1)
  /\ running \in BOOLEAN /\ launched \in 0..MaxTxq + 1 /\ ran \in [1..MaxTxq + 1 -> 0..1]
  /\ alive \in Seq(Objects) /\ IsInjective(alive)

\* The device is constructed with the socket after which run() named its
\* service pool, also where the NIC's own socket has no lcores.
ServicePoolFound == dpc = "lookup" => config.svc_mempool

\* A run with the default options is not killed by a division by zero, neither
\* in service_tx nor in timestamp_fix: that takes options that leave no service
\* ring, or switch the clock off and give no frequency.
KilledByOptions ==
  pc = "killed" => \/ given \cap {"svc_tx_n", "tx_rings"} # {}
                   \/ "features" \in given /\ "dev_clock" \notin config.features

\* However options, failures and the paths out of run() combine, the device is
\* built from what run() prepared for it, its queues are divided between jobs, a
\* running port is complete, and a port is not left running.
DeviceSound == ServicePoolFound /\ KilledByOptions /\ Device!DeviceSound

Exists(o) == o \in Range(alive)

\* "all mempools used by device should outlive one!": while the device exists
\* so do the EAL and the pools its queues take buffers from, and no job runs
\* whose objects were destroyed or whose port is stopped, on whichever path
\* run() is left.
JobsOutlived ==
  /\ Exists("device") => Exists("eal") /\ Exists("mempool") /\ Exists("svc_mempool")
  /\ \A c \in DOMAIN lcore :
       /\ lcore[c] # "WAIT" => Exists("device") /\ port = "started"
       /\ lcore[c] = "latency" => Exists("latency_job")
       /\ lcore[c] = "send" => Exists("send_jobs")

\* The division of the cores gives every sender exactly one run: no launch is
\* refused because the core is busy, missing or the main lcore's own.
EverySenderRuns ==
  pc \in {"waitSenders", "waitReceiver", "stop"} => \A s \in 1..NTx : ran[s] = 1

\* socket_configuration groups the lcores of every topology by socket, with the
\* main lcore last, which is what gives every sender a core.  (What does not
\* depend on the state is evaluated in the first one only.)
LcoresGrouped == pc = "eal" => \A t \in Topologies : GroupsLcores(t)

\* The last assertion of socket_configuration (socket.cpp:61-63) is not true of
\* the code: from three lcores on two sockets on there is a topology that lists a
\* smaller socket before a larger one, and run() may fall back on it.
AssertionFails ==
  pc = "eal" /\ MaxLcores > 2 /\ Cardinality(SocketIds) > 1 => \E t \in Topologies : ~LargestFirst(t)

\* The lcores are divided completely: they are grouped by socket, whatever the
\* sizes of the groups, and every sender gets a core.
CoresDivided == LcoresGrouped /\ AssertionFails /\ EverySenderRuns

\* The option in the section of the NIC, else of the driver, else the default.
Prevails(n, o, key) ==
  IF key \in DOMAIN o.nic THEN o.nic[key] ELSE IF key \in DOMAIN o.drv THEN o.drv[key] ELSE Default(n)[key]

\* devices_configuration, however the sections overlap: the section of a NIC
\* prevails over that of its driver and that over the default, a device has a
\* queue for every service ring it is asked for, and asks for no offload that
\* the NIC or the options do not offer.  Its address is the one given, and else,
\* also where the given one does not parse, the one the system knows.
SectionsApplied ==
  pc = "eal" => \A n \in Nics, o \in OptionMaps :
    ~LoadThrows(n, o.drv, n.mac :> o.nic) =>
      LET dev == DeviceConfiguration(n, o.drv, n.mac :> o.nic)
      IN /\ \A key \in {"rx_flow_queues", "tx_rings", "next_src_port", "clock_hz", "features"} :
              dev[key] = Prevails(n, o, key)
         /\ dev.nbRx > 0 /\ dev.nbTx > 0 /\ dev.svc_tx_n \in 0..dev.nbTx
         /\ dev.offload \subseteq Prevails(n, o, "capa")
         /\ Has(o.nic, "ip") => dev.ip = o.nic["ip"]
         /\ ~Has(o.nic, "ip") /\ n.mac \in DOMAIN n.system => dev.ip = n.system[n.mac].ip

\* The packets are sent from the port at which the receiver's channel waits for
\* the answers, unless the configured first port is the last one there is.
RepliesReachChannel ==
  pc \in {"warmup", "latency", "waitLatency", "senders"} /\ config.next_src_port # PortWrap - 1 =>
    srcPort = rxPort

\* The EAL reads from its arguments exactly the options given, an option with
\* several values once for each and in their order.
EalOptionsRead ==
  pc = "eal" => \A options \in EalOptions :
    LET named == SelectSeq(options, LAMBDA o : o.letters > 0)
    IN EalReads(EalOption("sockperf", options)) = FlattenSeq([k \in DOMAIN named |-> Wanted(named[k])])

\* What options configure is what the run uses.
OptionsApplied == SectionsApplied /\ EalOptionsRead /\ RepliesReachChannel

\* The report is made of records no core is writing any more.
ReportAfterJobs ==
  [][pc = "joinRx" /\ pc' = "unwind" => \A c \in DOMAIN lcore : lcore[c] = "WAIT"]_vars

\* run() returns, with nothing left alive, unless it is killed, as long as senders
\* return by themselves.
RunReturns == <>((pc = "returned" /\ alive = <<>>) \/ pc = "killed")

\* run() ends: it reports after the jobs, if at all, and returns.
RunEnds == ReportAfterJobs /\ RunReturns
=============================================================================
