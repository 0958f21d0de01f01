----------------------------- MODULE FlowQueue -----------------------------
\* Queues a NIC flow rule feeds for one channel each: the flow branch of
\* device::attach_rx (dpdkx/device.cpp), flow::rx_queue (dpdkx/flow/rx_queue.cpp)
\* and its run_exclusive on an lcore of its own (dpdkx/jobs.cpp).  A started
\* queue holds a stub rule until a channel takes the queue; any rule operation
\* of the NIC may fail.  The lcore hands packets over through the enqueue_proxy of
\* the channel's class; that of rx_channel throws, and no class of the repository
\* has another, so a channel in Proxies is one a user of dpdkx adds.  Calls of
\* attach_rx do not overlap (flows_ is a plain vector); the lcores and the NIC run
\* beside them.
EXTENDS Naturals, Sequences, SequencesExt

CONSTANTS
  NQueues,    \* fqueues_.size()
  Channels,
  Proxies,    \* those whose class overrides enqueue_proxy
  Endpoints,
  Mcast,      \* the multicast ones among the endpoints
  Calls,      \* <<channel, endpoint>> of the calls of attach_rx
  Null,
  MaxCalls,   \* bound on calls of attach_rx
  MaxQueued   \* bound on packets waiting in a NIC queue

ASSUME FlowAssumption ==
  /\ NQueues \in Nat /\ MaxCalls \in Nat /\ MaxQueued \in Nat
  /\ Null \notin Channels \cup Endpoints /\ Mcast \subseteq Endpoints
  /\ Calls \subseteq Channels \X Endpoints /\ Proxies \subseteq Channels

Queues == 1..NQueues
Stub == Null   \* flow_stub_endpoint

VARIABLES
  pc,        \* of attach_rx: "idle", "scan", "reset", "destroy", "store", "route", "join"
  call,      \* its arguments
  q,         \* the queue it works on
  calls,     \* number of calls so far
  attached,  \* <<channel, endpoint>> of the calls that did not fail
  requested, \* <<channel, endpoint>> of all calls
  ch,        \* ch_ of each queue
  flows,     \* flows_ of each queue: the endpoints of the rules
  runner,    \* of each queue: "wait", "poll", "returned"
  proxy,     \* the channel run_exclusive loaded
  nic,       \* packets waiting in each queue
  got,       \* <<channel, endpoint>> of the packets channels took
  lost,      \* <<channel, endpoint>> of those they did not, whose buffers nobody frees
  running

caller == <<pc, call, q, calls, attached, requested>>
queue == <<ch, flows>>
lcore == <<runner, proxy, nic, got, lost>>
vars == <<caller, queue, lcore, running>>

Init ==
  /\ pc = "idle" /\ call = [ch |-> Null, ep |-> Null] /\ q = 0
  /\ calls = 0 /\ attached = {} /\ requested = {}
  /\ ch = [n \in Queues |-> Null]
  /\ flows = [n \in Queues |-> <<Stub>>]
  /\ runner = [n \in Queues |-> "wait"] /\ proxy = [n \in Queues |-> Null]
  /\ nic = [n \in Queues |-> << >>] /\ got = {} /\ lost = {}
  /\ running = TRUE

\* A call that returns an error, or throws, leaves everything as it is.
Fail == pc' = "idle" /\ UNCHANGED <<call, q, calls, attached, requested>>

At(l, n) == pc' = l /\ q' = n /\ UNCHANGED <<call, calls, attached, requested>>

Attach(c, e) ==
  /\ pc = "idle" /\ calls < MaxCalls
  /\ pc' = "scan" /\ call' = [ch |-> c, ep |-> e]
  /\ calls' = calls + 1
  /\ requested' = requested \cup {<<c, e>>}
  /\ UNCHANGED <<q, attached, queue, lcore, running>>

\* The channel's own queue, else the first one nobody has, else RSS
\* (mode any) or no_avalible_queue (mode flow).
Own == {n \in Queues : ch[n] = call.ch}
Free == {n \in Queues : ch[n] = Null}
First(S) == CHOOSE n \in S : \A m \in S : n <= m

Scan ==
  /\ pc = "scan"
  /\ \/ Own # {} /\ At("route", First(Own))
     \/ Own = {} /\ Free # {} /\ At("reset", First(Free))
     \/ Own = {} /\ Free = {} /\ Fail
  /\ UNCHANGED <<queue, lcore, running>>

\* reset(): the rules the NIC would not destroy stay.
Reset ==
  /\ pc = "reset"
  /\ \E kept \in SUBSET DOMAIN flows[q] :
       flows' = [flows EXCEPT ![q] = SetToSeq({flows[q][n] : n \in kept})]
  /\ At("destroy", q)
  /\ UNCHANGED <<ch, lcore, running>>

\* reset(ch, ep): a second attempt on those; one more failure throws.
\* Mutant: the second failure is ignored.
DestroyOnce ==
  /\ pc = "destroy" /\ At("store", q)
  /\ UNCHANGED <<queue, lcore, running>>
Destroy ==
  /\ pc = "destroy"
  /\ \/ flows[q] = << >> /\ At("store", q) /\ UNCHANGED flows
     \/ /\ flows[q] # << >> /\ flows' = [flows EXCEPT ![q] = Front(@)]
        /\ At("destroy", q)
     \/ flows[q] # << >> /\ Fail /\ UNCHANGED flows
  /\ UNCHANGED <<ch, lcore, running>>

Store ==
  /\ pc = "store"
  /\ ch' = [ch EXCEPT ![q] = call.ch]
  /\ At("route", q)
  /\ UNCHANGED <<flows, lcore, running>>

\* route_to: without a rule the call fails, and keeps the queue it took.
\* Mutant: the rule is made twice.
RouteTwice ==
  /\ pc = "route"
  /\ At("join", q) /\ flows' = [flows EXCEPT ![q] = @ \o <<call.ep, call.ep>>]
  /\ UNCHANGED <<ch, lcore, running>>
Route ==
  /\ pc = "route"
  /\ \/ At("join", q) /\ flows' = [flows EXCEPT ![q] = Append(@, call.ep)]
     \/ Fail /\ UNCHANGED flows
  /\ UNCHANGED <<ch, lcore, running>>

\* join_mcast of a multicast endpoint may report an error.
Join ==
  /\ pc = "join"
  /\ \/ /\ pc' = "idle" /\ attached' = attached \cup {<<call.ch, call.ep>>}
        /\ UNCHANGED <<call, q, calls, requested>>
     \/ call.ep \in Mcast /\ Fail
  /\ UNCHANGED <<queue, lcore, running>>

AttachStep == Scan \/ Reset \/ Destroy \/ Store \/ Route \/ Join

\* enqueue_proxy of the channel: where it throws, run_exclusive returns.
LoadProxy(n) ==
  /\ \/ /\ ch[n] \in Proxies
        /\ runner' = [runner EXCEPT ![n] = "poll"] /\ proxy' = [proxy EXCEPT ![n] = ch[n]]
     \/ /\ ch[n] \notin Proxies
        /\ runner' = [runner EXCEPT ![n] = "returned"] /\ UNCHANGED proxy
  /\ UNCHANGED <<caller, queue, nic, got, lost, running>>

\* run_exclusive: wait for a channel, then load it once ...
\* Mutant: the lcore waits for packets instead.
WaitForPackets(n) ==
  /\ runner[n] = "wait" /\ ch[n] # Null /\ (nic[n] # << >> \/ ~running)
  /\ LoadProxy(n)
Assigned(n) == runner[n] = "wait" /\ ch[n] # Null /\ LoadProxy(n)

Stopped(n) ==
  /\ ~running /\ runner[n] # "returned" /\ (runner[n] = "wait" => ch[n] = Null)
  /\ runner' = [runner EXCEPT ![n] = "returned"]
  /\ UNCHANGED <<caller, queue, proxy, nic, got, lost, running>>

\* The channel takes all of a burst but its first k packets.
Taken(n, k) == {<<proxy[n], nic[n][x]>> : x \in (k + 1)..Len(nic[n])}
Refused(n, k) == {<<proxy[n], nic[n][x]>> : x \in 1..k}

\* ... and hand it every burst.  The number of packets to recycle that the
\* channel returns is ignored.
Poll(n) ==
  /\ runner[n] = "poll" /\ running /\ nic[n] # << >>
  /\ \E k \in 0..Len(nic[n]) : got' = got \cup Taken(n, k) /\ lost' = lost \cup Refused(n, k)
  /\ nic' = [nic EXCEPT ![n] = << >>]
  /\ UNCHANGED <<caller, queue, runner, proxy, running>>

\* The channel throws: run_exclusive returns, and forgets the burst.
PollThrows(n) ==
  /\ runner[n] = "poll" /\ running /\ nic[n] # << >>
  /\ lost' = lost \cup Refused(n, Len(nic[n]))
  /\ nic' = [nic EXCEPT ![n] = << >>]
  /\ runner' = [runner EXCEPT ![n] = "returned"]
  /\ UNCHANGED <<caller, queue, proxy, got, running>>

Runner(n) == Assigned(n) \/ Stopped(n) \/ Poll(n) \/ PollThrows(n)

\* The NIC puts a packet that matches a rule into the rule's queue; nobody
\* sends to the stub endpoint.
Arrive(n) ==
  /\ Len(nic[n]) < MaxQueued
  /\ \E e \in Range(flows[n]) \ {Stub} :
          nic' = [nic EXCEPT ![n] = Append(@, e)]
  /\ UNCHANGED <<caller, queue, runner, proxy, got, lost, running>>

StopJobs ==
  /\ running /\ running' = FALSE
  /\ UNCHANGED <<caller, queue, lcore>>

Returned == pc = "idle" /\ (\A n \in Queues : runner[n] = "returned") /\ UNCHANGED vars

Next ==
  \/ \E c \in Calls : Attach(c[1], c[2])
  \/ AttachStep
  \/ \E n \in Queues : Runner(n) \/ Arrive(n)
  \/ StopJobs
  \/ Returned

\* A call that began goes on, and every queue has its own lcore.
Spec ==
  /\ Init /\ [][Next]_vars
  /\ WF_vars(AttachStep) /\ \A n \in Queues : WF_vars(Runner(n))

-----------------------------------------------------------------------------
TypeOK ==
  /\ pc \in {"idle", "scan", "reset", "destroy", "store", "route", "join"}
  /\ q \in Queues \cup {0} /\ calls \in 0..MaxCalls
  /\ call \in [ch : Channels \cup {Null}, ep : Endpoints \cup {Null}]
  /\ attached \subseteq requested /\ requested \subseteq Channels \X Endpoints
  /\ ch \in [Queues -> Channels \cup {Null}]
  /\ flows \in [Queues -> Seq(Endpoints \cup {Stub})]
  /\ \A n \in Queues : Len(flows[n]) <= calls + 1
  /\ runner \in [Queues -> {"wait", "poll", "returned"}]
  /\ proxy \in [Queues -> Channels \cup {Null}]
  /\ nic \in [Queues -> Seq(Endpoints \cup {Stub})]
  /\ running \in BOOLEAN

\* However the NIC fails, a queue without a channel has no rule but the stub,
\* and one with a channel has only rules for endpoints that channel asked for.
FlowsMatchOwner ==
  \A n \in Queues : \A e \in Range(flows[n]) :
    IF ch[n] = Null THEN e = Stub ELSE <<ch[n], e>> \in requested

\* A channel has at most one queue, however its calls fail: all its packets
\* come from one lcore.
OneQueuePerChannel == \A n, m \in Queues : ch[n] = ch[m] /\ ch[n] # Null => n = m

\* Once attach_rx succeeded on a flow queue, the rule is there and stays.
AttachedHasFlow ==
  \A p \in attached : \E n \in Queues : ch[n] = p[1] /\ p[2] \in Range(flows[n])

\* A channel is handed only packets of endpoints it asked for, taken or not, also
\* when packets reached the queue before its lcore began to poll.
OnlyRequestedDelivered == got \cup lost \subseteq requested

\* Rules, queues and deliveries match the channels: a channel has one queue,
\* whose rules are the ones it asked for and those it was told it has, and gets
\* no other packets.
QueuesMatchChannels ==
  FlowsMatchOwner /\ OneQueuePerChannel /\ AttachedHasFlow /\ OnlyRequestedDelivered

HasAttached(c) == \E e \in Endpoints : <<c, e>> \in attached
LcoreReturned(c) == \E n \in Queues : ch[n] = c /\ runner[n] = "returned"

\* A channel that attached is served by the lcore of its queue, or the jobs were
\* stopped, and what waits for it is handed to it unless its lcore has returned;
\* but only where the class of the channel has a proxy: without one the lcore of
\* its queue returns and the packets stay where they are.  After a stop every
\* lcore returns.
AttachedIsServed ==
  /\ \A c \in Proxies : HasAttached(c) ~> (\E n \in Queues : proxy[n] = c) \/ ~running
  /\ \A n \in Queues : (ch[n] \in Proxies /\ nic[n] # << >>) ~> (nic[n] = << >> \/ runner[n] = "returned")
  /\ \A c \in Channels \ Proxies : HasAttached(c) ~> LcoreReturned(c)
  /\ ~running ~> (\A n \in Queues : runner[n] = "returned")
=============================================================================
