-------------------------- MODULE FlowQueueProofs --------------------------
(***************************************************************************)
(* Proofs about FlowQueue, for any number of queues, channels, endpoints,  *)
(* calls and failures of the NIC.                                          *)
(***************************************************************************)
EXTENDS FlowQueue, FiniteSetTheorems, WellFoundedInduction, TLAPS

Rules == Seq(Endpoints \cup {Stub})

Types ==
  /\ pc \in {"idle", "scan", "reset", "destroy", "store", "route", "join"}
  /\ call \in [ch : Channels \cup {Null}, ep : Endpoints \cup {Null}]
  /\ q \in Queues \cup {0}
  /\ requested \subseteq Channels \X Endpoints /\ attached \subseteq requested
  /\ ch \in [Queues -> Channels \cup {Null}] /\ flows \in [Queues -> Rules]
  /\ runner \in [Queues -> {"wait", "poll", "returned"}]
  /\ proxy \in [Queues -> Channels \cup {Null}] /\ nic \in [Queues -> Rules]

\* Where attach_rx is, and what it has established: the queue it resets is
\* nobody's, and its channel has none yet; the queue it routes to is its own.
CallInv ==
  /\ pc # "idle" => <<call.ch, call.ep>> \in requested
  /\ pc \in {"reset", "destroy", "store"} =>
       q \in Queues /\ ch[q] = Null /\ \A n \in Queues : ch[n] # call.ch
  /\ pc = "store" => flows[q] = << >>
  /\ pc \in {"route", "join"} => q \in Queues /\ ch[q] = call.ch
  /\ pc = "join" => call.ep \in Range(flows[q])

\* A packet waits only in a queue with a channel that asked for it, and the lcore
\* that polls serves that channel.
QueueInv ==
  \A n \in Queues :
    /\ \A e \in Range(nic[n]) : ch[n] # Null /\ <<ch[n], e>> \in requested
    /\ runner[n] = "poll" => ch[n] # Null /\ proxy[n] = ch[n]

IInv == Types /\ CallInv /\ QueueInv /\ QueuesMatchChannels

-----------------------------------------------------------------------------
\* What the model's sequence operators do to the set of elements.
LEMMA RangeFacts ==
  ASSUME NEW S, NEW s \in Seq(S)
  PROVE  /\ Range(s) \subseteq S
         /\ \A x \in S : Append(s, x) \in Seq(S) /\ Range(Append(s, x)) = Range(s) \cup {x}
         /\ s # << >> => Front(s) \in Seq(S) /\ Range(Front(s)) \subseteq Range(s)
<1>0. DOMAIN s = 1..Len(s) /\ Len(s) \in Nat OBVIOUS
<1>1. Range(s) \subseteq S BY <1>0 DEF Range
<1>2. ASSUME NEW x \in S PROVE Append(s, x) \in Seq(S) /\ Range(Append(s, x)) = Range(s) \cup {x}
  <2>1. Append(s, x) \in Seq(S) /\ DOMAIN Append(s, x) = 1..(Len(s) + 1) OBVIOUS
  <2>2. \A k \in 1..Len(s) : Append(s, x)[k] = s[k] OBVIOUS
  <2>3. Append(s, x)[Len(s) + 1] = x OBVIOUS
  <2>4. 1..(Len(s) + 1) = (1..Len(s)) \cup {Len(s) + 1} BY <1>0
  <2>. QED BY <1>0, <2>1, <2>2, <2>3, <2>4 DEF Range
<1>3. ASSUME s # << >> PROVE Front(s) \in Seq(S) /\ Range(Front(s)) \subseteq Range(s)
  <2>1. Front(s) \in Seq(S) /\ DOMAIN Front(s) = 1..(Len(s) - 1) BY <1>0, <1>3 DEF Front
  <2>2. \A k \in 1..(Len(s) - 1) : Front(s)[k] = s[k] BY <1>0, <1>3 DEF Front
  <2>. QED BY <1>0, <2>1, <2>2 DEF Range
<1>. QED BY <1>1, <1>2, <1>3

\* The rules reset() leaves are among the ones it found.
LEMMA KeptFacts ==
  ASSUME NEW S, NEW s \in Seq(S), NEW kept \in SUBSET DOMAIN s
  PROVE  LET t == SetToSeq({s[n] : n \in kept})
         IN  t \in Seq(S) /\ Range(t) \subseteq Range(s)
<1>. DEFINE T == {s[n] : n \in kept}
            f == [n \in kept |-> s[n]]
            t == SetToSeq(T)
<1>1. IsFiniteSet(DOMAIN s) /\ T \subseteq S /\ T \subseteq Range(s) BY FS_Interval DEF Range
<1>2. IsFiniteSet(kept) BY <1>1, FS_Subset
<1>3. f \in Surjection(kept, T) BY DEF Surjection
<1>. HIDE DEF T, f
<1>5. IsFiniteSet(T) BY <1>2, <1>3, FS_Surjection
<1>6. Cardinality(T) \in Nat /\ ExistsBijection(1..Cardinality(T), T) BY <1>5, FS_CardinalityType
<1>7. PICK g \in [1..Cardinality(T) -> T] : IsInjective(g)
  BY <1>6 DEF ExistsBijection, Bijection, Injection
<1>8. t \in [1..Cardinality(T) -> T] BY <1>7 DEF SetToSeq
<1>. HIDE DEF t
<1>9. t \in Seq(T) /\ DOMAIN t = 1..Cardinality(T) BY <1>6, <1>8
<1>10. Range(t) \subseteq T BY <1>8 DEF Range
<1>11. t \in Seq(S) BY <1>1, <1>6, <1>8
<1>. QED BY <1>1, <1>10, <1>11 DEF T, t

-----------------------------------------------------------------------------
\* find_if returns one of the queues it looks for.
LEMMA FirstIsMember == \A S \in SUBSET Queues : S # {} => First(S) \in S
<1>. SUFFICES ASSUME NEW S \in SUBSET Queues, S # {} PROVE First(S) \in S OBVIOUS
<1>1. S \in SUBSET Nat BY DEF Queues
<1>3. PICK n \in S : \A m \in S : ~(<<m, n>> \in OpToRel(<, Nat))
  BY <1>1, NatLessThanWellFounded, WFMin
<1>4. \A m \in S : ~(m < n) BY <1>1, <1>3 DEF OpToRel
<1>5. \A m \in S : n <= m BY <1>1, <1>4
<1>2. \E k \in S : \A m \in S : k <= m BY <1>5
<1>. QED BY <1>2 DEF First

\* The invariant holds when the queues are started.
LEMMA InitStep == Init => IInv
<1>. SUFFICES ASSUME Init PROVE IInv OBVIOUS
<1>. USE FlowAssumption
<1>1. Types BY DEF Init, Types, Rules, Stub
<1>2. CallInv BY DEF Init, CallInv
<1>3. \A n \in Queues : Range(nic[n]) = {} /\ Range(flows[n]) = {Stub} BY DEF Init, Range
<1>4. QueueInv BY <1>3 DEF Init, QueueInv
<1>5. QueuesMatchChannels
  BY <1>3 DEF Init, QueuesMatchChannels, FlowsMatchOwner, OneQueuePerChannel, AttachedHasFlow,
              OnlyRequestedDelivered
<1>. QED BY <1>1, <1>2, <1>4, <1>5 DEF IInv

\* A step of attach_rx before it changes a queue.
LEMMA CallerStep ==
  ASSUME IInv, (\E c \in Calls : Attach(c[1], c[2])) \/ Scan \/ Join
  PROVE  IInv'
<1>. USE FlowAssumption DEF Fail, At, queue, lcore
<1>0. Types /\ CallInv /\ QueueInv /\ FlowsMatchOwner /\ OneQueuePerChannel /\ AttachedHasFlow /\ OnlyRequestedDelivered
  BY DEF IInv, QueuesMatchChannels
<1>1. ASSUME NEW c \in Calls, Attach(c[1], c[2]) PROVE IInv'
  <2>0. /\ c[1] \in Channels /\ c[2] \in Endpoints /\ <<c[1], c[2]>> \in Channels \X Endpoints
        /\ pc' = "scan" /\ call' = [ch |-> c[1], ep |-> c[2]]
        /\ requested' = requested \cup {<<c[1], c[2]>>}
        /\ UNCHANGED <<q, attached, ch, flows, runner, proxy, nic, got, lost, running>>
    BY <1>1 DEF Attach
  <2>1. Types' BY <1>0, <2>0 DEF Types
  <2>2. CallInv' BY <2>0 DEF CallInv
  <2>3. QueueInv' BY <1>0, <2>0 DEF QueueInv
  <2>4. (FlowsMatchOwner /\ OneQueuePerChannel /\ AttachedHasFlow /\ OnlyRequestedDelivered)'
    BY <1>0, <2>0 DEF FlowsMatchOwner, OneQueuePerChannel, AttachedHasFlow, OnlyRequestedDelivered
  <2>. QED BY <2>1, <2>2, <2>3, <2>4 DEF IInv, QueuesMatchChannels
<1>2. ASSUME Scan PROVE IInv'
  <2>0. UNCHANGED <<call, calls, attached, requested, ch, flows, runner, proxy, nic, got, lost, running>> /\ pc = "scan"
    BY <1>2 DEF Scan
  <2>1. Own # {} => First(Own) \in Own BY FirstIsMember DEF Own
  <2>2. Free # {} => First(Free) \in Free BY FirstIsMember DEF Free
  <2>3. Types' BY <1>0, <1>2, <2>0, <2>1, <2>2 DEF Types, Scan, Own, Free
  <2>4. CallInv' BY <1>0, <1>2, <2>0, <2>1, <2>2 DEF CallInv, Scan, Own, Free
  <2>5. QueueInv' BY <1>0, <2>0 DEF QueueInv
  <2>6. (FlowsMatchOwner /\ OneQueuePerChannel /\ AttachedHasFlow /\ OnlyRequestedDelivered)'
    BY <1>0, <2>0 DEF FlowsMatchOwner, OneQueuePerChannel, AttachedHasFlow, OnlyRequestedDelivered
  <2>. QED BY <2>3, <2>4, <2>5, <2>6 DEF IInv, QueuesMatchChannels
<1>3. ASSUME Join PROVE IInv'
  <2>0. /\ UNCHANGED <<call, q, calls, requested, ch, flows, runner, proxy, nic, got, lost, running>>
        /\ pc = "join" /\ pc' = "idle" /\ attached' \subseteq attached \cup {<<call.ch, call.ep>>}
    BY <1>3 DEF Join
  <2>1. Types' BY <1>0, <2>0 DEF Types, CallInv
  <2>2. CallInv' BY <2>0 DEF CallInv
  <2>3. QueueInv' BY <1>0, <2>0 DEF QueueInv
  <2>4. AttachedHasFlow'
    <3>. SUFFICES ASSUME NEW p \in attached' PROVE \E n \in Queues : ch[n] = p[1] /\ p[2] \in Range(flows[n])
      BY <2>0 DEF AttachedHasFlow
    <3>1. CASE p \in attached BY <1>0, <3>1 DEF AttachedHasFlow
    <3>2. CASE p = <<call.ch, call.ep>> BY <1>0, <2>0, <3>2 DEF CallInv
    <3>. QED BY <2>0, <3>1, <3>2
  <2>5. (FlowsMatchOwner /\ OneQueuePerChannel /\ OnlyRequestedDelivered)'
    BY <1>0, <2>0 DEF FlowsMatchOwner, OneQueuePerChannel, OnlyRequestedDelivered
  <2>. QED BY <2>1, <2>2, <2>3, <2>4, <2>5 DEF IInv, QueuesMatchChannels
<1>. QED BY <1>1, <1>2, <1>3

\* A step that changes the rules or the owner of the queue attach_rx works on.
LEMMA RuleStep ==
  ASSUME IInv, Reset \/ Destroy \/ Store \/ Route
  PROVE  IInv'
<1>. USE FlowAssumption DEF Fail, At, queue, lcore
<1>0. Types /\ CallInv /\ QueueInv /\ FlowsMatchOwner /\ OneQueuePerChannel /\ AttachedHasFlow /\ OnlyRequestedDelivered
  BY DEF IInv, QueuesMatchChannels
<1>1. q \in Queues /\ flows[q] \in Rules /\ <<call.ch, call.ep>> \in requested
      /\ call.ch \in Channels /\ call.ep \in Endpoints /\ call.ch # Null
  BY <1>0 DEF CallInv, Types, Reset, Destroy, Store, Route
<1>2. UNCHANGED <<call, q, calls, attached, requested, runner, proxy, nic, got, lost, running>>
  BY DEF Reset, Destroy, Store, Route
<1>3. OnlyRequestedDelivered' BY <1>0, <1>2 DEF OnlyRequestedDelivered
<1>4. ASSUME NEW s \in Rules, Range(s) \subseteq Range(flows[q]), ch[q] = Null,
             flows' = [flows EXCEPT ![q] = s], ch' = ch,
             pc' \in {"destroy", "store", "idle"}, pc \in {"reset", "destroy"},
             pc' = "store" => s = << >>
      PROVE  IInv'
  <2>1. Types' BY <1>0, <1>1, <1>2, <1>4 DEF Types
  <2>2. flows'[q] = s /\ \A n \in Queues : n # q => flows'[n] = flows[n]
    BY <1>0, <1>1, <1>4 DEF Types
  <2>3. CallInv' BY <1>0, <1>1, <1>2, <1>4, <2>2 DEF CallInv
  <2>4. QueueInv' BY <1>0, <1>2, <1>4 DEF QueueInv
  <2>5. FlowsMatchOwner' BY <1>0, <1>1, <1>2, <1>4, <2>2 DEF FlowsMatchOwner
  <2>6. AttachedHasFlow'
    <3>1. \A p \in attached : p[1] # Null BY <1>0 DEF Types
    <3>. QED BY <1>0, <1>2, <1>4, <2>2, <3>1 DEF AttachedHasFlow
  <2>7. OneQueuePerChannel' BY <1>0, <1>4 DEF OneQueuePerChannel
  <2>. QED BY <1>3, <2>1, <2>3, <2>4, <2>5, <2>6, <2>7 DEF IInv, QueuesMatchChannels
<1>5. CASE Reset
  <2>1. PICK kept \in SUBSET DOMAIN flows[q] :
          flows' = [flows EXCEPT ![q] = SetToSeq({flows[q][n] : n \in kept})]
    BY <1>5 DEF Reset
  <2>. DEFINE s == SetToSeq({flows[q][n] : n \in kept})
  <2>2. s \in Rules /\ Range(s) \subseteq Range(flows[q]) BY <1>1, KeptFacts DEF Rules
  <2>3. ch[q] = Null /\ ch' = ch /\ pc' = "destroy" /\ pc = "reset" BY <1>0, <1>5 DEF Reset, CallInv
  <2>. HIDE DEF s
  <2>4. flows' = [flows EXCEPT ![q] = s] BY <2>1 DEF s
  <2>. QED BY <1>4, <2>2, <2>3, <2>4
<1>6. CASE Destroy
  <2>1. ch[q] = Null /\ ch' = ch /\ pc = "destroy" BY <1>0, <1>6 DEF Destroy, CallInv
  <2>2. CASE flows[q] # << >> /\ flows' = [flows EXCEPT ![q] = Front(flows[q])] /\ pc' = "destroy"
    <3>1. Front(flows[q]) \in Rules /\ Range(Front(flows[q])) \subseteq Range(flows[q])
      BY <1>1, <2>2, RangeFacts DEF Rules
    <3>. QED BY <1>4, <2>1, <2>2, <3>1
  <2>3. CASE UNCHANGED flows /\ pc' \in {"store", "idle"} /\ (pc' = "store" => flows[q] = << >>)
    <3>1. flows' = [flows EXCEPT ![q] = flows[q]] BY <1>0, <2>3 DEF Types
    <3>. QED BY <1>1, <1>4, <2>1, <2>3, <3>1
  <2>. QED BY <1>6, <2>2, <2>3 DEF Destroy
<1>7. CASE Store
  <2>0. /\ ch' = [ch EXCEPT ![q] = call.ch] /\ pc' = "route" /\ UNCHANGED flows
        /\ ch[q] = Null /\ flows[q] = << >> /\ \A n \in Queues : ch[n] # call.ch
    BY <1>0, <1>7 DEF Store, CallInv
  <2>1. Types' BY <1>0, <1>1, <1>2, <2>0 DEF Types
  <2>2. ch'[q] = call.ch /\ \A n \in Queues : n # q => ch'[n] = ch[n] BY <1>0, <1>1, <2>0 DEF Types
  <2>3. CallInv' BY <1>1, <1>2, <2>0, <2>2 DEF CallInv
  <2>4. QueueInv'
    <3>1. Range(nic[q]) = {} /\ runner[q] # "poll" BY <1>0, <1>1, <2>0 DEF QueueInv
    <3>. SUFFICES ASSUME NEW n \in Queues
                  PROVE  /\ \A e \in Range(nic[n]) : ch'[n] # Null /\ <<ch'[n], e>> \in requested
                         /\ runner[n] = "poll" => ch'[n] # Null /\ proxy[n] = ch'[n]
      BY <1>2 DEF QueueInv
    <3>2. CASE n = q BY <3>1, <3>2
    <3>3. CASE n # q BY <1>0, <2>2, <3>3 DEF QueueInv
    <3>. QED BY <3>2, <3>3
  <2>5. FlowsMatchOwner'
    <3>1. Range(flows[q]) = {} BY <2>0 DEF Range
    <3>. QED BY <1>0, <1>2, <2>0, <2>2, <3>1 DEF FlowsMatchOwner
  <2>6. AttachedHasFlow'
    <3>1. \A p \in attached : p[1] # Null BY <1>0 DEF Types
    <3>. QED BY <1>0, <1>2, <2>0, <2>2, <3>1 DEF AttachedHasFlow
  <2>7. OneQueuePerChannel' BY <1>0, <2>0, <2>2 DEF OneQueuePerChannel
  <2>. QED BY <1>3, <2>1, <2>3, <2>4, <2>5, <2>6, <2>7 DEF IInv, QueuesMatchChannels
<1>8. CASE Route
  <2>0. ch' = ch /\ ch[q] = call.ch /\ pc = "route" BY <1>0, <1>8 DEF Route, CallInv
  <2>1. CASE UNCHANGED flows /\ pc' = "idle"
    BY <1>0, <1>1, <1>2, <1>3, <2>0, <2>1
       DEF IInv, Types, CallInv, QueueInv, QueuesMatchChannels, FlowsMatchOwner, OneQueuePerChannel, AttachedHasFlow
  <2>2. CASE flows' = [flows EXCEPT ![q] = Append(flows[q], call.ep)] /\ pc' = "join"
    <3>0. flows[q] \in Seq(Endpoints \cup {Stub}) /\ call.ep \in Endpoints \cup {Stub} BY <1>1 DEF Rules
    <3>1. Append(flows[q], call.ep) \in Rules
          /\ Range(Append(flows[q], call.ep)) = Range(flows[q]) \cup {call.ep}
      <4>1. \A x \in Endpoints \cup {Stub} : /\ Append(flows[q], x) \in Seq(Endpoints \cup {Stub})
                                            /\ Range(Append(flows[q], x)) = Range(flows[q]) \cup {x}
        BY <3>0, RangeFacts, Zenon
      <4>. QED BY <3>0, <4>1, Zenon DEF Rules
    <3>2. Types' BY <1>0, <1>1, <1>2, <2>0, <2>2, <3>1 DEF Types
    <3>3. /\ Range(flows'[q]) = Range(flows[q]) \cup {call.ep}
          /\ \A n \in Queues : n # q => flows'[n] = flows[n]
      BY <1>0, <1>1, <2>2, <3>1 DEF Types
    <3>4. CallInv' BY <1>1, <1>2, <2>0, <2>2, <3>3 DEF CallInv
    <3>5. QueueInv' BY <1>0, <1>2, <2>0 DEF QueueInv
    <3>6. FlowsMatchOwner' BY <1>0, <1>1, <1>2, <2>0, <3>3 DEF FlowsMatchOwner
    <3>7. AttachedHasFlow' BY <1>0, <1>2, <2>0, <3>3 DEF AttachedHasFlow
    <3>8. OneQueuePerChannel' BY <1>0, <2>0 DEF OneQueuePerChannel
    <3>. QED BY <1>3, <3>2, <3>4, <3>5, <3>6, <3>7, <3>8 DEF IInv, QueuesMatchChannels
  <2>. QED BY <1>8, <2>1, <2>2 DEF Route
<1>. QED BY <1>5, <1>6, <1>7, <1>8

\* A step of an lcore, of the NIC or of stop_jobs().
LEMMA QueueStep ==
  ASSUME IInv, (\E n \in Queues : Runner(n) \/ Arrive(n)) \/ StopJobs \/ UNCHANGED vars
  PROVE  IInv'
<1>. USE FlowAssumption DEF caller, queue, lcore
<1>0. Types /\ CallInv /\ QueueInv /\ FlowsMatchOwner /\ OneQueuePerChannel /\ AttachedHasFlow /\ OnlyRequestedDelivered
  BY DEF IInv, QueuesMatchChannels
<1>1. UNCHANGED <<caller, queue>>
  BY DEF Runner, Assigned, LoadProxy, Stopped, Poll, PollThrows, Arrive, StopJobs, vars
<1>2. CallInv' /\ FlowsMatchOwner' /\ OneQueuePerChannel' /\ AttachedHasFlow'
  BY <1>0, <1>1 DEF CallInv, FlowsMatchOwner, OneQueuePerChannel, AttachedHasFlow
<1>3. ASSUME NEW n \in Queues, Assigned(n) \/ Stopped(n) PROVE IInv'
  <2>0. UNCHANGED <<nic, got, lost>> BY <1>3 DEF Assigned, LoadProxy, Stopped
  <2>1. Types' BY <1>0, <1>1, <1>3, <2>0 DEF Types, Assigned, LoadProxy, Stopped
  <2>2. QueueInv' BY <1>0, <1>1, <1>3, <2>0 DEF QueueInv, Types, Assigned, LoadProxy, Stopped
  <2>3. OnlyRequestedDelivered' BY <1>0, <1>1, <2>0 DEF OnlyRequestedDelivered
  <2>. QED BY <1>2, <2>1, <2>2, <2>3 DEF IInv, QueuesMatchChannels
<1>4. ASSUME NEW n \in Queues, Poll(n) \/ PollThrows(n) PROVE IInv'
  <2>. DEFINE Burst == {<<proxy[n], e>> : e \in Range(nic[n])}
  <2>0. /\ nic' = [nic EXCEPT ![n] = << >>] /\ UNCHANGED proxy /\ runner[n] = "poll"
        /\ runner' = runner \/ runner' = [runner EXCEPT ![n] = "returned"]
    BY <1>4 DEF Poll, PollThrows
  <2>1. Types'
    <3>1. << >> \in Rules BY DEF Rules
    <3>2. nic' \in [Queues -> Rules] BY <1>0, <2>0, <3>1 DEF Types
    <3>3. runner' \in [Queues -> {"wait", "poll", "returned"}] BY <1>0, <2>0 DEF Types
    <3>. QED BY <1>0, <1>1, <2>0, <3>2, <3>3 DEF Types
  <2>2. Range(nic'[n]) = {} /\ \A m \in Queues : m # n => nic'[m] = nic[m]
    BY <1>0, <2>0 DEF Types, Range
  <2>3. QueueInv' BY <1>0, <1>1, <2>0, <2>2 DEF QueueInv, Types
  <2>4. got' \cup lost' \subseteq got \cup lost \cup Burst
    <3>1. Len(nic[n]) \in Nat /\ DOMAIN nic[n] = 1..Len(nic[n]) BY <1>0 DEF Types, Rules
    <3>2. \A k \in 0..Len(nic[n]) : Taken(n, k) \subseteq Burst /\ Refused(n, k) \subseteq Burst
      BY <3>1 DEF Taken, Refused, Range
    <3>3. CASE Poll(n) BY <3>2, <3>3 DEF Poll
    <3>4. CASE PollThrows(n)
      <4>1. Refused(n, Len(nic[n])) \subseteq Burst BY <3>1, <3>2
      <4>. QED BY <3>4, <4>1 DEF PollThrows
    <3>. QED BY <1>4, <3>3, <3>4
  <2>5. Burst \subseteq requested BY <1>0, <2>0 DEF QueueInv
  <2>. HIDE DEF Burst
  <2>6. OnlyRequestedDelivered' BY <1>0, <1>1, <2>4, <2>5 DEF OnlyRequestedDelivered
  <2>. QED BY <1>2, <2>1, <2>3, <2>6 DEF IInv, QueuesMatchChannels
<1>5. ASSUME NEW n \in Queues, Arrive(n) PROVE IInv'
  <2>0. PICK e \in Range(flows[n]) \ {Stub} : nic' = [nic EXCEPT ![n] = Append(nic[n], e)]
    BY <1>5 DEF Arrive
  <2>1. nic[n] \in Seq(Endpoints \cup {Stub}) /\ flows[n] \in Seq(Endpoints \cup {Stub})
    BY <1>0 DEF Types, Rules
  <2>2. e \in Endpoints \cup {Stub}
    <3>1. Range(flows[n]) \subseteq Endpoints \cup {Stub} BY <2>1, RangeFacts, Zenon
    <3>. QED BY <3>1
  <2>3. /\ Append(nic[n], e) \in Seq(Endpoints \cup {Stub})
        /\ Range(Append(nic[n], e)) = Range(nic[n]) \cup {e}
    <3>1. \A x \in Endpoints \cup {Stub} : /\ Append(nic[n], x) \in Seq(Endpoints \cup {Stub})
                                          /\ Range(Append(nic[n], x)) = Range(nic[n]) \cup {x}
      BY <2>1, RangeFacts, Zenon
    <3>. QED BY <2>2, <3>1, Zenon
  <2>4. UNCHANGED <<runner, proxy, got, lost>> BY <1>5 DEF Arrive
  <2>5. Types' BY <1>0, <1>1, <2>0, <2>3, <2>4 DEF Types, Rules
  <2>6. ch[n] # Null /\ <<ch[n], e>> \in requested BY <1>0, <2>0 DEF FlowsMatchOwner
  <2>7. /\ Range(nic'[n]) = Range(nic[n]) \cup {e}
        /\ \A m \in Queues : m # n => nic'[m] = nic[m]
    BY <1>0, <2>0, <2>3 DEF Types
  <2>8. QueueInv' BY <1>0, <1>1, <2>4, <2>6, <2>7 DEF QueueInv
  <2>9. OnlyRequestedDelivered' BY <1>0, <1>1, <2>4 DEF OnlyRequestedDelivered
  <2>. QED BY <1>2, <2>5, <2>8, <2>9 DEF IInv, QueuesMatchChannels
<1>6. CASE UNCHANGED lcore
  BY <1>0, <1>1, <1>2, <1>6 DEF IInv, Types, QueueInv, QueuesMatchChannels, OnlyRequestedDelivered
<1>. QED BY <1>3, <1>4, <1>5, <1>6 DEF Runner, StopJobs, vars

-----------------------------------------------------------------------------
\* However attach_rx, the lcores and the NIC interleave, and whichever rule
\* operations fail, rules, queues and deliveries match the channels.
THEOREM QueuesMatch == Spec => []QueuesMatchChannels
<1>1. IInv /\ [Next]_vars => IInv'
  BY CallerStep, RuleStep, QueueStep DEF Next, AttachStep, Returned
<1>2. IInv => QueuesMatchChannels BY DEF IInv
<1>. QED BY <1>1, <1>2, InitStep, PTL DEF Spec
=============================================================================
