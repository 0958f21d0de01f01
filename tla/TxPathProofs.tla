---------------------------- MODULE TxPathProofs ----------------------------
(***************************************************************************)
(* Proofs about TxPath, for any number of sinks, channels, NIC queues and  *)
(* packets, any sizes of the ring, the batch and the pools, and any loads. *)
(***************************************************************************)
EXTENDS TxPath, SequenceTheorems, TLAPS

Buf == [pool : {"packet", "header"}, len : Int]
Packet ==
  [from : Sinks, n : Int, chain : {<<>>}] \cup
  [from : UdpSenders, n : Int, chain : Seq(Buf), size : Int, segs : Nat, pktLen : Int, dgramLen : Int]

SenderTypes ==
  /\ pc \in [Threads -> {"setup", "assign", "ready", "idle", "chain", "enque"}]
  /\ \A s \in UdpSenders : pc[s] \in {"idle", "chain", "enque"}
  /\ todo \in [Threads -> Int] /\ size \in [UdpSenders -> Int] /\ left \in [UdpSenders -> Int]
  /\ head \in [UdpSenders -> Seq(Buf)]

QueueTypes ==
  /\ ring \in Seq(Packet) /\ Len(ring) <= RingSize
  /\ batch \in Seq(Packet) /\ Len(batch) <= Burst
  /\ enqueued \in Seq(Packet) /\ nic \in [NicQueues -> Seq(Packet)]
  /\ cut \in BOOLEAN

\* tx_queues_ only goes down, and as long as sinks are set up one at a time
\* the queues in use are the ones from it on.
SinkInv ==
  /\ txQueues \in 0..TxQueues /\ read \in [Sinks -> 0..TxQueues]
  /\ target \in [Sinks -> {Ring} \cup 0..(TxQueues - 1)] /\ raced \in BOOLEAN
  /\ \A s \in Sinks : pc[s] \in {"setup", "assign"} => target[s] = Ring
  /\ ~raced =>
       /\ \A s \in Sinks : pc[s] = "assign" => read[s] = txQueues
       /\ \A s, t \in Sinks : pc[s] = "assign" /\ pc[t] = "assign" => s = t
       /\ \A s \in Sinks : target[s] # Ring => target[s] >= txQueues
       /\ QueueHasOneSink

IInv == SenderTypes /\ QueueTypes /\ SinkInv /\ RingToNic

Constants ==
  /\ TxQueues \in Nat /\ Burst \in Nat \ {0} /\ RingSize \in Nat \ {0}
  /\ Room \in Nat /\ Headers \in Nat /\ Udp \in Int /\ LenWrap \in Nat \ {0} /\ Payloads \subseteq Nat
  /\ Sinks \subseteq Threads /\ UdpSenders \subseteq Threads /\ Builders \subseteq Threads
  /\ Sinks \cap UdpSenders = {} /\ Builders \cap (Sinks \cup UdpSenders) = {}

\* What the proofs use of the assumptions on the constants.
LEMMA ConstantsHold == Constants
BY UdpTxAssumption, TxPathAssumption DEF Constants, Threads

-----------------------------------------------------------------------------
\* The smaller one of two numbers.
LEMMA MinOfTwo == \A a, b \in Int : Min({a, b}) = IF a <= b THEN a ELSE b
<1>. SUFFICES ASSUME NEW a \in Int, NEW b \in Int PROVE Min({a, b}) = IF a <= b THEN a ELSE b OBVIOUS
<1>. DEFINE m == IF a <= b THEN a ELSE b
<1>1. m \in {a, b} /\ \A y \in {a, b} : m <= y OBVIOUS
<1>2. \A x \in {a, b} : (\A y \in {a, b} : x <= y) => x = m OBVIOUS
<1>. QED BY <1>1, <1>2 DEF Min

\* Appending is associative.
LEMMA Associative ==
  ASSUME NEW S, NEW x \in Seq(S), NEW y \in Seq(S), NEW z \in Seq(S)
  PROVE  (x \o y) \o z = x \o (y \o z)
BY ConcatAssociative

\* The same for packets, in the form Zenon instantiates.
LEMMA PacketsAssociate == \A x, y, z \in Seq(Packet) : (x \o y) \o z = x \o (y \o z)
<1>. SUFFICES ASSUME NEW x \in Seq(Packet), NEW y \in Seq(Packet), NEW z \in Seq(Packet)
              PROVE  (x \o y) \o z = x \o (y \o z)
  OBVIOUS
<1>. QED BY Associative

\* Taking packets from the front of the ring to the back of the batch.
LEMMA Moved ==
  ASSUME NEW S, NEW b \in Seq(S), NEW r \in Seq(S), NEW d \in 0..Len(r)
  PROVE  /\ b \o SubSeq(r, 1, d) \in Seq(S) /\ SubSeq(r, d + 1, Len(r)) \in Seq(S)
         /\ (b \o SubSeq(r, 1, d)) \o SubSeq(r, d + 1, Len(r)) = b \o r
         /\ Len(b \o SubSeq(r, 1, d)) = Len(b) + d /\ Len(SubSeq(r, d + 1, Len(r))) = Len(r) - d
<1>. DEFINE a == SubSeq(r, 1, d)
            g == SubSeq(r, d + 1, Len(r))
<1>1. a \in Seq(S) /\ Len(a) = d /\ \A k \in 1..d : a[k] = r[k] OBVIOUS
<1>2. g \in Seq(S) /\ Len(g) = Len(r) - d /\ \A k \in 1..(Len(r) - d) : g[k] = r[k + d] OBVIOUS
<1>. HIDE DEF a, g
<1>3. a \o g \in Seq(S) /\ Len(a \o g) = Len(r)
      /\ \A k \in 1..Len(r) : (a \o g)[k] = IF k <= d THEN a[k] ELSE g[k - d]
  BY <1>1, <1>2, ConcatProperties
<1>4. \A k \in 1..Len(r) : k > d => k - d \in 1..(Len(r) - d) /\ (k - d) + d = k OBVIOUS
<1>5. \A k \in 1..Len(r) : (a \o g)[k] = r[k] BY <1>1, <1>2, <1>3, <1>4
<1>6. a \o g = r BY <1>3, <1>5, SeqEqual
<1>7. b \o a \in Seq(S) /\ Len(b \o a) = Len(b) + d BY <1>1, ConcatProperties
<1>9. (b \o a) \o g = b \o (a \o g)
  <2>1. a \in Seq(S) /\ g \in Seq(S) BY <1>1, <1>2
  <2>2. \A x, y, z \in Seq(S) : (x \o y) \o z = x \o (y \o z)
    <3>. SUFFICES ASSUME NEW x \in Seq(S), NEW y \in Seq(S), NEW z \in Seq(S)
                  PROVE  (x \o y) \o z = x \o (y \o z)
      OBVIOUS
    <3>. QED BY Associative
  <2>. QED BY <2>1, <2>2, Zenon
<1>8. (b \o a) \o g = b \o r BY <1>6, <1>9
<1>. QED BY <1>2, <1>7, <1>8, Zenon DEF a, g

\* What was appended is the rest behind the old sequence.
LEMMA BehindIsTail ==
  ASSUME NEW S, NEW r \in Seq(S), NEW t \in Seq(S)
  PROVE  SubSeq(r \o t, Len(r) + 1, Len(r \o t)) = t
<1>. DEFINE c == r \o t
            u == SubSeq(c, Len(r) + 1, Len(c))
<1>1. /\ c \in Seq(S) /\ Len(c) = Len(r) + Len(t) /\ Len(r) \in Nat /\ Len(t) \in Nat
      /\ \A k \in 1..(Len(r) + Len(t)) : c[k] = IF k <= Len(r) THEN r[k] ELSE t[k - Len(r)]
  BY ConcatProperties, LenProperties
<1>. HIDE DEF c
<1>2. u \in Seq(S) /\ Len(u) = Len(t) /\ \A k \in 1..Len(t) : u[k] = c[k + Len(r)] BY <1>1
<1>. HIDE DEF u
<1>3. \A k \in 1..Len(t) : k + Len(r) \in 1..(Len(r) + Len(t)) /\ ~(k + Len(r) <= Len(r)) /\ (k + Len(r)) - Len(r) = k
  BY <1>1
<1>4. \A k \in 1..Len(t) : u[k] = t[k] BY <1>1, <1>2, <1>3
<1>5. u = t BY <1>2, <1>4, SeqEqual
<1>. QED BY <1>5 DEF u, c

\* What comes behind the ring comes behind all the ring accepted.
LEMMA Behind ==
  ASSUME IInv, NEW t \in Seq(Packet), ring' = ring \o t, enqueued' = enqueued \o t,
         UNCHANGED <<batch, cut>>, nic'[RingQueue] = nic[RingQueue]
  PROVE  RingToNic' /\ enqueued' \in Seq(Packet) /\ ring' \in Seq(Packet)
<1>. DEFINE m == nic[RingQueue] \o batch
<1>1. /\ nic[RingQueue] \in Seq(Packet) /\ batch \in Seq(Packet) /\ ring \in Seq(Packet)
      /\ enqueued \in Seq(Packet)
  BY ConstantsHold DEF IInv, QueueTypes, NicQueues, RingQueue, Constants
<1>2. m \in Seq(Packet) BY <1>1, ConcatProperties
<1>3. ring' \in Seq(Packet) /\ Len(ring') = Len(ring) + Len(t) BY <1>1, ConcatProperties
<1>4. enqueued' \in Seq(Packet) /\ Len(enqueued') = Len(enqueued) + Len(t) BY <1>1, ConcatProperties
<1>5. BatchAccounting'
  <2>. DEFINE e == Len(enqueued)
             n == Len(nic[RingQueue])
             b == Len(batch)
             r == Len(ring)
             k == Len(t)
  <2>1. e = n + b + r BY DEF IInv, RingToNic, BatchAccounting
  <2>2. e \in Nat /\ n \in Nat /\ b \in Nat /\ r \in Nat /\ k \in Nat BY <1>1, LenProperties
  <2>3. Len(ring') = r + k /\ Len(enqueued') = e + k BY <1>3, <1>4
  <2>. HIDE DEF e, n, b, r, k
  <2>4. e + k = n + b + (r + k) BY <2>1, <2>2
  <2>5. Len(enqueued') = n + b + Len(ring') BY <2>3, <2>4
  <2>. QED BY <2>5 DEF BatchAccounting, n, b
<1>6. ASSUME ~cut PROVE enqueued' = m \o ring'
  <2>1. enqueued = m \o ring BY <1>6 DEF IInv, RingToNic, RingToNicFifo
  <2>. HIDE DEF m
  <2>2. ring \in Seq(Packet) /\ t \in Seq(Packet) BY <1>1
  <2>4. (m \o ring) \o t = m \o (ring \o t) BY <1>2, <2>2, PacketsAssociate, Zenon
  <2>. QED BY <2>1, <2>4
<1>. QED BY <1>3, <1>4, <1>5, <1>6 DEF RingToNic, RingToNicFifo

\* The invariant holds before anything is sent.
LEMMA InitStep == Init => IInv
<1>. SUFFICES ASSUME Init PROVE IInv OBVIOUS
<1>. USE ConstantsHold DEF Constants
<1>1. SenderTypes
  <2>1. todo \in [Threads -> Nat] BY TxPathAssumption DEF Init
  <2>. QED BY <2>1 DEF Init, UdpInit, SenderTypes
<1>2. QueueTypes
  <2>1. <<>> \in Seq(Packet) /\ Len(<<>>) = 0 OBVIOUS
  <2>2. ring = <<>> /\ batch = <<>> /\ enqueued = <<>> /\ cut = FALSE /\ nic = [k \in NicQueues |-> <<>>]
    BY DEF Init, UdpInit
  <2>3. nic \in [NicQueues -> Seq(Packet)] BY <2>1, <2>2
  <2>4. Len(ring) <= RingSize /\ Len(batch) <= Burst BY <2>1, <2>2
  <2>. QED BY <2>1, <2>2, <2>3, <2>4 DEF QueueTypes
<1>3. SinkInv
  <2>1. \A s \in Sinks : pc[s] = "setup" /\ target[s] = Ring BY DEF Init
  <2>2. read \in [Sinks -> 0..TxQueues] /\ target \in [Sinks -> {Ring} \cup 0..(TxQueues - 1)] BY DEF Init
  <2>3. txQueues = TxQueues /\ raced = FALSE BY DEF Init
  <2>4. /\ \A s \in Sinks : pc[s] # "assign"
        /\ \A s \in Sinks : target[s] # Ring => target[s] >= txQueues
        /\ QueueHasOneSink
    BY <2>1 DEF QueueHasOneSink
  <2>5. txQueues \in 0..TxQueues BY <2>3
  <2>. QED BY <2>1, <2>2, <2>3, <2>4, <2>5 DEF SinkInv
<1>4. RingToNic
  <2>1. nic[RingQueue] = <<>> BY DEF Init, NicQueues, RingQueue
  <2>. QED BY <2>1 DEF Init, UdpInit, RingToNic, RingToNicFifo, BatchAccounting
<1>. QED BY <1>1, <1>2, <1>3, <1>4 DEF IInv

\* Setting up a sink.
LEMMA SetupStep ==
  ASSUME IInv, NEW s \in Sinks, SetupRead(s) \/ SetupAssign(s)
  PROVE  IInv'
<1>. USE ConstantsHold DEF Constants, Goto
<1>0. SenderTypes /\ QueueTypes /\ SinkInv /\ RingToNic BY DEF IInv
<1>1. UNCHANGED <<todo, size, left, head, ring, batch, nic, cut, enqueued>>
  BY DEF SetupRead, SetupAssign, jobVars
<1>2. SenderTypes' BY <1>0, <1>1 DEF SenderTypes, SetupRead, SetupAssign
<1>3. QueueTypes' /\ RingToNic'
  BY <1>0, <1>1 DEF QueueTypes, RingToNic, RingToNicFifo, BatchAccounting
<1>4. CASE SetupRead(s)
  <2>0. /\ pc[s] = "setup" /\ raced' = (raced \/ \E t \in Sinks : pc[t] = "assign")
        /\ read' = [read EXCEPT ![s] = txQueues] /\ pc' = [pc EXCEPT ![s] = "assign"]
        /\ UNCHANGED <<txQueues, target>>
    BY <1>4 DEF SetupRead
  <2>1. pc'[s] = "assign" /\ \A t \in Sinks : t # s => pc'[t] = pc[t] BY <1>0, <2>0 DEF SenderTypes
  <2>2. read'[s] = txQueues /\ \A t \in Sinks : t # s => read'[t] = read[t] BY <1>0, <2>0 DEF SinkInv
  <2>3. /\ txQueues' \in 0..TxQueues /\ read' \in [Sinks -> 0..TxQueues] /\ raced' \in BOOLEAN
        /\ target' \in [Sinks -> {Ring} \cup 0..(TxQueues - 1)]
    BY <1>0, <2>0 DEF SinkInv
  <2>4. \A t \in Sinks : pc'[t] \in {"setup", "assign"} => target'[t] = Ring
    BY <1>0, <2>0, <2>1 DEF SinkInv
  <2>5. ASSUME ~raced' PROVE
          /\ \A t \in Sinks : pc'[t] = "assign" => read'[t] = txQueues'
          /\ \A t, u \in Sinks : pc'[t] = "assign" /\ pc'[u] = "assign" => t = u
          /\ \A t \in Sinks : target'[t] # Ring => target'[t] >= txQueues'
          /\ QueueHasOneSink'
    <3>1. ~raced /\ \A t \in Sinks : pc[t] # "assign" BY <2>0, <2>5
    <3>2. \A t \in Sinks : pc'[t] = "assign" => t = s BY <2>1, <3>1
    <3>3. /\ \A t \in Sinks : target'[t] # Ring => target'[t] >= txQueues'
          /\ QueueHasOneSink'
      BY <1>0, <2>0, <3>1 DEF SinkInv, QueueHasOneSink
    <3>. QED BY <2>0, <2>2, <3>2, <3>3
  <2>6. SinkInv' BY <2>3, <2>4, <2>5 DEF SinkInv
  <2>. QED BY <1>2, <1>3, <2>6 DEF IInv
<1>5. CASE SetupAssign(s)
  <2>0. /\ pc[s] = "assign" /\ UNCHANGED <<read, raced>> /\ pc' = [pc EXCEPT ![s] = "ready"]
        /\ IF read[s] # 0 THEN txQueues' = read[s] - 1 /\ target' = [target EXCEPT ![s] = read[s] - 1]
           ELSE UNCHANGED <<txQueues, target>>
    BY <1>5 DEF SetupAssign, StillFree, Chosen
  <2>1. pc'[s] = "ready" /\ \A t \in Sinks : t # s => pc'[t] = pc[t] BY <1>0, <2>0 DEF SenderTypes
  <2>2. read[s] \in 0..TxQueues /\ target[s] = Ring BY <1>0, <2>0 DEF SinkInv
  <2>3. ASSUME read[s] = 0 PROVE SinkInv'
    <3>1. UNCHANGED <<read, raced, txQueues, target>> BY <2>0, <2>3
    <3>2. \A t \in Sinks : pc'[t] = pc[t] \/ pc'[t] = "ready" BY <2>1
    <3>. QED BY <1>0, <3>1, <3>2 DEF SinkInv, QueueHasOneSink
  <2>4. ASSUME read[s] # 0 PROVE SinkInv'
    <3>1. txQueues' = read[s] - 1 /\ target'[s] = read[s] - 1 /\ read[s] - 1 \in 0..(TxQueues - 1)
          /\ \A t \in Sinks : t # s => target'[t] = target[t]
      BY <1>0, <2>0, <2>2, <2>4 DEF SinkInv
    <3>2. target' \in [Sinks -> {Ring} \cup 0..(TxQueues - 1)] BY <1>0, <2>0, <2>4, <3>1 DEF SinkInv
    <3>3. ASSUME ~raced PROVE
            /\ \A t \in Sinks : pc'[t] # "assign"
            /\ \A t \in Sinks : target'[t] # Ring => target'[t] >= txQueues'
            /\ \A t, u \in Sinks : target'[t] # Ring /\ target'[t] = target'[u] => t = u
      <4>1. read[s] = txQueues /\ \A t \in Sinks : pc[t] = "assign" => t = s
        BY <1>0, <2>0, <3>3 DEF SinkInv
      <4>2. \A t \in Sinks : target[t] # Ring => target[t] >= txQueues /\ target[t] \in Int
        BY <1>0, <3>3 DEF SinkInv
      <4>3. \A t, u \in Sinks : target[t] # Ring /\ target[t] = target[u] => t = u
        BY <1>0, <3>3 DEF SinkInv, QueueHasOneSink
      <4>4. \A t \in Sinks : t # s /\ target[t] # Ring => target[t] # read[s] - 1
        BY <2>2, <4>1, <4>2
      <4>. QED BY <2>1, <2>2, <3>1, <4>1, <4>2, <4>3, <4>4
    <3>. QED BY <1>0, <2>0, <2>1, <3>1, <3>2, <3>3 DEF SinkInv, QueueHasOneSink
  <2>5. SinkInv' BY <2>3, <2>4
  <2>. QED BY <1>2, <1>3, <2>5 DEF IInv
<1>. QED BY <1>4, <1>5

\* A sender moves itself only.
LEMMA OnlySender ==
  ASSUME SenderTypes, NEW s \in UdpSenders, NEW l \in {"idle", "chain", "enque"}, pc' = [pc EXCEPT ![s] = l]
  PROVE  /\ pc' \in [Threads -> {"setup", "assign", "ready", "idle", "chain", "enque"}]
         /\ \A t \in UdpSenders : pc'[t] \in {"idle", "chain", "enque"}
         /\ \A t \in Sinks : pc'[t] = pc[t]
BY ConstantsHold DEF Constants, SenderTypes

\* Nothing but the tx queues of the sinks or the ring depends on a call of send.
LEMMA SenderStep ==
  ASSUME IInv, NEW s \in UdpSenders, ChannelNext(s)
  PROVE  IInv'
<1>. USE ConstantsHold DEF Constants, Goto
<1>0. SenderTypes /\ QueueTypes /\ SinkInv /\ RingToNic BY DEF IInv
<1>1. UNCHANGED <<txQueues, read, target, raced, batch, nic, cut>> BY DEF ChannelNext, sinkVars, jobVars
<1>2. SenderTypes' /\ \A t \in Sinks : pc'[t] = pc[t]
  <2>1. ASSUME NEW p \in Payloads, Send(s, p) PROVE SenderTypes' /\ \A t \in Sinks : pc'[t] = pc[t]
    <3>1. Buffer("header", Headers) \in Buf /\ Buffer("packet", Headers + p) \in Buf BY DEF Buffer, Buf
    <3>2. <<Buffer("header", Headers)>> \in Seq(Buf) /\ <<Buffer("packet", Headers + p)>> \in Seq(Buf) BY <3>1
    <3>3. head' \in [UdpSenders -> Seq(Buf)] 
      <4>1. \/ head' = [head EXCEPT ![s] = <<Buffer("header", Headers)>>]
            \/ head' = [head EXCEPT ![s] = <<Buffer("packet", Headers + p)>>]
        BY <2>1 DEF Send
      <4>. QED BY <1>0, <3>2, <4>1 DEF SenderTypes
    <3>4. todo' \in [Threads -> Int] /\ size' \in [UdpSenders -> Int] /\ left' \in [UdpSenders -> Int]
      BY <1>0, <2>1 DEF SenderTypes, Send
    <3>5. pc' = [pc EXCEPT ![s] = "chain"] \/ pc' = [pc EXCEPT ![s] = "enque"] BY <2>1 DEF Send
    <3>. QED BY <1>0, <3>3, <3>4, <3>5, OnlySender DEF SenderTypes
  <2>2. ASSUME NEW p \in Payloads, SendFails(s, p) PROVE SenderTypes' /\ \A t \in Sinks : pc'[t] = pc[t]
    BY <1>0, <2>2 DEF SenderTypes, SendFails
  <2>3. ASSUME AddSegment(s) PROVE SenderTypes' /\ \A t \in Sinks : pc'[t] = pc[t]
    <3>. DEFINE n == Copied(left[s])
    <3>1. left[s] \in Int /\ n \in Int BY <1>0 DEF SenderTypes, Copied
    <3>2. Buffer("packet", n) \in Buf BY <3>1 DEF Buffer, Buf
    <3>3. head' = [head EXCEPT ![s] = Append(head[s], Buffer("packet", n))] /\ left' = [left EXCEPT ![s] = left[s] - n]
          /\ (pc' = [pc EXCEPT ![s] = "chain"] \/ pc' = [pc EXCEPT ![s] = "enque"]) /\ UNCHANGED <<size, todo>>
      BY <2>3 DEF AddSegment
    <3>. HIDE DEF n
    <3>4. Append(head[s], Buffer("packet", n)) \in Seq(Buf) BY <1>0, <3>2 DEF SenderTypes
    <3>5. head' \in [UdpSenders -> Seq(Buf)] BY <1>0, <3>3, <3>4 DEF SenderTypes
    <3>6. left' \in [UdpSenders -> Int] BY <1>0, <3>1, <3>3 DEF SenderTypes
    <3>. QED BY <1>0, <3>3, <3>5, <3>6, OnlySender DEF SenderTypes
  <2>4. ASSUME AddFails(s) \/ Enque(s) PROVE SenderTypes' /\ \A t \in Sinks : pc'[t] = pc[t]
    <3>1. head' = [head EXCEPT ![s] = <<>>] /\ pc' = [pc EXCEPT ![s] = "idle"] /\ UNCHANGED <<size, left, todo>>
      BY <2>4 DEF AddFails, Enque
    <3>2. head' \in [UdpSenders -> Seq(Buf)] BY <1>0, <3>1 DEF SenderTypes
    <3>. QED BY <1>0, <3>1, <3>2 DEF SenderTypes
  <2>. QED BY <2>1, <2>2, <2>3, <2>4 DEF ChannelNext, UdpNext, UdpStep
<1>3. SinkInv' BY <1>0, <1>1, <1>2 DEF SinkInv, QueueHasOneSink
<1>4. \E t \in Seq(Packet) : ring' = ring \o t /\ Len(ring) + Len(t) <= RingSize
  <2>0. ring \in Seq(Packet) /\ Len(ring) <= RingSize /\ Len(ring) \in Nat BY <1>0 DEF QueueTypes
  <2>1. CASE UNCHANGED ring
    <3>1. ring = ring \o <<>> BY <2>0, ConcatEmptySeq
    <3>2. <<>> \in Seq(Packet) /\ Len(ring) + Len(<<>>) <= RingSize BY <2>0
    <3>. QED BY <2>1, <3>1, <3>2
  <2>2. CASE Len(ring) < RingSize /\ ring' = Append(ring, Datagram(s))
    <3>1. /\ todo[s] \in Int /\ head[s] \in Seq(Buf) /\ size[s] \in Int /\ Len(head[s]) \in Nat
          /\ Headers + size[s] \in Int /\ (Udp + size[s]) % LenWrap \in Int
      BY <1>0 DEF SenderTypes
    <3>2. Datagram(s) \in Packet BY <3>1 DEF Datagram, Packet
    <3>3. Append(ring, Datagram(s)) = ring \o <<Datagram(s)>> BY <2>0, <3>2
    <3>4. <<Datagram(s)>> \in Seq(Packet) /\ Len(<<Datagram(s)>>) = 1 BY <3>2
    <3>5. Len(ring) + Len(<<Datagram(s)>>) <= RingSize BY <2>0, <2>2, <3>4
    <3>. QED BY <2>2, <3>3, <3>4, <3>5
  <2>. QED BY <2>1, <2>2 DEF ChannelNext, UdpNext, UdpStep, Send, SendFails, AddSegment, AddFails, Enque
<1>5. PICK t \in Seq(Packet) : ring' = ring \o t /\ Len(ring) + Len(t) <= RingSize BY <1>4
<1>6. SubSeq(ring', Len(ring) + 1, Len(ring')) = t
  <2>0. ring \in Seq(Packet) BY <1>0 DEF QueueTypes
  <2>. QED BY <2>0, <1>5, BehindIsTail
<1>7. enqueued' = enqueued \o t BY <1>6 DEF ChannelNext
<1>8. QueueTypes' /\ RingToNic'
  <2>1. RingToNic' /\ enqueued' \in Seq(Packet) /\ ring' \in Seq(Packet) BY <1>1, <1>5, <1>7, Behind
  <2>2. Len(ring') <= RingSize
    <3>1. ring \in Seq(Packet) BY <1>0 DEF QueueTypes
    <3>2. Len(ring \o t) = Len(ring) + Len(t) BY <3>1, ConcatProperties
    <3>. QED BY <1>5, <3>2
  <2>. QED BY <1>0, <1>1, <2>1, <2>2 DEF QueueTypes
<1>. QED BY <1>2, <1>3, <1>8 DEF IInv

\* The packets of a sink.
LEMMA PacketsOfSink ==
  ASSUME SenderTypes, NEW s \in Sinks, NEW n \in Nat
  PROVE  Packets(s, n) \in Seq(Packet) /\ Len(Packets(s, n)) = n
<1>1. todo[s] \in Int BY ConstantsHold DEF Constants, SenderTypes
<1>2. \A x \in 1..n : [from |-> s, n |-> todo[s] - x, chain |-> <<>>] \in Packet BY <1>1 DEF Packet
<1>. QED BY <1>2 DEF Packets

\* A sink hands packets to the ring or to its queue.
LEMMA SinkStep ==
  ASSUME IInv, NEW s \in Sinks, NEW n \in 1..2, RingEnque(s, n) \/ TxBurst(s, n)
  PROVE  IInv'
<1>. USE ConstantsHold DEF Constants
<1>0. SenderTypes /\ QueueTypes /\ SinkInv /\ RingToNic BY DEF IInv
<1>1. UNCHANGED <<pc, size, left, head, txQueues, read, target, raced, batch, cut>>
  BY DEF RingEnque, TxBurst, sinkVars, jobVars
<1>2. SinkInv' BY <1>0, <1>1 DEF SinkInv, QueueHasOneSink
<1>3. CASE RingEnque(s, n)
  <2>. DEFINE k == Fits(n)
             t == Packets(s, k)
  <2>1. k \in Nat /\ Len(ring) + k <= RingSize
    <3>1. Len(ring) \in Nat /\ Len(ring) <= RingSize BY <1>0 DEF QueueTypes
    <3>2. RingSize - Len(ring) \in Nat BY <3>1
    <3>3. k = IF n <= RingSize - Len(ring) THEN n ELSE RingSize - Len(ring) BY <3>2, MinOfTwo DEF Fits
    <3>. HIDE DEF k
    <3>. QED BY <3>1, <3>2, <3>3
  <2>. HIDE DEF k
  <2>2. t \in Seq(Packet) /\ Len(t) = k BY <1>0, <2>1, PacketsOfSink
  <2>3. ring' = ring \o t /\ enqueued' = enqueued \o t /\ todo' = [todo EXCEPT ![s] = todo[s] - Len(t)]
        /\ UNCHANGED nic
    BY <1>3 DEF RingEnque, jobVars, k
  <2>. HIDE DEF t
  <2>4. SenderTypes' BY <1>0, <1>1, <2>1, <2>2, <2>3 DEF SenderTypes
  <2>5. RingToNic' /\ enqueued' \in Seq(Packet) /\ ring' \in Seq(Packet)
    BY <1>1, <2>2, <2>3, Behind
  <2>6. Len(ring') <= RingSize
    <3>1. ring \in Seq(Packet) BY <1>0 DEF QueueTypes
    <3>2. Len(ring \o t) = Len(ring) + Len(t) BY <2>2, <3>1, ConcatProperties
    <3>. QED BY <2>1, <2>2, <2>3, <3>2
  <2>. QED BY <1>0, <1>1, <1>2, <2>3, <2>4, <2>5, <2>6 DEF IInv, QueueTypes
<1>4. CASE TxBurst(s, n)
  <2>. DEFINE t == Packets(s, n)
  <2>1. t \in Seq(Packet) BY <1>0, PacketsOfSink
  <2>2. /\ nic' = [nic EXCEPT ![target[s]] = nic[target[s]] \o t] /\ target[s] # Ring
        /\ todo' = [todo EXCEPT ![s] = todo[s] - n] /\ UNCHANGED <<ring, enqueued>>
    BY <1>4 DEF TxBurst
  <2>. HIDE DEF t
  <2>3. target[s] \in NicQueues /\ target[s] # RingQueue /\ RingQueue \in NicQueues
    BY <1>0, <2>2 DEF SinkInv, NicQueues, RingQueue
  <2>4. nic[target[s]] \o t \in Seq(Packet)
    <3>1. nic[target[s]] \in Seq(Packet) BY <1>0, <2>3 DEF QueueTypes
    <3>. QED BY <2>1, <3>1, ConcatProperties
  <2>5. nic' \in [NicQueues -> Seq(Packet)] /\ nic'[RingQueue] = nic[RingQueue]
    BY <1>0, <2>2, <2>3, <2>4 DEF QueueTypes
  <2>6. SenderTypes' BY <1>0, <1>1, <2>2 DEF SenderTypes
  <2>7. QueueTypes' BY <1>0, <1>1, <2>2, <2>5 DEF QueueTypes
  <2>8. RingToNic' BY <1>0, <1>1, <2>2, <2>5 DEF RingToNic, RingToNicFifo, BatchAccounting
  <2>. QED BY <1>2, <2>6, <2>7, <2>8 DEF IInv
<1>. QED BY <1>3, <1>4

\* The tx job moves packets from the ring to the batch and to the NIC.
LEMMA ProcessStep ==
  ASSUME IInv, Process
  PROVE  IInv'
<1>. USE ConstantsHold DEF Constants
<1>0. SenderTypes /\ QueueTypes /\ SinkInv /\ RingToNic BY DEF IInv
<1>. DEFINE d == Dequeued
            f == batch \o SubSeq(ring, 1, d)
            g == SubSeq(ring, d + 1, Len(ring))
            n == nic[RingQueue]
<1>1. /\ ring \in Seq(Packet) /\ batch \in Seq(Packet) /\ n \in Seq(Packet) /\ RingQueue \in NicQueues
      /\ Len(ring) \in Nat /\ Len(batch) \in Nat /\ Len(batch) <= Burst /\ Len(ring) <= RingSize
  BY <1>0 DEF QueueTypes, NicQueues, RingQueue
<1>2. d \in 0..Len(ring) /\ Len(batch) + d <= Burst
  <2>1. d = IF Burst - Len(batch) <= Len(ring) THEN Burst - Len(batch) ELSE Len(ring)
    BY <1>1, MinOfTwo DEF Dequeued
  <2>. HIDE DEF d
  <2>. QED BY <1>1, <2>1
<1>3. PICK sent \in 0..Len(f) :
        /\ ring' = g /\ nic' = [nic EXCEPT ![RingQueue] = n \o SubSeq(f, 1, sent)]
        /\ batch' = SubSeq(f, 1, Len(f) - sent) /\ cut' = (cut \/ sent \notin {0, Len(f)})
  BY DEF Process, Remaining
<1>4. UNCHANGED <<pc, todo, size, left, head, txQueues, read, target, raced, enqueued>> BY DEF Process, sinkVars
<1>. HIDE DEF d
<1>5. /\ f \in Seq(Packet) /\ g \in Seq(Packet) /\ f \o g = batch \o ring
      /\ Len(f) = Len(batch) + d /\ Len(g) = Len(ring) - d
  <2>1. ring \in Seq(Packet) /\ batch \in Seq(Packet) /\ d \in 0..Len(ring) BY <1>1, <1>2
  <2>2. \A b, r \in Seq(Packet) : \A k \in 0..Len(r) :
          /\ b \o SubSeq(r, 1, k) \in Seq(Packet) /\ SubSeq(r, k + 1, Len(r)) \in Seq(Packet)
          /\ (b \o SubSeq(r, 1, k)) \o SubSeq(r, k + 1, Len(r)) = b \o r
          /\ Len(b \o SubSeq(r, 1, k)) = Len(b) + k /\ Len(SubSeq(r, k + 1, Len(r))) = Len(r) - k
    BY Moved, Zenon
  <2>. QED BY <2>1, <2>2, Zenon
<1>. HIDE DEF f, g
<1>6. /\ SubSeq(f, 1, sent) \in Seq(Packet) /\ Len(SubSeq(f, 1, sent)) = sent
      /\ SubSeq(f, 1, Len(f) - sent) \in Seq(Packet) /\ Len(SubSeq(f, 1, Len(f) - sent)) = Len(f) - sent
      /\ Len(f) \in Nat
  BY <1>5
<1>. HIDE DEF n
<1>7. n \o SubSeq(f, 1, sent) \in Seq(Packet) /\ Len(n \o SubSeq(f, 1, sent)) = Len(n) + sent
  BY <1>1, <1>6, ConcatProperties
<1>8. SenderTypes' /\ SinkInv' BY <1>0, <1>4 DEF SenderTypes, SinkInv, QueueHasOneSink
<1>9. nic' \in [NicQueues -> Seq(Packet)] /\ nic'[RingQueue] = n \o SubSeq(f, 1, sent)
  BY <1>0, <1>1, <1>3, <1>7 DEF QueueTypes
<1>10. QueueTypes'
  <2>3. Len(batch') = Len(f) - sent /\ Len(f) = Len(batch) + d BY <1>3, <1>5, <1>6
  <2>4. Len(ring') = Len(ring) - d BY <1>3, <1>5
  <2>5. Len(batch') <= Burst BY <1>1, <1>2, <1>6, <2>3
  <2>6. Len(ring') <= RingSize BY <1>1, <1>2, <2>4
  <2>1. Len(batch') <= Burst /\ Len(ring') <= RingSize BY <2>5, <2>6
  <2>2. cut' \in BOOLEAN BY <1>3
  <2>. QED BY <1>0, <1>3, <1>4, <1>5, <1>6, <1>9, <2>1, <2>2 DEF QueueTypes
<1>11. BatchAccounting'
  <2>1. Len(enqueued) = Len(n) + Len(batch) + Len(ring) BY <1>0 DEF RingToNic, BatchAccounting, n
  <2>2. Len(n) \in Nat BY <1>1
  <2>. DEFINE x == Len(n)
             y == Len(batch)
             z == Len(ring)
  <2>3. /\ Len(nic'[RingQueue]) = x + sent /\ Len(ring') = z - d
        /\ Len(batch') = Len(f) - sent /\ Len(f) = y + d
    BY <1>3, <1>5, <1>6, <1>7, <1>9, Zenon
  <2>5. x \in Nat /\ y \in Nat /\ z \in Nat /\ d \in Nat /\ sent \in Nat BY <1>1, <1>2, <1>6, <2>2
  <2>. HIDE DEF x, y, z
  <2>6. x + y + z = (x + sent) + ((y + d) - sent) + (z - d) BY <2>5
  <2>4. Len(enqueued) = Len(nic'[RingQueue]) + Len(batch') + Len(ring')
    BY <2>1, <2>3, <2>6, Zenon DEF x, y, z
  <2>. QED BY <1>4, <2>4 DEF BatchAccounting
<1>12. ASSUME ~cut' PROVE enqueued' = nic'[RingQueue] \o batch' \o ring'
  <2>1. ~cut /\ sent \in {0, Len(f)} BY <1>3, <1>12
  <2>2. enqueued = n \o batch \o ring BY <1>0, <2>1 DEF RingToNic, RingToNicFifo, n
  <2>8. n \in Seq(Packet) /\ batch \in Seq(Packet) /\ ring \in Seq(Packet) BY <1>1
  <2>9. f \in Seq(Packet) /\ g \in Seq(Packet) BY <1>5
  <2>3. (n \o batch) \o ring = n \o (batch \o ring) BY <2>8, PacketsAssociate, Zenon
  <2>4. (n \o f) \o g = n \o (f \o g)
    <3>1. \A x, y \in Seq(Packet) : (n \o x) \o y = n \o (x \o y) BY <2>8, PacketsAssociate, Zenon
    <3>. HIDE DEF f, g, n
    <3>. QED BY <2>9, <3>1, Zenon
  <2>5. enqueued = n \o f \o g BY <1>5, <2>2, <2>3, <2>4, Zenon
  <2>6. CASE sent = 0
    <3>1. SubSeq(f, 1, sent) = <<>> /\ SubSeq(f, 1, Len(f) - sent) = f BY <1>5, <1>6, <2>6, SubSeqFull, SubSeqEmpty
    <3>2. n \o <<>> = n BY <1>1, ConcatEmptySeq
    <3>. QED BY <1>3, <1>4, <1>9, <2>5, <3>1, <3>2
  <2>7. CASE sent = Len(f)
    <3>1. SubSeq(f, 1, sent) = f /\ SubSeq(f, 1, Len(f) - sent) = <<>> BY <1>5, <1>6, <2>7, SubSeqFull, SubSeqEmpty
    <3>2. n \o f \in Seq(Packet) BY <1>1, <1>5, ConcatProperties
    <3>3. (n \o f) \o <<>> = n \o f BY <3>2, ConcatEmptySeq
    <3>. QED BY <1>3, <1>4, <1>9, <2>5, <3>1, <3>3
  <2>. QED BY <2>1, <2>6, <2>7
<1>. QED BY <1>8, <1>10, <1>11, <1>12 DEF IInv, RingToNic, RingToNicFifo

\* The driver and the constructors of channels leave all this alone.
LEMMA OtherStep ==
  ASSUME IInv, TxComplete \/ NewChannel \/ UNCHANGED vars
  PROVE  IInv'
<1>. USE ConstantsHold DEF Constants
<1>1. /\ UNCHANGED <<pc, size, left, head, ring, txQueues, read, target, raced, batch, nic, cut, enqueued>>
      /\ UNCHANGED todo \/ \E b \in Builders : todo' = [todo EXCEPT ![b] = @ - 1]
  BY DEF TxComplete, NewChannel, vars, udpVars, sinkVars, jobVars, Channels!Next, Channels!Construct,
         Channels!TakePort, Channels!MakePool, Channels!Throw, Channels!pools
<1>2. todo' \in [Threads -> Int] BY <1>1 DEF IInv, SenderTypes
<1>. QED BY <1>1, <1>2
       DEF IInv, SenderTypes, QueueTypes, SinkInv, QueueHasOneSink, RingToNic, RingToNicFifo, BatchAccounting

-----------------------------------------------------------------------------
\* Every step keeps the invariant.
LEMMA NextStep == IInv /\ [Next]_vars => IInv'
BY SetupStep, SenderStep, SinkStep, ProcessStep, OtherStep DEF Next, SinkNext, Idle

\* However the calls of sinks and channels interleave with the tx job, which
\* retries what the NIC does not take, the NIC's queue, the batch and the ring
\* hold as many packets as the ring accepted, and exactly those in their order
\* as long as batches are taken whole.
THEOREM RingToNicHolds == Spec => []RingToNic
<1>1. IInv => RingToNic BY DEF IInv
<1>. QED BY <1>1, InitStep, NextStep, PTL DEF Spec

\* No sink gets the queue of the ring, whatever races there are for tx_queues_,
\* and no two sinks the same one unless they were set up at the same time.
THEOREM QueueUsers == Spec => []QueueHasOneUser
<1>1. IInv => QueueHasOneUser
  <2>. SUFFICES ASSUME IInv PROVE QueueHasOneUser OBVIOUS
  <2>1. QueueHasOneSink BY DEF IInv, SinkInv, QueueHasOneSink
  <2>2. SinkAvoidsRingQueue BY ConstantsHold DEF Constants, IInv, SinkInv, SinkAvoidsRingQueue, RingQueue, Ring
  <2>. QED BY <2>1, <2>2 DEF QueueHasOneUser
<1>. QED BY <1>1, InitStep, NextStep, PTL DEF Spec
=============================================================================
