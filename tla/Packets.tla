------------------------------ MODULE Packets ------------------------------
(***************************************************************************)
(* What a test packet holds: the sockperf header (sockperf.hpp), the       *)
(* numbers in it (x.hpp), the headers around it (mbuf.cpp), the template   *)
(* configure_sockperf_packet_pool copies into every buffer of the pool and *)
(* what prepare_packet does to a buffer before it is sent.  A payload is a *)
(* sequence of bytes.  A checksum is the tuple of what it covers, so that  *)
(* two are equal only if they cover the same.                              *)
(***************************************************************************)
EXTENDS Integers, Sequences

CONSTANTS
  ByteWrap,                        \* values of a byte (256)
  SeqnBytes, TypeBytes, SizeBytes, \* bytes of seqn_t, type, message_size_t (8, 2, 4)
  QueueShift, WarmupMask,          \* 2^56, 2^63
  SeqnKept,                        \* numbers split_seqn tells apart (2^28)
  Ether, Ip4, Udp,                 \* bytes of the headers (14, 20, 8)
  LenWrap,                         \* values of a length (2^16)
  PayloadSize                      \* the option payload-size

HeaderSize == SeqnBytes + TypeBytes + SizeBytes

\* run() raises the payload size to the size of the header; a packet's length
\* has 16 bits.
ASSUME PacketAssumption ==
  /\ {SeqnBytes, TypeBytes, SizeBytes, Ether, Ip4, Udp} \subseteq Nat \ {0}
  /\ ByteWrap \in Nat \ {0, 1} /\ SeqnKept \in 1..QueueShift /\ WarmupMask \in Nat \ {0}
  /\ PayloadSize \in Nat /\ PayloadSize >= HeaderSize /\ PayloadSize < ByteWrap^SizeBytes
  /\ Ether + Ip4 + Udp + PayloadSize < LenWrap

-----------------------------------------------------------------------------
\* native_to_big_inplace and memcpy: the most significant byte comes first.
Store(p, at, width, v) ==
  [k \in DOMAIN p |-> IF k \in (at + 1)..(at + width)
                      THEN (v \div ByteWrap^(at + width - k)) % ByteWrap ELSE p[k]]

\* memcpy and big_to_native.
Load(p, at, width) ==
  LET upto[k \in 0..width] == IF k = 0 THEN 0 ELSE upto[k - 1] * ByteWrap + p[at + k]
  IN upto[width]

Pong == 2
Ping == 3

SetSeqn(v, p) == Store(p, 0, SeqnBytes, v)
Seqn(p) == Load(p, 0, SeqnBytes)
SetMessageType(t, p) == Store(p, SeqnBytes, TypeBytes, t)
MessageType(p) == Load(p, SeqnBytes, TypeBytes)
SetMessageSize(n, p) == Store(p, SeqnBytes + TypeBytes, SizeBytes, n)
MessageSize(p) == Load(p, SeqnBytes + TypeBytes, SizeBytes)

\* The top bit marks warm-up packets, the top byte is the tx queue.
IsWarmup(s) == (s \div WarmupMask) % 2 = 1
WarmupSeqn(s) == IF IsWarmup(s) THEN s ELSE s + WarmupMask
MakeSeqn(queue, s) == queue * QueueShift + s
SplitSeqn(s) == [queue |-> s \div QueueShift, seqn |-> s % SeqnKept]

-----------------------------------------------------------------------------
NoCksum == <<>>

\* The zeroed rte_mbuf and data the template is built in.
FakeBuffer ==
  [ether |-> [type |-> "", src |-> "", dst |-> ""],
   ip4 |-> [len |-> 0, ttl |-> "", proto |-> "", src |-> "", dst |-> "", cksum |-> NoCksum],
   udp |-> [len |-> 0, src |-> "", dst |-> "", cksum |-> NoCksum],
   payload |-> [k \in 1..PayloadSize |-> 0],
   l2 |-> 0, l3 |-> 0, l4 |-> 0, len |-> 0, flags |-> {}]

MakeEther(b, type, n) ==
  [b EXCEPT !.ether.type = type, !.l2 = Ether, !.len = (Ether + n) % LenWrap, !.flags = {}]

MakeIpv4(b, proto, n) ==
  [MakeEther(b, "ipv4", Ip4 + n) EXCEPT
     !.ip4.len = (Ip4 + n) % LenWrap, !.ip4.ttl = "default", !.ip4.proto = proto,
     !.ip4.cksum = NoCksum, !.l3 = Ip4]

MakeUdp(b, n) ==
  [MakeIpv4(b, "udp", Udp + n) EXCEPT !.udp.len = (Udp + n) % LenWrap, !.udp.cksum = NoCksum, !.l4 = Udp]

\* rte_ipv4_cksum, rte_ipv4_phdr_cksum and rte_ipv4_udptcp_cksum.  Each covers
\* the checksum field it will be written to.
Ip4Cksum(b) == <<"ip4", b.ip4>>
PhdrCksum(b) == <<"phdr", b.ip4.src, b.ip4.dst, b.ip4.proto, b.ip4.len>>
UdpCksum(b) == <<"udp", PhdrCksum(b), b.udp, b.payload>>

Flags(offloads) ==
  (IF "ipv4" \in offloads THEN {"ipv4", "ip_cksum"} ELSE {})
    \cup (IF "udp" \in offloads THEN {"udp_cksum"} ELSE {})

\* Addresses, ports and time to live of the template, before its checksums.
Addressed ==
  [MakeUdp(FakeBuffer, PayloadSize) EXCEPT
     !.ether.src = "nic", !.ether.dst = "peer", !.ip4.src = "nic", !.ip4.dst = "peer",
     !.ip4.ttl = "ttl", !.udp.dst = "dst_port", !.udp.src = "next_src_port"]

WithIp4Cksum(b, offloads) == IF "ipv4" \in offloads THEN b ELSE [b EXCEPT !.ip4.cksum = Ip4Cksum(b)]

\* The template, which every buffer of the pool gets.
Template(offloads) ==
  LET b == WithIp4Cksum(Addressed, offloads)
  IN [b EXCEPT
        !.udp.cksum = IF "udp" \in offloads THEN PhdrCksum(b) ELSE UdpCksum(b),
        !.payload = SetMessageSize(PayloadSize, SetMessageType(Ping, SetSeqn(0, @)))]

\* memcpy copies the headers and the payload, rte_pktmbuf_alloc clears the rest.
Allocated(b) == [b EXCEPT !.l2 = 0, !.l3 = 0, !.l4 = 0, !.len = 0, !.flags = {}]

PrepareHeaders(b, flags) ==
  [b EXCEPT !.l2 = Ether, !.l3 = Ip4, !.l4 = Udp, !.len = (Ether + Ip4 + Udp + PayloadSize) % LenWrap,
            !.flags = flags]

\* prepare_packet: numbers the packet and renews the UDP checksum.
PreparePacket(b, s, flags) ==
  LET numbered == [PrepareHeaders(b, flags) EXCEPT !.payload = SetMessageType(Ping, SetSeqn(s, @))]
      cleared == [numbered EXCEPT !.udp.cksum = NoCksum]
  IN [cleared EXCEPT !.udp.cksum = IF "udp_cksum" \in flags THEN PhdrCksum(cleared) ELSE UdpCksum(cleared)]

-----------------------------------------------------------------------------
\* A NIC computes the checksums the flags ask for; it adds up a UDP packet onto
\* the sum of the pseudo header.
OnWire(b) ==
  LET ip4 == [b EXCEPT !.ip4.cksum = NoCksum]
      udp == [b EXCEPT !.udp.cksum = NoCksum]
  IN [b EXCEPT
        !.ip4.cksum = IF "ip_cksum" \in b.flags THEN Ip4Cksum(ip4) ELSE @,
        !.udp.cksum = IF "udp_cksum" \notin b.flags THEN @
                      ELSE IF @ = PhdrCksum(b) THEN UdpCksum(udp) ELSE <<"wrong">>]

\* What the receiving host demands of a packet.
Accepted(b) ==
  /\ b.ip4.cksum = Ip4Cksum([b EXCEPT !.ip4.cksum = NoCksum])
  /\ b.udp.cksum = UdpCksum([b EXCEPT !.udp.cksum = NoCksum])
  /\ b.len = Ether + b.ip4.len /\ b.ip4.len = Ip4 + b.udp.len
  /\ b.udp.len = Udp + MessageSize(b.payload) /\ MessageSize(b.payload) = Len(b.payload)

\* The server sends the payload back as a pong.
Reply(p) == SetMessageType(Pong, p)

\* What sockperf_channel::enqueue takes a payload for.
MessageOf(p) ==
  IF MessageType(p) \notin {Ping, Pong} THEN [class |-> "ignored"]
  ELSE IF IsWarmup(Seqn(p)) THEN [class |-> "warmup", seqn |-> Seqn(p)]
  ELSE [class |-> "test", packet |-> SplitSeqn(Seqn(p))]
=============================================================================
