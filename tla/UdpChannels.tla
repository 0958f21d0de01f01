---------------------------- MODULE UdpChannels ----------------------------
(***************************************************************************)
(* The constructor of updtx_channel, called by several threads for one     *)
(* device: it takes a source port (SrcPort) and makes two pools named      *)
(* after it.  A pool is never freed, and rte_pktmbuf_pool_create refuses a *)
(* name in use, so that the names keep apart channels whose ports the      *)
(* counter does not.                                                       *)
(***************************************************************************)
EXTENDS Integers, Sequences, FiniteSets

CONSTANTS
  Builders,    \* threads that construct channels
  FirstPorts,  \* configured next_src_port
  PortWrap

VARIABLES
  first, next, at, res,  \* of SrcPort
  todo,      \* channels each thread has still to construct
  made,      \* pools the constructor each thread is in has made
  named,     \* the pools there are: kind and port
  channels,  \* src_port_ of every channel constructed
  clashed,   \* a constructor threw because a name was in use
  wrapped    \* the counter has wrapped around

Port == INSTANCE SrcPort WITH Callers <- Builders

pools == <<made, named, channels, clashed>>
vars == <<first, next, at, res, todo, pools, wrapped>>

Init ==
  /\ \E f \in FirstPorts : Port!Init(f)
  /\ made = [b \in Builders |-> 0]
  /\ named = {} /\ channels = <<>> /\ clashed = FALSE /\ wrapped = FALSE

Construct(b) ==
  /\ todo[b] > 0 /\ Port!Call(b)
  /\ todo' = [todo EXCEPT ![b] = @ - 1] /\ made' = [made EXCEPT ![b] = 0]
  /\ UNCHANGED <<named, channels, clashed, wrapped>>

TakePort(b) ==
  /\ Port!Step(b)
  /\ wrapped' = (wrapped \/ next' < next)
  /\ UNCHANGED <<todo, pools>>

\* port_id + ':' + src_port_, behind "packet_pool_" and then "header_pool_"
Name(b) == <<made[b], res[b]>>

\* The next pool is made; after the second one the channel is there.
MakePool(b) ==
  /\ at[b] = "returned" /\ Name(b) \notin named
  /\ named' = named \cup {Name(b)} /\ made' = [made EXCEPT ![b] = @ + 1]
  /\ IF made[b] = 0 THEN UNCHANGED <<first, next, at, res, channels>>
     ELSE Port!Return(b) /\ channels' = Append(channels, res[b])
  /\ UNCHANGED <<todo, clashed, wrapped>>

\* The constructor throws: the name is in use, or there is no memory.  A pool it
\* has made stays.
Throw(b) ==
  /\ Port!Return(b)
  /\ clashed' = (clashed \/ Name(b) \in named)
  /\ UNCHANGED <<todo, made, named, channels, wrapped>>

Next == \E b \in Builders : Construct(b) \/ TakePort(b) \/ MakePool(b) \/ Throw(b)

TypeOK ==
  /\ Port!TypeOK /\ made \in [Builders -> 0..2]
  /\ named \subseteq (0..1) \X (0..(PortWrap - 1)) /\ {clashed, wrapped} \subseteq BOOLEAN

\* No two channels of a device send from the same port, even after the counter
\* has wrapped around and gives ports to two callers: replies to one channel do
\* not go to the other.
OwnPorts == \A x, y \in DOMAIN channels : channels[x] = channels[y] => x = y

\* Until the counter wraps around, every port is at or above the configured one
\* and no constructor fails because another channel has its port.
PortsFromConfigured ==
  ~wrapped => ~clashed /\ \A x \in DOMAIN channels : channels[x] >= first

\* The reset of the counter has an effect only after all ports were handed out
\* between the two halves of one call; otherwise a port below the configured one
\* follows the last one.
SrcPortsSound == OwnPorts /\ PortsFromConfigured
=============================================================================
