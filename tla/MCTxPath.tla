------------------------------ MODULE MCTxPath ------------------------------
(* TxPath for TLC.  Payloads that fit one buffer exactly, exceed it by one,  *)
(* fill two and need three segments; two channels, three sinks, or both; and *)
(* two threads that construct channels until the ports have wrapped around.  *)
EXTENDS TxPath

MCPools == [packet |-> 4, header |-> 2]
Load(udp, sink, new) ==
  [s \in Threads |-> IF s \in UdpSenders THEN udp ELSE IF s \in Sinks THEN sink ELSE new]
MCLoads == {[Load(1, 0, 0) EXCEPT !["u1"] = 2], Load(0, 2, 0), [Load(1, 0, 0) EXCEPT !["s1"] = 1],
            Load(0, 0, 2)}
=============================================================================
